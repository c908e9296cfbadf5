------------------------- MODULE OmpcPoolSerial_proof -------------------------
(***************************************************************************)
(* What the initial thread may conclude outside all regions, for every     *)
(* number of processors and every depth of nesting: the pool is whole      *)
(* again, and the initial thread is alone.  It has to be shown of the      *)
(* slaves of slaves too, along ranks that go up from a master to its team. *)
(***************************************************************************)
EXTENDS OmpcPool_proof

USE ZenonT(40)

\* Processor p is the master of a region whose team has parent structure c.
Masters(p, c) == \E k \in 1 .. Len(frames[p]) : Cthd(p, k) = c

\* Slaves start regions of their own, but no region encloses itself: the processors
\* have ranks that go up from a master to its slaves.
RankInv ==
  \E d \in [Procs -> Nat] : \A p, q \in Procs :
    On(q, "job") /\ Masters(p, Team(q, "job")) => d[p] < d[q]

\* A processor that is taken is in a region, leaves one, or is on the list of a master.
Listed(q) == \E p \in Procs : q \in Elements(proclist[p])
UsedInv ==
  \A q \in Procs : is_used[q] =>
    q = 0 \/ thr[q] # NULL \/ pc[q] \in {"freethr", "freeproc"} \/ Listed(q)

\* The in_parallel of the k-th region of p, and whether its team is the master alone.
Inp(p, k) == frames[p][k].in_parallel
Alone(p, k) == IF k = 1 /\ pc[p] = "getproc" THEN max_thds[p] = 1 ELSE num_thds[Cthd(p, k)] = 1

\* A region that is not parallel has one thread, that of its master, is enclosed by
\* regions that are not either, and was started from the serial program.
InpOwn(p) == \A k \in 1 .. Len(frames[p]) : k > 1 \/ pc[p] = "body" => in_parallel[Above(p, k)] = Inp(p, k)
InpOut(p) == \A j, k \in 1 .. Len(frames[p]) : j <= k /\ Inp(p, j) = 0 => Inp(p, k) = 0
InpAlone(p) == \A k \in 1 .. Len(frames[p]) : Inp(p, k) = 0 => in_parallel[Base(p)] = 0 /\ Alone(p, k)
InpJob(p) == On(p, "job") => in_parallel[Base(p)] = 1
SerialInv(p) == InpOwn(p) /\ InpOut(p) /\ InpAlone(p) /\ InpJob(p)

SInv == RankInv /\ UsedInv /\ \A p \in Procs : SerialInv(p)

----------------------------------------------------------------------------
(* What a step leaves alone.                                                *)

\* The structure that a master executes its region in is in use.
LEMMA AboveHeld ==
  ASSUME IInv, NEW p \in Procs, NEW k \in 1 .. Len(frames[p]), k > 1 \/ pc[p] = "body"
  PROVE  Held(p, Above(p, k)) /\ Above(p, k) \in Structs
<1>1. TypeInv /\ OwnInv(p) /\ PlaceInv(p)
  BY DEF IInv, ProcInv
<1>2. Held(p, Above(p, k))
  <2>1. CASE k = 1
    <3>1. pc[p] = "body"
      BY <2>1, SMTT(20)
    <3>2. thr[p] # NULL
      BY <1>1, <3>1 DEF PlaceInv
    <3> QED BY <2>1, <3>1, <3>2 DEF Above, Held, Forking
  <2>2. CASE k # 1
    <3>0. frames[p] \in Seq(Frames)
      BY <1>1 DEF TypeInv
    <3>1. Len(frames[p]) \in Nat
      BY <3>0, LenIs
    <3>2. k - 1 \in 1 .. Len(frames[p])
      BY <2>2, <3>1, SMTT(20)
    <3> QED BY <2>2, <3>2 DEF Above, Held
  <2> QED BY <2>1, <2>2
<1>3. Above(p, k) \in Own(p)
  BY <1>1, <1>2, HeldOwn
<1> QED BY <1>1, <1>2, <1>3, OwnStruct

\* The structure that a processor was started with is a structure in use.
LEMMA BaseStruct ==
  ASSUME IInv, NEW p \in Procs, thr[p] # NULL
  PROVE  Held(p, Base(p)) /\ Base(p) \in Structs
<1>1. TypeInv /\ OwnInv(p) /\ PlaceInv(p)
  BY DEF IInv, ProcInv
<1>2. Held(p, Base(p))
  BY <1>1, BaseHeld
<1>3. Base(p) \in Own(p)
  BY <1>1, <1>2, HeldOwn
<1> QED BY <1>1, <1>2, <1>3, OwnStruct

\* The master of a region has a thread.
LEMMA MasterRuns ==
  ASSUME IInv, NEW p \in Procs, NEW k \in 1 .. Len(frames[p])
  PROVE  thr[p] # NULL /\ frames[p] # <<>>
<1>1. PlaceInv(p)
  BY DEF IInv, ProcInv
<1>2. frames[p] # <<>>
  BY SMTT(20)
<1> QED BY <1>1, <1>2 DEF PlaceInv

\* A processor that is in no region, or in one that it was started for.
LEMMA SerialNew ==
  ASSUME NEW p \in Procs, frames'[p] = <<>>, On(p, "job")' => in_parallel'[thr'[p]] = 1
  PROVE  SerialInv(p)'
<1>1. \A k : k \notin 1 .. Len(frames'[p])
  BY SMTT(20)
<1>2. InpOwn(p)' /\ InpOut(p)'
  BY <1>1 DEF InpOwn, InpOut
<1>3. InpAlone(p)'
  BY <1>1 DEF InpAlone
<1>4. InpJob(p)'
  BY DEF InpJob, Base
<1> QED BY <1>2, <1>3, <1>4 DEF SerialInv

\* A processor whose regions a step does not touch.
LEMMA SerialKept ==
  ASSUME IInv, NEW p \in Procs, SerialInv(p), frames'[p] = frames[p], thr'[p] = thr[p],
         max_thds'[p] = max_thds[p],
         \A t \in Structs : Held(p, t) => in_parallel'[t] = in_parallel[t],
         \A k \in 1 .. Len(frames[p]) : num_thds'[Cthd(p, k)] = num_thds[Cthd(p, k)],
         frames[p] # <<>> => /\ pc'[p] = "body" => pc[p] = "body"
                             /\ pc'[p] = "getproc" <=> pc[p] = "getproc"
  PROVE  SerialInv(p)'
<1>1. /\ \A k : Cthd(p, k)' = Cthd(p, k) /\ Above(p, k)' = Above(p, k) /\ Inp(p, k)' = Inp(p, k)
      /\ Base(p)' = Base(p)
  BY DEF Cthd, Above, Inp, Base
<1>2. thr[p] # NULL => in_parallel'[Base(p)] = in_parallel[Base(p)]
  BY BaseStruct
<1>3. ASSUME NEW k \in 1 .. Len(frames[p])
      PROVE  /\ thr[p] # NULL /\ (pc'[p] = "body" => pc[p] = "body")
             /\ Alone(p, k) => Alone(p, k)'
  <2>1. thr[p] # NULL /\ frames[p] # <<>>
    BY MasterRuns
  <2>2. (pc'[p] = "body" => pc[p] = "body") /\ (pc'[p] = "getproc" <=> pc[p] = "getproc")
    BY <2>1
  <2>3. num_thds'[Cthd(p, k)] = num_thds[Cthd(p, k)]
    OBVIOUS
  <2> QED BY <1>1, <2>1, <2>2, <2>3 DEF Alone
<1>4. InpOwn(p)'
  <2> SUFFICES ASSUME NEW k \in 1 .. Len(frames[p]), k > 1 \/ pc'[p] = "body"
               PROVE  in_parallel'[Above(p, k)] = Inp(p, k)
    BY <1>1 DEF InpOwn
  <2>1. k > 1 \/ pc[p] = "body"
    BY <1>3
  <2>2. Held(p, Above(p, k)) /\ Above(p, k) \in Structs
    BY <2>1, AboveHeld
  <2>3. in_parallel[Above(p, k)] = Inp(p, k)
    BY <2>1 DEF SerialInv, InpOwn
  <2> QED BY <2>2, <2>3
<1>5. InpOut(p)'
  BY <1>1 DEF SerialInv, InpOut
<1>6. InpAlone(p)'
  BY <1>1, <1>2, <1>3 DEF SerialInv, InpAlone
<1>7. InpJob(p)'
  BY <1>1, <1>2 DEF SerialInv, InpJob, On
<1> QED BY <1>4, <1>5, <1>6, <1>7 DEF SerialInv

\* A step that starts no slave keeps the ranks.
LEMMA RankKept ==
  ASSUME RankInv,
         \A q \in Procs : On(q, "job")' =>
           /\ On(q, "job") /\ Team(q, "job")' = Team(q, "job")
           /\ \A p \in Procs : Masters(p, Team(q, "job"))' => Masters(p, Team(q, "job"))
  PROVE  RankInv'
<1>1. PICK d \in [Procs -> Nat] : \A p, q \in Procs :
        On(q, "job") /\ Masters(p, Team(q, "job")) => d[p] < d[q]
  BY DEF RankInv
<1>2. ASSUME NEW p \in Procs, NEW q \in Procs, On(q, "job")', Masters(p, Team(q, "job"))'
      PROVE  d[p] < d[q]
  BY <1>1, <1>2
<1> QED BY <1>2 DEF RankInv

\* A step that takes no processor and gives none back.
LEMMA UsedKept ==
  ASSUME UsedInv, is_used' = is_used, proclist' = proclist,
         \A q \in Procs : /\ thr[q] # NULL => thr'[q] # NULL \/ pc'[q] = "freethr"
                          /\ pc[q] \in {"freethr", "freeproc"} => pc'[q] \in {"freethr", "freeproc"}
  PROVE  UsedInv'
<1>1. \A q : Listed(q)' <=> Listed(q)
  BY DEF Listed
<1> QED BY <1>1 DEF UsedInv

\* A step of start-up, of the wait loop or of a fork that changes no region.
LEMMA CalmS ==
  ASSUME IInv, SInv, thr' = thr, frames' = frames, parent' = parent, num_thds' = num_thds,
         in_parallel' = in_parallel, max_thds' = max_thds,
         \A q \in Procs : frames[q] # <<>> => /\ pc'[q] = "body" => pc[q] = "body"
                                              /\ pc'[q] = "getproc" <=> pc[q] = "getproc"
  PROVE  RankInv' /\ \A q \in Procs : SerialInv(q)'
<1>1. \A q \in Procs : On(q, "job")' = On(q, "job") /\ Team(q, "job")' = Team(q, "job")
  BY DEF On, Team, Base, Cthd
<1>2. RankInv'
  <2>1. \A p, c : Masters(p, c)' = Masters(p, c)
    BY DEF Masters, Cthd
  <2>2. RankInv
    BY DEF SInv
  <2>3. \A q \in Procs : On(q, "job")' =>
           /\ On(q, "job") /\ Team(q, "job")' = Team(q, "job")
           /\ \A p \in Procs : Masters(p, Team(q, "job"))' => Masters(p, Team(q, "job"))
    BY <1>1, <2>1 DEF Masters, Cthd
  <2> QED BY <2>2, <2>3, RankKept
<1>3. ASSUME NEW q \in Procs PROVE SerialInv(q)'
  <2>1. SerialInv(q)
    BY DEF SInv
  <2> QED BY <2>1, SerialKept
<1> QED BY <1>2, <1>3

\* One processor moves, and no region changes.
LEMMA CalmOne ==
  ASSUME IInv, SInv, NEW p \in Procs, NEW l, pc' = [pc EXCEPT ![p] = l],
         UNCHANGED <<thr, frames, parent, num_thds, in_parallel, max_thds, is_used, proclist>>,
         frames[p] # <<>> => (l = "body" => pc[p] = "body") /\ (l = "getproc" <=> pc[p] = "getproc"),
         pc[p] \in {"freethr", "freeproc"} => l \in {"freethr", "freeproc"}
  PROVE  SInv'
<1>1. pc \in [Procs -> Labels]
  BY DEF IInv, TypeInv
<1>2. pc'[p] = l /\ \A q \in Procs \ {p} : pc'[q] = pc[q]
  BY <1>1
<1>3. /\ thr' = thr /\ frames' = frames /\ parent' = parent /\ num_thds' = num_thds
      /\ in_parallel' = in_parallel /\ max_thds' = max_thds /\ is_used' = is_used /\ proclist' = proclist
  OBVIOUS
<1>4. \A q \in Procs : frames[q] # <<>> => /\ pc'[q] = "body" => pc[q] = "body"
                                           /\ pc'[q] = "getproc" <=> pc[q] = "getproc"
  BY <1>2
<1>5. RankInv' /\ \A q \in Procs : SerialInv(q)'
  BY <1>3, <1>4, CalmS
<1>6. \A q \in Procs : /\ thr[q] # NULL => thr'[q] # NULL \/ pc'[q] = "freethr"
                       /\ pc[q] \in {"freethr", "freeproc"} => pc'[q] \in {"freethr", "freeproc"}
  BY <1>2, <1>3
<1>7. UsedInv'
  BY <1>3, <1>6, UsedKept DEF SInv
<1> QED BY <1>5, <1>7 DEF SInv

----------------------------------------------------------------------------
(* Steps that start or end no region.                                       *)

\* The initial states.
LEMMA InitSInv == Init => SInv
<1> SUFFICES ASSUME Init PROVE SInv
  OBVIOUS
<1>1. \A p \in Procs : thr[p] = NULL /\ frames[p] = <<>> /\ is_used[p] = (p = 0)
  BY DEF Init
<1>2. \A k : k \notin 1 .. Len(<<>>)
  BY SMTT(20)
<1>3. \A p \in Procs : ~On(p, "job")
  BY <1>1 DEF On
<1>4. RankInv
  <2>1. [p \in Procs |-> 0] \in [Procs -> Nat]
    BY SMTT(20)
  <2> QED BY <1>3, <2>1 DEF RankInv
<1>5. UsedInv
  BY <1>1 DEF UsedInv
<1>6. ASSUME NEW p \in Procs PROVE SerialInv(p)
  <2>1. InpOwn(p) /\ InpOut(p) /\ InpAlone(p)
    BY <1>1, <1>2 DEF InpOwn, InpOut, InpAlone
  <2>2. InpJob(p)
    BY <1>3 DEF InpJob
  <2> QED BY <2>1, <2>2 DEF SerialInv
<1> QED BY <1>4, <1>5, <1>6 DEF SInv

\* Start-up, up to the wait for the slaves.
LEMMA StartupS == ASSUME IInv, SInv, CreateSlave \/ CreateDone PROVE SInv'
<1>0. 0 \in Procs
  BY NAssumption, SMTT(20) DEF Procs
<1>1. CASE CreateSlave
  <2>1. /\ UNCHANGED <<thr, frames, parent, num_thds, in_parallel, max_thds, is_used, proclist>>
        /\ pc' = pc /\ pc[0] = "create"
    BY <1>1 DEF CreateSlave, heap, locals
  <2>2. pc' = [pc EXCEPT ![0] = "create"]
    BY <1>0, <2>1 DEF IInv, TypeInv
  <2> QED BY <1>0, <2>1, <2>2, CalmOne
<1>2. CASE CreateDone
  <2>1. /\ pc[0] = "create" /\ pc' = [pc EXCEPT ![0] = "waitprocs"]
        /\ UNCHANGED <<thr, frames, parent, num_thds, in_parallel, max_thds, is_used, proclist>>
    BY <1>2 DEF CreateDone, Goto, pool, heap, locals
  <2> QED BY <1>0, <2>1, CalmOne
<1> QED BY <1>1, <1>2

\* The steps of a slave in the wait loop and on its way to it.
LEMMA SlaveS ==
  ASSUME IInv, SInv, NEW p \in Procs,
         \/ NewProc(p) \/ NewProcDone(p) \/ Spin(p) \/ WaitLock(p) \/ Recheck(p)
         \/ SpuriousWake(p) \/ FreeMe(p) \/ Signal(p)
  PROVE  SInv'
<1>0. PlaceInv(p) /\ thr \in [Procs -> Structs \cup {NULL}]
  BY DEF IInv, ProcInv, TypeInv
<1>1. CASE NewProc(p)
  <2>1. /\ pc[p] = "unborn" /\ pc' = [pc EXCEPT ![p] = "register"]
        /\ UNCHANGED <<thr, frames, parent, num_thds, in_parallel, max_thds, is_used, proclist>>
    BY <1>1 DEF NewProc, Enter, Goto, heap, locals
  <2> QED BY <2>1, CalmOne
<1>2. CASE NewProcDone(p)
  <2>1. /\ pc[p] = "register" /\ pc' = [pc EXCEPT ![p] = "spin"] /\ thr' = [thr EXCEPT ![p] = NULL]
        /\ UNCHANGED <<frames, parent, num_thds, in_parallel, max_thds, is_used, proclist>>
    BY <1>2 DEF NewProcDone, Goto, heap, locals
  <2>2. thr' = thr
    <3>1. thr[p] = NULL
      BY <1>0, <2>1 DEF PlaceInv
    <3> QED BY <1>0, <2>1, <3>1
  <2> QED BY <2>1, <2>2, CalmOne
<1>3. CASE Spin(p)
  <2>1. /\ pc[p] = "spin" /\ pc' = [pc EXCEPT ![p] = IF thr[p] # NULL THEN "body" ELSE "mutex"]
        /\ UNCHANGED <<thr, frames, parent, num_thds, in_parallel, max_thds, is_used, proclist>>
    BY <1>3 DEF Spin, Goto, pool, heap, locals
  <2>2. frames[p] = <<>>
    BY <1>0, <2>1 DEF PlaceInv, Forking
  <2> QED BY <2>1, <2>2, CalmOne
<1>4. CASE WaitLock(p)
  <2>1. /\ pc[p] = "mutex" /\ pc' = [pc EXCEPT ![p] = "recheck"]
        /\ UNCHANGED <<thr, frames, parent, num_thds, in_parallel, max_thds, is_used, proclist>>
    BY <1>4 DEF WaitLock, Goto, pool, heap, locals
  <2> QED BY <2>1, CalmOne
<1>5. CASE Recheck(p)
  <2>1. /\ pc[p] = "recheck" /\ pc' = [pc EXCEPT ![p] = IF thr[p] # NULL THEN "spin" ELSE "asleep"]
        /\ UNCHANGED <<thr, frames, parent, num_thds, in_parallel, max_thds, is_used, proclist>>
    BY <1>5 DEF Recheck, Look, Goto, pool, heap, locals
  <2>2. frames[p] = <<>>
    BY <1>0, <2>1 DEF PlaceInv, Forking
  <2> QED BY <2>1, <2>2, CalmOne
<1>6. CASE SpuriousWake(p)
  <2>1. /\ pc[p] = "asleep" /\ pc' = [pc EXCEPT ![p] = "mutex"]
        /\ UNCHANGED <<thr, frames, parent, num_thds, in_parallel, max_thds, is_used, proclist>>
    BY <1>6 DEF SpuriousWake, Goto, pool, heap, locals
  <2> QED BY <2>1, CalmOne
<1>7. CASE FreeMe(p)
  <2>1. /\ pc[p] = "freethr" /\ pc' = [pc EXCEPT ![p] = "freeproc"]
        /\ UNCHANGED <<thr, frames, parent, num_thds, in_parallel, max_thds, is_used, proclist>>
    BY <1>7 DEF FreeMe, FreeThread, Goto, pool, locals
  <2> QED BY <2>1, CalmOne
<1>8. CASE Signal(p)
  <2>1. /\ pc[p] = "signal" /\ pc' = [pc EXCEPT ![p] = "spin"]
        /\ UNCHANGED <<thr, frames, parent, num_thds, in_parallel, max_thds, is_used, proclist>>
    BY <1>8 DEF Signal, Goto, pool, heap
  <2> QED BY <2>1, CalmOne
<1> QED BY <1>1, <1>2, <1>3, <1>4, <1>5, <1>6, <1>7, <1>8

\* A processor goes back to the pool: it has left its region.
LEMMA FreeProcS == ASSUME IInv, SInv, NEW p \in Procs, FreeProc(p) PROVE SInv'
<1>1. /\ pc[p] = "freeproc" /\ pc' = [pc EXCEPT ![p] = "signal"] /\ is_used' = [is_used EXCEPT ![p] = FALSE]
      /\ thr' = thr /\ frames' = frames /\ parent' = parent /\ num_thds' = num_thds
      /\ in_parallel' = in_parallel /\ max_thds' = max_thds /\ proclist' = proclist
  BY DEF FreeProc, Goto, heap, locals
<1>2. pc \in [Procs -> Labels] /\ is_used \in [Procs -> BOOLEAN]
  BY DEF IInv, TypeInv
<1>3. /\ pc'[p] = "signal" /\ ~is_used'[p]
      /\ \A q \in Procs \ {p} : pc'[q] = pc[q] /\ is_used'[q] = is_used[q]
  BY <1>1, <1>2
<1>4. RankInv' /\ \A q \in Procs : SerialInv(q)'
  <2>1. \A q \in Procs : frames[q] # <<>> => /\ pc'[q] = "body" => pc[q] = "body"
                                             /\ pc'[q] = "getproc" <=> pc[q] = "getproc"
    BY <1>1, <1>3
  <2> QED BY <1>1, <2>1, CalmS
<1>5. UsedInv'
  <2>1. \A q : Listed(q)' <=> Listed(q)
    BY <1>1 DEF Listed
  <2> QED BY <1>1, <1>3, <2>1 DEF SInv, UsedInv
<1> QED BY <1>4, <1>5 DEF SInv

\* A processor that a master takes is on its list.
LEMMA GetProcS == ASSUME IInv, SInv, NEW p \in Procs, GetProc(p) PROVE SInv'
<1>1. /\ thr' = thr /\ frames' = frames /\ parent' = parent /\ num_thds' = num_thds
      /\ in_parallel' = in_parallel /\ max_thds' = max_thds /\ pc' = pc
  BY DEF GetProc, heap
<1>2. PICK q \in Procs : /\ is_used' = [is_used EXCEPT ![q] = TRUE]
                         /\ proclist' = [proclist EXCEPT ![p] = <<q>> \o @]
  BY GetsFree
<1>3. RankInv' /\ \A r \in Procs : SerialInv(r)'
  BY <1>1, CalmS
<1>4. is_used \in [Procs -> BOOLEAN] /\ proclist \in [Procs -> Seq(Procs)]
  BY DEF IInv, TypeInv
<1>5. proclist'[p] = <<q>> \o proclist[p] /\ \A r \in Procs \ {p} : proclist'[r] = proclist[r]
  BY <1>2, <1>4
<1>6. \A r \in Procs : r # q => is_used'[r] = is_used[r]
  BY <1>2, <1>4
<1>7. Elements(proclist'[p]) = {q} \cup Elements(proclist[p])
  <2>1. PICK l : l = proclist[p]
    OBVIOUS
  <2>2. l \in Seq(Procs)
    BY <1>4, <2>1
  <2>3. Elements(<<q>> \o l) = {q} \cup Elements(l)
    BY <2>2, PushFront
  <2> QED BY <1>5, <2>1, <2>3
<1>8. UsedInv'
  <2> SUFFICES ASSUME NEW r \in Procs, is_used'[r]
               PROVE  r = 0 \/ thr'[r] # NULL \/ pc'[r] \in {"freethr", "freeproc"} \/ Listed(r)'
    BY DEF UsedInv
  <2>0. \A a \in Procs : Elements(proclist[a])' = Elements(proclist'[a])
    OBVIOUS
  <2>1. CASE r = q
    BY <1>7, <2>0, <2>1 DEF Listed
  <2>2. CASE r # q
    <3>1. r = 0 \/ thr[r] # NULL \/ pc[r] \in {"freethr", "freeproc"} \/ Listed(r)
      BY <1>6, <2>2 DEF SInv, UsedInv
    <3>2. Listed(r) => Listed(r)'
      <4>1. ASSUME NEW a \in Procs, r \in Elements(proclist[a]) PROVE r \in Elements(proclist'[a])
        <5>1. CASE a = p
          BY <1>7, <4>1, <5>1
        <5>2. CASE a # p
          BY <1>5, <4>1, <5>2
        <5> QED BY <5>1, <5>2
      <4> QED BY <2>0, <4>1 DEF Listed
    <3> QED BY <1>1, <3>1, <3>2
  <2> QED BY <2>1, <2>2
<1> QED BY <1>3, <1>8 DEF SInv

\* A master goes on with its region.
LEMMA MasterS ==
  ASSUME IInv, SInv, NEW p \in Procs, AssignDone(p) \/ Broadcast(p) \/ Return(p)
  PROVE  SInv'
<1>1. CASE AssignDone(p)
  <2>1. /\ pc[p] = "assign"
        /\ pc' = [pc EXCEPT ![p] = IF num_thds[Frame(p).cthd] > 1 THEN "bcast" ELSE "alloc"]
        /\ UNCHANGED <<thr, frames, parent, num_thds, in_parallel, max_thds, is_used, proclist>>
    BY <1>1 DEF AssignDone, Goto, pool, heap, locals
  <2> QED BY <2>1, CalmOne
<1>2. CASE Broadcast(p)
  <2>1. /\ pc[p] = "bcast"
        /\ pc' = [q \in Procs |-> IF q = p THEN "alloc" ELSE IF pc[q] = "asleep" THEN "mutex" ELSE pc[q]]
        /\ thr' = thr /\ frames' = frames /\ parent' = parent /\ num_thds' = num_thds
        /\ in_parallel' = in_parallel /\ max_thds' = max_thds /\ is_used' = is_used /\ proclist' = proclist
    BY <1>2 DEF Broadcast, pool, heap, locals
  <2>2. ASSUME NEW q \in Procs
        PROVE  \/ pc'[q] = pc[q]
               \/ pc[q] = "bcast" /\ pc'[q] = "alloc"
               \/ pc[q] = "asleep" /\ pc'[q] = "mutex"
    <3>1. pc'[q] = IF q = p THEN "alloc" ELSE IF pc[q] = "asleep" THEN "mutex" ELSE pc[q]
      BY <2>1
    <3>2. CASE q = p
      BY <2>1, <3>1, <3>2
    <3>3. CASE q # p
      BY <3>1, <3>3
    <3> QED BY <3>2, <3>3
  <2>3. \A q \in Procs : frames[q] # <<>> => /\ pc'[q] = "body" => pc[q] = "body"
                                             /\ pc'[q] = "getproc" <=> pc[q] = "getproc"
    BY <2>2
  <2>4. \A q \in Procs : /\ thr[q] # NULL => thr'[q] # NULL \/ pc'[q] = "freethr"
                         /\ pc[q] \in {"freethr", "freeproc"} => pc'[q] \in {"freethr", "freeproc"}
    BY <2>1, <2>2
  <2>5. RankInv' /\ \A q \in Procs : SerialInv(q)'
    BY <2>1, <2>3, CalmS
  <2>6. UsedInv'
    BY <2>1, <2>4, UsedKept DEF SInv
  <2> QED BY <2>5, <2>6 DEF SInv
<1>3. CASE Return(p)
  <2>1. /\ pc[p] = "body" /\ pc' = [pc EXCEPT ![p] = "join"]
        /\ UNCHANGED <<thr, frames, parent, num_thds, in_parallel, max_thds, is_used, proclist>>
    BY <1>3 DEF Return, FreeThread, Goto, pool, locals
  <2> QED BY <2>1, CalmOne
<1> QED BY <1>1, <1>2, <1>3

----------------------------------------------------------------------------
(* Steps that do.                                                           *)

\* The initial thread gets its structure: nobody is in a region.
LEMMA WaitProcsS == ASSUME IInv, SInv, WaitProcs PROVE SInv'
<1>1. /\ pc[0] = "waitprocs" /\ pc' = [pc EXCEPT ![0] = "body"]
      /\ is_used' = is_used /\ proclist' = proclist /\ frames' = frames
  BY DEF WaitProcs, Goto, pool, locals
<1>2. PICK s \in Structs : thr' = [thr EXCEPT ![0] = s]
  BY DEF WaitProcs
<1>3. 0 \in Procs
  BY NAssumption, SMTT(20) DEF Procs
<1>4. pc \in [Procs -> Labels] /\ thr \in [Procs -> Structs \cup {NULL}] /\ s # NULL
  BY NullAssumption DEF IInv, TypeInv
<1>5. /\ pc'[0] = "body" /\ thr'[0] = s
      /\ \A q \in Procs \ {0} : pc'[q] = pc[q] /\ thr'[q] = thr[q]
  BY <1>1, <1>2, <1>3, <1>4
<1>6. \A q \in Procs \ {0} : pc[q] \in Waiting \cup {"unborn", "register"} /\ thr[q] = NULL
  BY <1>1 DEF IInv, StartInv, Starting
<1>7. ASSUME NEW q \in Procs PROVE frames'[q] = <<>> /\ ~On(q, "job")'
  <2>1. PlaceInv(q)
    BY DEF IInv, ProcInv
  <2>2. pc[q] \notin Forking \cup {"join", "body"}
    BY <1>1, <1>6 DEF Forking, Waiting
  <2>3. frames[q] = <<>>
    BY <2>1, <2>2 DEF PlaceInv
  <2>4. ~On(q, "job")'
    BY <1>5, <1>6 DEF On
  <2> QED BY <1>1, <2>3, <2>4
<1>8. \A q \in Procs : SerialInv(q)'
  BY <1>7, SerialNew
<1>9. RankInv'
  BY <1>7, RankKept DEF SInv
<1>10. UsedInv'
  <2>1. \A q \in Procs : /\ thr[q] # NULL => thr'[q] # NULL \/ pc'[q] = "freethr"
                         /\ pc[q] \in {"freethr", "freeproc"} => pc'[q] \in {"freethr", "freeproc"}
    BY <1>1, <1>4, <1>5, <1>6
  <2> QED BY <1>1, <2>1, UsedKept DEF SInv
<1> QED BY <1>8, <1>9, <1>10 DEF SInv

\* The slave leaves its region, and has none of its own.
LEMMA FinishS == ASSUME IInv, SInv, NEW p \in Procs, Finish(p) PROVE SInv'
<1>1. /\ pc[p] = "body" /\ frames[p] = <<>> /\ pc' = [pc EXCEPT ![p] = "freethr"]
      /\ thr' = [thr EXCEPT ![p] = NULL]
      /\ frames' = frames /\ parent' = parent /\ num_thds' = num_thds /\ in_parallel' = in_parallel
      /\ max_thds' = max_thds /\ is_used' = is_used /\ proclist' = proclist
  BY DEF Finish, Leave, Goto, pool, heap
<1>2. pc \in [Procs -> Labels] /\ thr \in [Procs -> Structs \cup {NULL}]
  BY DEF IInv, TypeInv
<1>3. /\ pc'[p] = "freethr" /\ thr'[p] = NULL
      /\ \A q \in Procs \ {p} : pc'[q] = pc[q] /\ thr'[q] = thr[q]
  BY <1>1, <1>2
<1>4. SerialInv(p)'
  <2>1. ~On(p, "job")'
    BY <1>3 DEF On
  <2> QED BY <1>1, <2>1, SerialNew
<1>5. ASSUME NEW q \in Procs, q # p PROVE SerialInv(q)'
  <2>1. SerialInv(q) /\ pc'[q] = pc[q] /\ thr'[q] = thr[q]
    BY <1>3, <1>5 DEF SInv
  <2> QED BY <1>1, <2>1, SerialKept
<1>6. RankInv'
  <2>1. ASSUME NEW q \in Procs, On(q, "job")'
        PROVE  /\ On(q, "job") /\ Team(q, "job")' = Team(q, "job")
               /\ \A r \in Procs : Masters(r, Team(q, "job"))' => Masters(r, Team(q, "job"))
    <3>1. q # p /\ thr'[q] = thr[q] /\ On(q, "job")
      BY <1>3, <2>1 DEF On
    <3>2. Team(q, "job")' = Team(q, "job")
      <4>1. frames' = frames /\ parent' = parent
        BY <1>1
      <4>2. Base(q)' = Base(q)
        <5>1. Base(q)' = IF frames[q] = <<>> THEN thr[q] ELSE Cthd(q, Len(frames[q]))
          BY <3>1, <4>1 DEF Base, Cthd
        <5> QED BY <5>1 DEF Base
      <4>3. Team(q, "job") = parent[Base(q)] /\ Team(q, "job")' = (parent[Base(q)])'
        BY DEF Team
      <4> QED BY <4>1, <4>2, <4>3
    <3>3. \A r \in Procs : Masters(r, Team(q, "job"))' => Masters(r, Team(q, "job"))
      <4> TAKE r \in Procs
      <4> QED BY <1>1, <3>2 DEF Masters, Cthd
    <3> QED BY <3>1, <3>2, <3>3
  <2> QED BY <2>1, RankKept DEF SInv
<1>7. UsedInv'
  <2>1. \A q \in Procs : /\ thr[q] # NULL => thr'[q] # NULL \/ pc'[q] = "freethr"
                         /\ pc[q] \in {"freethr", "freeproc"} => pc'[q] \in {"freethr", "freeproc"}
    <3> TAKE q \in Procs
    <3>1. CASE q = p
      BY <1>1, <1>3, <3>1
    <3>2. CASE q # p
      BY <1>3, <3>2
    <3> QED BY <3>1, <3>2
  <2> QED BY <1>1, <2>1, UsedKept DEF SInv
<1> QED BY <1>4, <1>5, <1>6, <1>7 DEF SInv

\* The parent structure is initialised: a region that is not parallel gets one thread.
LEMMA InitParentS == ASSUME IInv, TInv, SInv, NEW p \in Procs, InitParent(p) PROVE SInv'
<1>0. PICK c0 : c0 = Frame(p).cthd
  OBVIOUS
<1>1. /\ pc[p] = "getproc" /\ pc' = [pc EXCEPT ![p] = "assign"]
      /\ num_thds' = [num_thds EXCEPT ![c0] = i[p]]
      /\ thr' = thr /\ frames' = frames /\ parent' = parent /\ in_parallel' = in_parallel
      /\ max_thds' = max_thds /\ is_used' = is_used /\ proclist' = proclist
  BY <1>0 DEF InitParent, Goto, pool
<1>2. /\ TypeInv /\ pc \in [Procs -> Labels] /\ num_thds \in [Structs -> 0 .. N]
      /\ i[p] \in 1 .. N /\ max_thds[p] \in 1 .. N
  BY DEF IInv, TypeInv
<1>3. 1 \in 1 .. Len(frames[p]) /\ c0 = Cthd(p, 1) /\ c0 \in Structs
  <2>1. frames[p] # <<>>
    BY <1>1 DEF IInv, ProcInv, PlaceInv, Forking
  <2> QED BY <1>0, <1>2, <2>1, FrameIsFirst DEF Cthd
<1>4. pc'[p] = "assign" /\ \A q \in Procs \ {p} : pc'[q] = pc[q]
  BY <1>1, <1>2
<1>5. num_thds'[c0] = i[p] /\ \A t \in Structs \ {c0} : num_thds'[t] = num_thds[t]
  BY <1>1, <1>2, <1>3
<1>6. ASSUME NEW q \in Procs, NEW k \in 1 .. Len(frames[q]), q # p \/ k # 1
      PROVE  num_thds'[Cthd(q, k)] = num_thds[Cthd(q, k)]
  <2>1. Cthd(q, k) # c0
    <3>1. \A a \in 1 .. Len(frames[q]), b \in 1 .. Len(frames[p]) : Cthd(q, a) = Cthd(p, b) => q = p /\ a = b
      BY FrameOne
    <3> QED BY <1>3, <1>6, <3>1
  <2>2. Cthd(q, k) \in Structs
    <3>1. Cthd(q, k) \in Own(q)
      BY DEF IInv, ProcInv, OwnInv, Cthd
    <3> QED BY <1>2, <3>1, OwnStruct
  <2> QED BY <1>5, <2>1, <2>2
<1>7. ASSUME NEW q \in Procs, q # p PROVE SerialInv(q)'
  <2>1. SerialInv(q) /\ pc'[q] = pc[q]
    BY <1>4, <1>7 DEF SInv
  <2>2. \A k \in 1 .. Len(frames[q]) : num_thds'[Cthd(q, k)] = num_thds[Cthd(q, k)]
    BY <1>6, <1>7
  <2> QED BY <1>1, <2>1, <2>2, SerialKept
<1>8. /\ SerialInv(p) /\ \A k : Cthd(p, k)' = Cthd(p, k) /\ Above(p, k)' = Above(p, k) /\ Inp(p, k)' = Inp(p, k)
      /\ Base(p)' = Base(p) /\ On(p, "job")' = On(p, "job")
  BY <1>1 DEF SInv, Cthd, Above, Inp, Base, On
<1>9. ASSUME NEW k \in 1 .. Len(frames[p]), Alone(p, k) PROVE Alone(p, k)'
  <2>1. CASE k = 1
    <3>1. max_thds[p] = 1
      BY <1>1, <1>9, <2>1 DEF Alone
    <3>2. i[p] <= max_thds[p]
      BY <1>1 DEF IInv, ProcInv, ListInv
    <3>3. i[p] = 1
      BY <1>2, <3>1, <3>2, NAssumption, SMTT(20)
    <3>4. num_thds'[Cthd(p, k)] = 1
      BY <1>3, <1>5, <2>1, <3>3
    <3> QED BY <1>4, <1>8, <3>4 DEF Alone
  <2>2. CASE k # 1
    <3>1. num_thds'[Cthd(p, k)] = 1
      BY <1>6, <1>9, <2>2 DEF Alone
    <3> QED BY <1>4, <1>8, <3>1 DEF Alone
  <2> QED BY <2>1, <2>2
<1>10. SerialInv(p)'
  <2>1. InpOwn(p)'
    BY <1>1, <1>4, <1>8 DEF SerialInv, InpOwn
  <2>2. InpOut(p)'
    BY <1>1, <1>8 DEF SerialInv, InpOut
  <2>3. InpAlone(p)'
    BY <1>1, <1>8, <1>9 DEF SerialInv, InpAlone
  <2>4. InpJob(p)'
    BY <1>1, <1>8 DEF SerialInv, InpJob
  <2> QED BY <2>1, <2>2, <2>3, <2>4 DEF SerialInv
<1>11. RankInv'
  <2>1. \A q \in Procs : /\ On(q, "job")' = On(q, "job") /\ Team(q, "job")' = Team(q, "job")
                         /\ \A r \in Procs : Masters(r, Team(q, "job"))' => Masters(r, Team(q, "job"))
    BY <1>1 DEF On, Team, Base, Cthd, Masters
  <2> QED BY <2>1, RankKept DEF SInv
<1>12. UsedInv'
  <2>1. \A q \in Procs : /\ thr[q] # NULL => thr'[q] # NULL \/ pc'[q] = "freethr"
                         /\ pc[q] \in {"freethr", "freeproc"} => pc'[q] \in {"freethr", "freeproc"}
    BY <1>1, <1>4
  <2> QED BY <1>1, <2>1, UsedKept DEF SInv
<1> QED BY <1>7, <1>10, <1>11, <1>12 DEF SInv

\* A thread that is not in a parallel region is in none that is parallel further out.
LEMMA SerialOut ==
  ASSUME TypeInv, NEW p \in Procs, SerialInv(p), pc[p] = "body", in_parallel[thr[p]] = 0
  PROVE  in_parallel[Base(p)] = 0 /\ \A k \in 1 .. Len(frames[p]) : Inp(p, k) = 0
<1>1. CASE frames[p] = <<>>
  <2>1. \A k : k \notin 1 .. Len(frames[p])
    BY <1>1, SMTT(20)
  <2> QED BY <1>1, <2>1 DEF Base
<1>2. CASE frames[p] # <<>>
  <2>1. 1 \in 1 .. Len(frames[p])
    BY <1>2, FrameIsFirst
  <2>2. Inp(p, 1) = 0
    BY <2>1 DEF SerialInv, InpOwn, Above
  <2>3. ASSUME NEW k \in 1 .. Len(frames[p]) PROVE Inp(p, k) = 0
    <3>1. 1 <= k
      BY SMTT(20)
    <3> QED BY <2>1, <2>2, <3>1 DEF SerialInv, InpOut
  <2> QED BY <2>1, <2>2, <2>3 DEF SerialInv, InpAlone
<1> QED BY <1>1, <1>2

\* A thread forks a region: if omp_in_parallel() is to be 0 in it, so it is where it forks.
LEMMA DoParallelS ==
  ASSUME IInv, TInv, SInv, NEW p \in Procs, NEW cond \in {0, 1}, NEW nthds \in 1 .. N,
         DoParallel(p, cond, nthds)
  PROVE  SInv'
<1>a. PICK x : x = IF cond = 0 THEN in_parallel[thr[p]] ELSE 1
  OBVIOUS
<1>b. PICK n : n = IF Serialized(p, cond) THEN 1 ELSE nthds
  OBVIOUS
<1>0. Pushed(p, x, n)
  BY <1>a, <1>b, Pushes
<1>1. x = 0 => in_parallel[thr[p]] = 0 /\ n = 1
  <2>1. CASE cond = 0
    BY <1>a, <1>b, <2>1 DEF Serialized
  <2>2. CASE cond # 0
    <3>1. x = 1
      BY <1>a, <2>2
    <3> QED BY <3>1, SMTT(20)
  <2> QED BY <2>1, <2>2
<1>2. /\ thr' = thr /\ parent' = parent /\ num_thds' = num_thds /\ in_parallel' = in_parallel
      /\ is_used' = is_used /\ pc[p] = "body" /\ pc'[p] = "getproc" /\ max_thds'[p] = n
      /\ Cthd(p, 1)' = thr[p] /\ Inp(p, 1)' = x /\ \A q \in Procs : Base(q)' = Base(q)
  BY <1>0 DEF Pushed, Inp
<1>3. \A q \in Procs \ {p} : pc'[q] = pc[q] /\ frames'[q] = frames[q] /\ max_thds'[q] = max_thds[q]
  BY <1>0 DEF Pushed
<1>4. ASSUME NEW q \in Procs, q # p PROVE SerialInv(q)'
  <2>1. SerialInv(q) /\ pc'[q] = pc[q] /\ frames'[q] = frames[q] /\ max_thds'[q] = max_thds[q]
    BY <1>3, <1>4 DEF SInv
  <2> QED BY <1>2, <2>1, SerialKept
<1>5. /\ InpOwn(p) /\ InpOut(p) /\ InpAlone(p) /\ InpJob(p) /\ TypeInv
  BY DEF SInv, SerialInv, IInv
<1>6. in_parallel[thr[p]] = 0 =>
        in_parallel[Base(p)] = 0 /\ \A k \in 1 .. Len(frames[p]) : Inp(p, k) = 0
  BY <1>2, <1>5, SerialOut DEF SInv
<1>7. ASSUME NEW k \in 1 .. Len(frames'[p]), k # 1
      PROVE  /\ k - 1 \in 1 .. Len(frames[p]) /\ Inp(p, k)' = Inp(p, k - 1)
             /\ Above(p, k)' = Above(p, k - 1) /\ (Alone(p, k - 1) => Alone(p, k)')
  <2>1. /\ k - 1 \in 1 .. Len(frames[p]) /\ frames'[p][k] = frames[p][k - 1]
        /\ Cthd(p, k)' = Cthd(p, k - 1) /\ Above(p, k)' = Above(p, k - 1)
    BY <1>0, <1>7 DEF Pushed
  <2>2. Inp(p, k)' = Inp(p, k - 1)
    BY <2>1 DEF Inp
  <2>3. Alone(p, k - 1) => num_thds[Cthd(p, k - 1)] = 1
    BY <1>2 DEF Alone
  <2>4. num_thds[Cthd(p, k - 1)] = 1 => Alone(p, k)'
    BY <1>2, <1>7, <2>1 DEF Alone
  <2> QED BY <2>1, <2>2, <2>3, <2>4
<1>8. InpOwn(p)'
  <2> SUFFICES ASSUME NEW k \in 1 .. Len(frames'[p]), k > 1
               PROVE  in_parallel[Above(p, k)'] = Inp(p, k)'
    BY <1>2 DEF InpOwn
  <2>1. k # 1
    BY SMTT(20)
  <2> QED BY <1>2, <1>5, <1>7, <2>1 DEF InpOwn
<1>9. InpOut(p)'
  <2> SUFFICES ASSUME NEW j \in 1 .. Len(frames'[p]), NEW k \in 1 .. Len(frames'[p]), j <= k, Inp(p, j)' = 0
               PROVE  Inp(p, k)' = 0
    BY DEF InpOut
  <2>1. CASE k = 1
    <3>1. j = 1
      BY <2>1, SMTT(20)
    <3> QED BY <2>1, <3>1
  <2>2. CASE k # 1 /\ j = 1
    <3>1. in_parallel[thr[p]] = 0
      BY <1>1, <1>2, <2>2
    <3> QED BY <1>6, <1>7, <2>2, <3>1
  <2>3. CASE k # 1 /\ j # 1
    <3>1. j - 1 <= k - 1
      BY SMTT(20)
    <3>2. j - 1 \in 1 .. Len(frames[p]) /\ k - 1 \in 1 .. Len(frames[p]) /\ Inp(p, j - 1) = 0
      BY <1>7, <2>3
    <3>3. Inp(p, k - 1) = 0
      BY <1>5, <3>1, <3>2 DEF InpOut
    <3> QED BY <1>7, <2>3, <3>3
  <2> QED BY <2>1, <2>2, <2>3
<1>10. InpAlone(p)'
  <2> SUFFICES ASSUME NEW k \in 1 .. Len(frames'[p]), Inp(p, k)' = 0
               PROVE  in_parallel[Base(p)] = 0 /\ Alone(p, k)'
    BY <1>2 DEF InpAlone
  <2>1. CASE k = 1
    <3>1. in_parallel[thr[p]] = 0 /\ n = 1
      BY <1>1, <1>2, <2>1
    <3>2. Alone(p, k)'
      BY <1>2, <2>1, <3>1 DEF Alone
    <3> QED BY <1>6, <3>1, <3>2
  <2>2. CASE k # 1
    BY <1>5, <1>7, <2>2 DEF InpAlone
  <2> QED BY <2>1, <2>2
<1>11. SerialInv(p)'
  <2>1. InpJob(p)'
    BY <1>2, <1>5 DEF InpJob, On
  <2> QED BY <1>8, <1>9, <1>10, <2>1 DEF SerialInv
<1>12. RankInv'
  <2>1. ASSUME NEW q \in Procs, On(q, "job")'
        PROVE  /\ On(q, "job") /\ Team(q, "job")' = Team(q, "job")
               /\ \A r \in Procs : Masters(r, Team(q, "job"))' => Masters(r, Team(q, "job"))
    <3>1. On(q, "job") /\ Team(q, "job")' = Team(q, "job")
      BY <1>2, <2>1 DEF On, Team
    <3>2. PICK c : c = Team(q, "job")
      OBVIOUS
    <3>3. c # thr[p]
      <4>1. Valid(Team(q, "job"), Nr(q, "job"))
        BY <3>1 DEF TInv, MemberInv, Roles
      <4>2. Forked(c)
        BY <3>2, <4>1, ValidForked
      <4> QED BY <1>2, <4>2, ForkedApart
    <3>4. ASSUME NEW r \in Procs, NEW k \in 1 .. Len(frames'[r]), Cthd(r, k)' = c PROVE Masters(r, c)
      <4>1. CASE r # p
        BY <1>3, <3>4, <4>1 DEF Masters, Cthd
      <4>2. CASE r = p
        <5>1. k # 1
          BY <1>2, <3>3, <3>4, <4>2
        <5>2. k - 1 \in 1 .. Len(frames[p]) /\ Cthd(p, k)' = Cthd(p, k - 1)
          BY <1>0, <4>2, <5>1 DEF Pushed
        <5> QED BY <3>4, <4>2, <5>2 DEF Masters
      <4> QED BY <4>1, <4>2
    <3> QED BY <3>1, <3>2, <3>4 DEF Masters
  <2> QED BY <2>1, RankKept DEF SInv
<1>13. UsedInv'
  <2>1. proclist' = [proclist EXCEPT ![p] = <<>>] /\ proclist \in [Procs -> Seq(Procs)]
    BY DEF DoParallel, Begin, IInv, TypeInv
  <2>2. proclist[p] = <<>>
    BY <1>2 DEF IInv, ProcInv, ListInv
  <2>3. proclist' = proclist
    BY <2>1, <2>2
  <2>4. \A q \in Procs : /\ thr[q] # NULL => thr'[q] # NULL \/ pc'[q] = "freethr"
                         /\ pc[q] \in {"freethr", "freeproc"} => pc'[q] \in {"freethr", "freeproc"}
    BY <1>2, <1>3
  <2> QED BY <1>2, <2>3, <2>4, UsedKept DEF SInv
<1> QED BY <1>4, <1>11, <1>12, <1>13 DEF SInv

\* The master goes back to where it forked.
LEMMA JoinS == ASSUME IInv, TInv, SInv, NEW p \in Procs, Join(p) PROVE SInv'
<1>0. PICK c0 : Popped(p, c0)
  BY Pops
<1>1. /\ pc[p] = "join" /\ pc'[p] = "body" /\ thr'[p] = c0 /\ c0 # NULL
      /\ parent' = parent /\ num_thds' = num_thds /\ in_parallel' = in_parallel
      /\ max_thds' = max_thds /\ is_used' = is_used /\ proclist' = proclist
      /\ \A q \in Procs : Base(q)' = Base(q) /\ (thr'[q] # NULL => thr[q] # NULL)
  BY <1>0 DEF Popped
<1>2. \A q \in Procs \ {p} : pc'[q] = pc[q] /\ thr'[q] = thr[q] /\ frames'[q] = frames[q]
  BY <1>0 DEF Popped
<1>3. \A k \in 1 .. Len(frames'[p]) :
        /\ k + 1 \in 1 .. Len(frames[p]) /\ k + 1 # 1 /\ k + 1 > 1 /\ frames'[p][k] = frames[p][k + 1]
        /\ Cthd(p, k)' = Cthd(p, k + 1) /\ Above(p, k)' = Above(p, k + 1)
  BY <1>0 DEF Popped
<1>4. ASSUME NEW q \in Procs, q # p PROVE SerialInv(q)'
  <2>1. SerialInv(q) /\ pc'[q] = pc[q] /\ thr'[q] = thr[q] /\ frames'[q] = frames[q]
    BY <1>2, <1>4 DEF SInv
  <2> QED BY <1>1, <2>1, SerialKept
<1>5. InpOwn(p) /\ InpOut(p) /\ InpAlone(p) /\ InpJob(p)
  BY DEF SInv, SerialInv
<1>6. \A k \in 1 .. Len(frames'[p]) : Inp(p, k)' = Inp(p, k + 1)
  BY <1>3 DEF Inp
<1>7. InpOwn(p)'
  BY <1>1, <1>3, <1>5, <1>6 DEF InpOwn
<1>8. InpOut(p)'
  <2> SUFFICES ASSUME NEW j \in 1 .. Len(frames'[p]), NEW k \in 1 .. Len(frames'[p]), j <= k, Inp(p, j)' = 0
               PROVE  Inp(p, k)' = 0
    BY DEF InpOut
  <2>1. j + 1 <= k + 1
    BY SMTT(20)
  <2>2. j + 1 \in 1 .. Len(frames[p]) /\ k + 1 \in 1 .. Len(frames[p]) /\ Inp(p, j + 1) = 0
    BY <1>3, <1>6
  <2>3. Inp(p, k + 1) = 0
    BY <1>5, <2>1, <2>2 DEF InpOut
  <2> QED BY <1>6, <2>3
<1>9. InpAlone(p)'
  <2> SUFFICES ASSUME NEW k \in 1 .. Len(frames'[p]), Inp(p, k)' = 0
               PROVE  in_parallel[Base(p)] = 0 /\ Alone(p, k)'
    BY <1>1 DEF InpAlone
  <2>1. k + 1 \in 1 .. Len(frames[p]) /\ k + 1 # 1 /\ Inp(p, k + 1) = 0 /\ Cthd(p, k)' = Cthd(p, k + 1)
    BY <1>3, <1>6
  <2>2. in_parallel[Base(p)] = 0 /\ Alone(p, k + 1)
    BY <1>5, <2>1 DEF InpAlone
  <2>3. num_thds[Cthd(p, k + 1)] = 1
    BY <2>1, <2>2 DEF Alone
  <2> QED BY <1>1, <2>1, <2>2, <2>3 DEF Alone
<1>10. SerialInv(p)'
  <2>1. InpJob(p)'
    BY <1>1, <1>5 DEF InpJob, On
  <2> QED BY <1>7, <1>8, <1>9, <2>1 DEF SerialInv
<1>11. RankInv'
  <2>1. ASSUME NEW q \in Procs, On(q, "job")'
        PROVE  /\ On(q, "job") /\ Team(q, "job")' = Team(q, "job")
               /\ \A r \in Procs : Masters(r, Team(q, "job"))' => Masters(r, Team(q, "job"))
    <3>1. On(q, "job") /\ Team(q, "job")' = Team(q, "job")
      BY <1>1, <2>1 DEF On, Team
    <3>2. PICK c : c = Team(q, "job")
      OBVIOUS
    <3>3. ASSUME NEW r \in Procs, NEW k \in 1 .. Len(frames'[r]), Cthd(r, k)' = c PROVE Masters(r, c)
      <4>1. CASE r # p
        BY <1>2, <3>3, <4>1 DEF Masters, Cthd
      <4>2. CASE r = p
        BY <1>3, <3>3, <4>2 DEF Masters
      <4> QED BY <4>1, <4>2
    <3> QED BY <3>1, <3>2, <3>3 DEF Masters
  <2> QED BY <2>1, RankKept DEF SInv
<1>12. UsedInv'
  <2>1. \A q \in Procs : /\ thr[q] # NULL => thr'[q] # NULL \/ pc'[q] = "freethr"
                         /\ pc[q] \in {"freethr", "freeproc"} => pc'[q] \in {"freethr", "freeproc"}
    BY <1>1, <1>2
  <2> QED BY <1>1, <2>1, UsedKept DEF SInv
<1> QED BY <1>4, <1>10, <1>11, <1>12 DEF SInv

\* The master gets a structure for its region, with the in_parallel of the region.
LEMMA AllocMasterS == ASSUME IInv, TInv, SInv, NEW p \in Procs, AllocMaster(p) PROVE SInv'
<1>0. PICK s, c0 : Gained(p, s, c0)
  BY Gains
<1>1. /\ pc[p] = "alloc" /\ pc'[p] = "body" /\ thr'[p] = s /\ s # NULL /\ thr[p] # NULL
      /\ \A r \in Procs : ~Held(r, s)
      /\ in_parallel'[s] = Inp(p, 1) /\ \A t \in Structs \ {s} : in_parallel'[t] = in_parallel[t]
  BY <1>0 DEF Gained, Unused, Inp
<1>2. /\ proclist' = proclist /\ max_thds' = max_thds /\ is_used' = is_used /\ num_thds' = num_thds
      /\ Len(frames'[p]) = Len(frames[p])
      /\ \A q \in Procs \ {p} : pc'[q] = pc[q] /\ thr'[q] = thr[q] /\ frames'[q] = frames[q]
  BY <1>0 DEF Gained
<1>3. \A k \in 1 .. Len(frames[p]) : /\ Cthd(p, k)' = Cthd(p, k) /\ Inp(p, k)' = Inp(p, k)
                                     /\ Cthd(p, k) \in Structs \ {s}
  BY <1>0 DEF Gained, Cthd, Inp
<1>4. \A q \in Procs : thr'[q] # NULL =>
        /\ thr[q] # NULL /\ Base(q)' = Base(q) /\ Base(q) \in Structs \ {s}
        /\ parent'[Base(q)] = parent[Base(q)]
  BY <1>0 DEF Gained
<1>5. ASSUME NEW q \in Procs, q # p PROVE SerialInv(q)'
  <2>1. SerialInv(q) /\ pc'[q] = pc[q] /\ thr'[q] = thr[q] /\ frames'[q] = frames[q]
    BY <1>2, <1>5 DEF SInv
  <2>2. \A t \in Structs : Held(q, t) => in_parallel'[t] = in_parallel[t]
    BY <1>1
  <2> QED BY <1>2, <2>1, <2>2, SerialKept
<1>6. InpOwn(p) /\ InpOut(p) /\ InpAlone(p) /\ InpJob(p)
  BY DEF SInv, SerialInv
<1>7. InpOwn(p)'
  <2> SUFFICES ASSUME NEW k \in 1 .. Len(frames[p]) PROVE in_parallel'[Above(p, k)'] = Inp(p, k)
    BY <1>2, <1>3 DEF InpOwn
  <2>1. CASE k = 1
    BY <1>1, <2>1 DEF Above
  <2>2. CASE k # 1
    <3>0. frames[p] \in Seq(Frames)
      BY DEF IInv, TypeInv
    <3>1. Len(frames[p]) \in Nat
      BY <3>0, LenIs
    <3>2. k - 1 \in 1 .. Len(frames[p]) /\ k > 1
      BY <2>2, <3>1, SMTT(20)
    <3>3. Above(p, k)' = Cthd(p, k - 1) /\ Above(p, k) = Cthd(p, k - 1)
      BY <1>3, <2>2, <3>2 DEF Above
    <3>4. in_parallel[Above(p, k)] = Inp(p, k)
      BY <1>6, <3>2 DEF InpOwn
    <3> QED BY <1>1, <1>3, <3>2, <3>3, <3>4
  <2> QED BY <2>1, <2>2
<1>8. InpOut(p)'
  BY <1>2, <1>3, <1>6 DEF InpOut
<1>9. Base(p)' = Base(p) /\ in_parallel'[Base(p)] = in_parallel[Base(p)]
  BY <1>1, <1>4
<1>10. InpAlone(p)'
  <2> SUFFICES ASSUME NEW k \in 1 .. Len(frames[p]), Inp(p, k) = 0
               PROVE  in_parallel[Base(p)] = 0 /\ Alone(p, k)'
    BY <1>2, <1>3, <1>9 DEF InpAlone
  <2>1. in_parallel[Base(p)] = 0 /\ Alone(p, k)
    BY <1>6 DEF InpAlone
  <2>2. num_thds[Cthd(p, k)] = 1
    BY <1>1, <2>1 DEF Alone
  <2> QED BY <1>1, <1>2, <1>3, <2>1, <2>2 DEF Alone
<1>11. SerialInv(p)'
  <2>1. InpJob(p)'
    BY <1>1, <1>6, <1>9 DEF InpJob, On
  <2> QED BY <1>7, <1>8, <1>10, <2>1 DEF SerialInv
<1>12. RankInv'
  <2>1. ASSUME NEW q \in Procs, On(q, "job")'
        PROVE  /\ On(q, "job") /\ Team(q, "job")' = Team(q, "job")
               /\ \A r \in Procs : Masters(r, Team(q, "job"))' => Masters(r, Team(q, "job"))
    <3>1. On(q, "job") /\ Team(q, "job")' = Team(q, "job")
      BY <1>4, <2>1 DEF On, Team
    <3>2. PICK c : c = Team(q, "job")
      OBVIOUS
    <3>3. ASSUME NEW r \in Procs, NEW k \in 1 .. Len(frames'[r]), Cthd(r, k)' = c PROVE Masters(r, c)
      <4>1. CASE r # p
        BY <1>2, <3>3, <4>1 DEF Masters, Cthd
      <4>2. CASE r = p
        BY <1>2, <1>3, <3>3, <4>2 DEF Masters
      <4> QED BY <4>1, <4>2
    <3> QED BY <3>1, <3>2, <3>3 DEF Masters
  <2> QED BY <2>1, RankKept DEF SInv
<1>13. UsedInv'
  <2>1. \A q \in Procs : /\ thr[q] # NULL => thr'[q] # NULL \/ pc'[q] = "freethr"
                         /\ pc[q] \in {"freethr", "freeproc"} => pc'[q] \in {"freethr", "freeproc"}
    BY <1>1, <1>2
  <2> QED BY <1>2, <2>1, UsedKept DEF SInv
<1> QED BY <1>5, <1>11, <1>12, <1>13 DEF SInv

\* An entry of a list other than the first is in its rest.
LEMMA InRest ==
  ASSUME NEW S, NEW l \in Seq(S), l # <<>>, NEW x \in Elements(l), x # Head(l)
  PROVE  x \in Elements(Tail(l))
<1>1. PICK k \in 1 .. Len(l) : x = l[k]
  BY SMTT(20) DEF Elements
<1>2. k # 1 /\ k - 1 \in 1 .. Len(Tail(l)) /\ Tail(l)[k - 1] = l[k] /\ Tail(l) \in Seq(S)
  BY <1>1, SMTT(20)
<1>3. PICK r : r = Tail(l)
  OBVIOUS
<1>4. r \in Seq(S) /\ k - 1 \in 1 .. Len(r) /\ r[k - 1] = x
  BY <1>1, <1>2, <1>3
<1>5. k - 1 \in DOMAIN r
  BY <1>4, SMTT(20)
<1>6. x \in Elements(r)
  BY <1>4, <1>5 DEF Elements
<1> QED BY <1>3, <1>6

\* A slave is started: its master is the one processor that is master of its team, and
\* that team has two threads at least.
LEMMA AssignS == ASSUME IInv, TInv, SInv, NEW p \in Procs, Assign(p) PROVE SInv'
<1>0. PICK q \in Procs, s \in Structs, c0 \in Structs, n0 \in 1 .. N : Given(p, q, s, c0, n0)
  BY Gives
<1>1. /\ pc[p] = "assign" /\ n0 < num_thds[c0] /\ num_thds[c0] \in 0 .. N
      /\ 1 \in 1 .. Len(frames[p]) /\ c0 = Cthd(p, 1) /\ in_parallel'[s] = Inp(p, 1)
      /\ s # NULL /\ \A r \in Procs : ~Held(r, s)
      /\ thr[q] = NULL /\ q # p /\ q # 0 /\ frames[q] = <<>> /\ thr'[q] = s /\ parent'[s] = c0
  BY <1>0 DEF Given, Unused, Inp
<1>2. /\ pc' = pc /\ frames' = frames /\ num_thds' = num_thds /\ max_thds' = max_thds
      /\ \A t \in Structs \ {s} : in_parallel'[t] = in_parallel[t]
      /\ \A r \in Procs \ {q} : thr'[r] = thr[r]
      /\ \A r \in Procs \ {q} : thr[r] # NULL => Base(r)' = Base(r) /\ parent'[Base(r)] = parent[Base(r)]
  BY <1>0 DEF Given
<1>3. Inp(p, 1) = 1
  <2>1. frames[p] # <<>> /\ TypeInv
    BY <1>1, MasterRuns DEF IInv
  <2>2. Inp(p, 1) \in {0, 1}
    BY <2>1, FrameIsFirst DEF Inp
  <2>3. ASSUME Inp(p, 1) = 0 PROVE FALSE
    <3>1. Alone(p, 1)
      BY <1>1, <2>3 DEF SInv, SerialInv, InpAlone
    <3>2. num_thds[c0] = 1
      BY <1>1, <3>1 DEF Alone
    <3> QED BY <1>1, <3>2, SMTT(20)
  <2> QED BY <2>2, <2>3
<1>4. SerialInv(q)'
  BY <1>1, <1>2, <1>3, SerialNew
<1>5. ASSUME NEW r \in Procs, r # q PROVE SerialInv(r)'
  <2>1. SerialInv(r) /\ thr'[r] = thr[r]
    BY <1>2, <1>5 DEF SInv
  <2>2. \A t \in Structs : Held(r, t) => in_parallel'[t] = in_parallel[t]
    BY <1>1, <1>2
  <2> QED BY <1>2, <2>1, <2>2, SerialKept
<1>6. RankInv'
  <2>1. PICK d \in [Procs -> Nat] : \A a, b \in Procs :
          On(b, "job") /\ Masters(a, Team(b, "job")) => d[a] < d[b]
    BY DEF SInv, RankInv
  <2>2. PICK e : e = [d EXCEPT ![q] = d[p] + 1]
    OBVIOUS
  <2>3. e \in [Procs -> Nat] /\ d[p] < e[q] /\ \A r \in Procs \ {q} : e[r] = d[r]
    BY <2>2, SMTT(20)
  <2>4. ASSUME NEW a \in Procs, NEW b \in Procs, On(b, "job")', Masters(a, Team(b, "job"))'
        PROVE  e[a] < e[b]
    <3>1. PICK c : c = Team(b, "job")'
      OBVIOUS
    <3>2. PICK k \in 1 .. Len(frames[a]) : Cthd(a, k) = c
      BY <1>2, <2>4, <3>1 DEF Masters, Cthd
    <3>3. CASE b = q
      <4>1. c = c0
        BY <1>1, <1>2, <3>1, <3>3 DEF Team, Base
      <4>2. \A j \in 1 .. Len(frames[p]), m \in 1 .. Len(frames[a]) : Cthd(p, j) = Cthd(a, m) => p = a /\ j = m
        BY FrameOne
      <4>3. a = p
        BY <1>1, <3>2, <4>1, <4>2
      <4> QED BY <1>1, <2>3, <3>3, <4>3
    <3>4. CASE b # q
      <4>1. On(b, "job") /\ thr[b] # NULL
        BY <1>2, <2>4, <3>4 DEF On
      <4>2. c = Team(b, "job")
        BY <1>2, <3>1, <3>4, <4>1 DEF Team
      <4>3. d[a] < d[b]
        BY <2>1, <3>2, <4>1, <4>2 DEF Masters
      <4>4. a # q
        BY <1>1, <3>2, MasterRuns
      <4>5. e[a] = d[a] /\ e[b] = d[b]
        BY <2>3, <3>4, <4>4
      <4> QED BY <4>3, <4>5
    <3> QED BY <3>3, <3>4
  <2> QED BY <2>3, <2>4 DEF RankInv
<1>7. UsedInv'
  <2>1. PICK q1 \in Procs, s1 \in Structs : Assigned(p, q1, s1)
    BY Assigns
  <2>2. /\ thr' = [thr EXCEPT ![q1] = s1] /\ is_used' = is_used /\ q1 = Head(proclist[p])
        /\ proclist' = [proclist EXCEPT ![p] = Tail(@)]
        /\ proclist[p] \in Seq(Procs) /\ proclist[p] # <<>>
    BY <2>1 DEF Assigned
  <2>3. thr \in [Procs -> Structs \cup {NULL}] /\ proclist \in [Procs -> Seq(Procs)]
    BY DEF IInv, TypeInv
  <2>4. q = q1
    BY <1>1, <2>2, <2>3
  <2>5. proclist'[p] = Tail(proclist[p]) /\ \A r \in Procs \ {p} : proclist'[r] = proclist[r]
    BY <2>2, <2>3
  <2>6. ASSUME NEW r \in Procs, r # q, Listed(r) PROVE Listed(r)'
    <3>1. PICK m \in Procs : r \in Elements(proclist[m])
      BY <2>6 DEF Listed
    <3>2. CASE m = p
      <4>1. r \in Elements(Tail(proclist[p]))
        BY <2>2, <2>4, <2>6, <3>1, <3>2, InRest
      <4> QED BY <2>5, <4>1 DEF Listed
    <3>3. CASE m # p
      BY <2>5, <3>1, <3>3 DEF Listed
    <3> QED BY <3>2, <3>3
  <2>7. UsedInv
    BY DEF SInv
  <2>8. ASSUME NEW r \in Procs, is_used[r]
        PROVE  r = 0 \/ thr'[r] # NULL \/ pc[r] \in {"freethr", "freeproc"} \/ Listed(r)'
    <3>1. CASE r = q
      BY <1>1, <3>1
    <3>2. CASE r # q
      BY <1>2, <2>6, <2>7, <2>8, <3>2 DEF UsedInv
    <3> QED BY <3>1, <3>2
  <2> QED BY <1>2, <2>2, <2>8 DEF UsedInv
<1> QED BY <1>4, <1>5, <1>6, <1>7 DEF SInv

\* Nothing happens.
LEMMA StutterS == ASSUME IInv, SInv, UNCHANGED vars PROVE SInv'
<1>1. UNCHANGED <<thr, frames, parent, num_thds, in_parallel, max_thds, is_used, proclist, pc>>
  BY DEF vars, pool, heap, locals
<1>2. RankInv' /\ \A q \in Procs : SerialInv(q)'
  BY <1>1, CalmS
<1>3. UsedInv'
  BY <1>1, UsedKept DEF SInv
<1> QED BY <1>2, <1>3 DEF SInv

\* Every step of the pool keeps the ranks, the processors in use and the serial regions.
LEMMA NextSInv == IInv /\ TInv /\ SInv /\ [Next]_vars => SInv'
<1> SUFFICES ASSUME IInv, TInv, SInv, [Next]_vars PROVE SInv'
  OBVIOUS
<1>1. CASE Startup
  BY <1>1, StartupS, WaitProcsS DEF Startup
<1>2. ASSUME NEW p \in Procs, Runtime(p) PROVE SInv'
  BY <1>2, SlaveS, MasterS, FreeProcS, GetProcS, InitParentS, AssignS, AllocMasterS, JoinS DEF Runtime
<1>3. ASSUME NEW p \in Procs, SpuriousWake(p) \/ Finish(p) \/ Return(p) PROVE SInv'
  BY <1>3, SlaveS, FinishS, MasterS
<1>4. ASSUME NEW p \in Procs, NEW cond \in {0, 1}, NEW nthds \in 1 .. N, DoParallel(p, cond, nthds)
      PROVE  SInv'
  BY <1>4, DoParallelS
<1>5. CASE UNCHANGED vars
  BY <1>5, StutterS
<1> QED BY <1>1, <1>2, <1>3, <1>4, <1>5 DEF Next

\* All three layers hold throughout.
LEMMA SerialInvariance == Spec => [](IInv /\ TInv /\ SInv)
BY TeamInvariance, InitSInv, NextSInv, PTL DEF Spec

----------------------------------------------------------------------------
(* The processors outside the team of the initial thread.                   *)

Order == INSTANCE WellFoundedInduction

\* A set of natural numbers that is not empty has a least element.
LEMMA Least ==
  ASSUME NEW D \in SUBSET Nat, D # {}
  PROVE  \E x \in D : \A y \in D : ~(y < x)
<1>1. PICK R : R = Order!OpToRel(<, Nat)
  OBVIOUS
<1>2. Order!IsWellFoundedOn(R, Nat)
  BY <1>1, Order!NatLessThanWellFounded
<1>3. PICK x \in D : \A y \in D : <<y, x>> \notin R
  BY <1>2, Order!WFMin
<1>4. \A y \in D : y < x => <<y, x>> \in R
  BY <1>1, SMTT(20) DEF Order!OpToRel
<1> QED BY <1>3, <1>4

\* The region of a slave has a master that is a slave too, when every region of the
\* initial thread has one thread.
LEMMA MasterOfSlave ==
  ASSUME IInv, TInv, \A k \in 1 .. Len(frames[0]) : num_thds[Cthd(0, k)] = 1,
         NEW q \in Procs, NEW r \in Roles, On(q, r)
  PROVE  \E m \in Procs : Masters(m, Team(q, r)) /\ On(m, "job")
<1>1. PICK c : c = Team(q, r)
  OBVIOUS
<1>2. PICK n : n = Nr(q, r)
  OBVIOUS
<1>3. Open(c, n) /\ n \in 1 .. num_thds[c] - 1
  BY <1>1, <1>2 DEF TInv, MemberInv, Valid
<1>4. num_thds[c] # 1
  BY <1>3, SMTT(20)
<1>5. PICK m \in Procs : \E k \in 1 .. Len(frames[m]) : Cthd(m, k) = c
  BY <1>3 DEF Open
<1>6. PICK k \in 1 .. Len(frames[m]) : Cthd(m, k) = c
  BY <1>5
<1>7. m # 0
  BY <1>4, <1>6
<1>8. thr[m] # NULL
  BY <1>6, MasterRuns
<1> QED BY <1>1, <1>6, <1>7, <1>8 DEF Masters, On

\* Nobody is in a team when every region of the initial thread has one thread.
LEMMA NoTeam ==
  ASSUME IInv, TInv, SInv, \A k \in 1 .. Len(frames[0]) : num_thds[Cthd(0, k)] = 1, NEW q \in Procs
  PROVE  ~On(q, "job") /\ ~On(q, "debt")
<1>1. PICK d \in [Procs -> Nat] : \A a, b \in Procs :
        On(b, "job") /\ Masters(a, Team(b, "job")) => d[a] < d[b]
  BY DEF SInv, RankInv
<1>2. ASSUME NEW b \in Procs, On(b, "job") PROVE FALSE
  <2>1. PICK D : D = {d[a] : a \in {m \in Procs : On(m, "job")}}
    OBVIOUS
  <2>2. /\ \A a \in Procs : On(a, "job") => d[a] \in D
        /\ \A x \in D : \E a \in Procs : x = d[a] /\ On(a, "job")
    BY <2>1
  <2>3. D \in SUBSET Nat /\ D # {}
    BY <1>1, <1>2, <2>2
  <2>4. PICK x \in D : \A y \in D : ~(y < x)
    BY <2>3, Least
  <2>5. PICK a \in Procs : x = d[a] /\ On(a, "job")
    BY <2>2, <2>4
  <2>6. PICK m \in Procs : Masters(m, Team(a, "job")) /\ On(m, "job")
    BY <2>5, MasterOfSlave DEF Roles
  <2>7. d[m] < x /\ d[m] \in D
    BY <1>1, <2>2, <2>5, <2>6
  <2> QED BY <2>4, <2>7
<1>3. ~On(q, "debt")
  BY <1>2, MasterOfSlave DEF Roles
<1> QED BY <1>2, <1>3

\* When the serial program executes outside parallel regions, the pool is whole again:
\* every slave is free and every thread structure but the initial thread's is on the
\* free list of its processor.
THEOREM PoolIsRestored == Spec => []PoolRestored
<1>1. IInv /\ TInv /\ SInv => PoolRestored
  <2> SUFFICES ASSUME IInv, TInv, SInv, pc[0] = "body", frames[0] = <<>>, NEW p \in Procs
               PROVE  /\ is_used[p] = (p = 0)
                      /\ Len(free_thr[p]) = mallocs[p] - (IF p = 0 THEN 1 ELSE 0)
    BY DEF PoolRestored
  <2>1. \A k : k \notin 1 .. Len(frames[0])
    BY SMTT(20)
  <2>2. ASSUME NEW q \in Procs PROVE ~On(q, "job") /\ ~On(q, "debt")
    BY <2>1, NoTeam
  <2>3. \A q \in Procs : /\ q # 0 => thr[q] = NULL
                         /\ pc[q] # "freethr" /\ pc[q] # "freeproc"
    BY <2>2 DEF On, Leaving
  <2>4. PlaceInv(p) /\ CountInv(p) /\ is_used \in [Procs -> BOOLEAN]
        /\ free_thr \in [Procs -> Seq(Structs)] /\ mallocs \in [Procs -> 0 .. MaxDepth+1]
    BY DEF IInv, ProcInv, TypeInv
  <2>5. ASSUME NEW m \in Procs PROVE proclist[m] = <<>>
    <3>1. PlaceInv(m) /\ ListInv(m)
      BY DEF IInv, ProcInv
    <3>2. m # 0 => pc[m] \notin Forking
      BY <2>3, <3>1 DEF PlaceInv
    <3>3. pc[m] \notin {"getproc", "assign"}
      BY <3>2 DEF Forking
    <3> QED BY <3>1, <3>3 DEF ListInv
  <2>6. ~Listed(p)
    <3>1. \A x : x \notin Elements(<<>>)
      BY SMTT(20) DEF Elements
    <3> QED BY <2>5, <3>1 DEF Listed
  <2>7. CASE p = 0
    <3>1. thr[p] # NULL /\ is_used[p]
      BY <2>4, <2>7 DEF PlaceInv, Waiting, Forking
    <3>2. InUse(p) = Len(<<>>) + 1
      BY <2>7, <3>1 DEF InUse, Forking
    <3>3. Len(free_thr[p]) = mallocs[p] - 1
      <4>1. mallocs[p] = Len(free_thr[p]) + InUse(p) /\ Len(free_thr[p]) \in Nat
        BY <2>4, LenIs DEF CountInv
      <4> QED BY <3>2, <4>1, SMTT(20)
    <3> QED BY <2>4, <2>7, <3>1, <3>3
  <2>8. CASE p # 0
    <3>1. ~is_used[p]
      BY <2>3, <2>6, <2>8 DEF SInv, UsedInv
    <3>2. InUse(p) = 0
      BY <2>3, <2>8 DEF InUse
    <3>3. Len(free_thr[p]) = mallocs[p] - 0
      <4>1. mallocs[p] = Len(free_thr[p]) + InUse(p) /\ Len(free_thr[p]) \in Nat
        BY <2>4, LenIs DEF CountInv
      <4> QED BY <3>2, <4>1, SMTT(20)
    <3> QED BY <2>4, <2>8, <3>1, <3>3
  <2> QED BY <2>7, <2>8
<1> QED BY <1>1, SerialInvariance, PTL

\* omp_in_parallel() returns 0 only to the initial thread, and only while no other
\* processor executes a region.
THEOREM SerialIsAlone == Spec => []SerialMeansAlone
<1>1. IInv /\ TInv /\ SInv => SerialMeansAlone
  <2> SUFFICES ASSUME IInv, TInv, SInv, NEW p \in Procs, NEW q \in Procs, pc[p] = "body",
                      in_parallel[thr[p]] = 0, q # p
               PROVE  ~Running(q)
    BY DEF SerialMeansAlone
  <2>1. PlaceInv(p) /\ PlaceInv(q) /\ TypeInv /\ SerialInv(p) /\ thr[p] # NULL
    BY NullApart DEF IInv, ProcInv, SInv
  <2>2. in_parallel[Base(p)] = 0 /\ \A k \in 1 .. Len(frames[p]) : Inp(p, k) = 0
    BY <2>1, SerialOut
  <2>3. 0 # 1
    BY SMTT(20)
  <2>4. p = 0
    BY <2>1, <2>2, <2>3 DEF SerialInv, InpJob, On
  <2>5. ASSUME NEW k \in 1 .. Len(frames[0]) PROVE num_thds[Cthd(0, k)] = 1
    <3>1. Alone(p, k)
      BY <2>1, <2>2, <2>4 DEF SerialInv, InpAlone
    <3> QED BY <2>4, <3>1 DEF Alone
  <2>6. ~On(q, "job")
    BY <2>5, NoTeam
  <2>7. thr[q] = NULL
    BY <2>4, <2>6 DEF On
  <2> QED BY <2>1, <2>7 DEF PlaceInv, Running, Forking
<1> QED BY <1>1, SerialInvariance, PTL
=============================================================================
