------------------------- MODULE DataStructureProofs -------------------------
(***************************************************************************)
(* Proofs about the two data structures whose links are changed in place:  *)
(*                                                                         *)
(* Timer, the multimap of a reactor's events, for every set of events,     *)
(* every interval and every bound on the clock;                            *)
(*                                                                         *)
(* XmlNodes, the nodes of a document, for every number of nodes, every set *)
(* of leaves and attributes and every document loaded.  The pointers are   *)
(* related to the lists of children of a tree: a tree of lists stays one   *)
(* when branches are grafted, cut and copied, each operation changes the   *)
(* pointers as the lists change, and whatever walks find follows from the  *)
(* lists.                                                                  *)
(***************************************************************************)
EXTENDS Timer, XmlNodes, FiniteSetTheorems, SequenceTheorems, WellFoundedInduction, TLAPS

-----------------------------------------------------------------------------
(* Timer                                                                   *)

\* onTimer compares with a time that has come, and keeps repeated events only for
\* the loop that adds them again.
LoopInv ==
  /\ now <= clock
  /\ again \subseteq Repeated
  /\ loop_pc # "readd" => again = {}

\* An event nobody has added is nowhere.
FreshInv ==
  \A e \in Event : owner_pc[e] = "new" => e \notin pending \cup fired \cup again /\ runs[e] = 0

\* A one-shot event is in one place, and was due when it left the map.
OnceInv ==
  \A e \in Event \ Repeated :
    /\ e \in pending => e \notin fired /\ runs[e] = 0
    /\ e \in fired => runs[e] = 0 /\ arrive[e] <= clock
    /\ runs[e] > 0 => runs[e] = 1 /\ arrive[e] <= clock

DeleteInv == \A e \in Event : owner_pc[e] = "erase" => e \in Deleted

IInv == TypeOK /\ LoopInv /\ FreshInv /\ OnceInv /\ NeverDisarmed /\ DeleteInv

-----------------------------------------------------------------------------
LEMMA InitIInv == Init => IInv
  <1> SUFFICES ASSUME Init PROVE IInv
    OBVIOUS
  <1>1. TypeOK
    BY DEF Init, TypeOK, LoopPc, OwnerPc
  <1>2. QED
    BY <1>1 DEF Init, IInv, LoopInv, FreshInv, OnceInv, NeverDisarmed, DeleteInv

\* The two steps of resetArriveTime, whoever calls it.
LEMMA ArmType ==
  ASSUME TypeOK, NEW x \in Caller
  PROVE  Armed(x) \in Nat \cup {Off} /\ (Armed(x) # Off \/ head[x] <= clock)
  BY TimerAssumption DEF TypeOK, Armed

LEMMA LoopKeepsIInv ==
  ASSUME IInv, LoopStep
  PROVE  IInv'
  <1> USE TimerAssumption DEF IInv, LoopInv, FreshInv, OnceInv, NeverDisarmed, DeleteInv
  <1>1. CASE Report
    BY <1>1 DEF Report, TypeOK, LoopPc, eventVars
  <1>2. CASE Read
    BY <1>2 DEF Read, TypeOK, LoopPc, eventVars
  <1>3. CASE Collect
    BY <1>3 DEF Collect, Due, Remaining, Repeats, TypeOK, LoopPc
  <1>4. CASE LoopCopy
    BY <1>4 DEF LoopCopy, CopyHead, NothingToCopy, Earliest, TypeOK, LoopPc, eventVars,
       Caller, Loop
  <1>5. CASE LoopArm
    <2>1. Loop \in Caller
      BY DEF Caller
    <2>2. Armed(Loop) \in Nat \cup {Off} /\ (Armed(Loop) # Off \/ head[Loop] <= clock)
      BY <2>1, ArmType
    <2>3. (late \/ head[Loop] <= clock) \in BOOLEAN
      BY DEF TypeOK
    <2>4. QED
      BY <1>5, <2>2, <2>3 DEF LoopArm, Arm, TypeOK, LoopPc, eventVars
  <1>6. CASE TasksDone
    BY <1>6 DEF TasksDone, TypeOK, LoopPc, eventVars
  <1>7. ASSUME NEW e \in Event, Readd(e) PROVE IInv'
    <2>1. e \in Repeated
      BY <1>7 DEF Readd
    <2>2. TypeOK'
      <3>1. clock + Interval[e] \in Nat
        BY DEF TypeOK
      <3>2. QED
        BY <1>7, <3>1 DEF Readd, TypeOK
    <2>3. LoopInv' /\ NeverDisarmed'
      BY <1>7 DEF Readd
    <2>4. FreshInv'
      BY <1>7, <2>1 DEF Readd, TypeOK
    <2>5. OnceInv' /\ DeleteInv'
      BY <1>7, <2>1 DEF Readd, TypeOK
    <2>6. QED BY <2>2, <2>3, <2>4, <2>5
  <1>8. ASSUME NEW e \in Event, RunTask(e) PROVE IInv'
    <2>1. TypeOK'
      BY <1>8 DEF RunTask, TypeOK, eventVars
    <2>2. LoopInv' /\ NeverDisarmed' /\ DeleteInv'
      BY <1>8 DEF RunTask, eventVars
    <2>3. FreshInv'
      BY <1>8 DEF RunTask, TypeOK, eventVars
    <2>4. OnceInv'
      BY <1>8 DEF RunTask, TypeOK, eventVars
    <2>5. QED BY <2>1, <2>2, <2>3, <2>4
  <1>9. QED
    BY <1>1, <1>2, <1>3, <1>4, <1>5, <1>6, <1>7, <1>8 DEF LoopStep

LEMMA OwnerKeepsIInv ==
  ASSUME IInv, NEW e \in Event, Add(e) \/ Reset(e) \/ Cancel(e) \/ Erase(e)
  PROVE  IInv'
  <1> USE TimerAssumption DEF IInv, LoopInv, FreshInv, OnceInv, NeverDisarmed, DeleteInv
  <1>1. CASE Add(e)
    BY <1>1 DEF Add, IsReset, TypeOK, OwnerPc, loopVars
  <1>2. CASE OwnerCopy(e)
    BY <1>2 DEF OwnerCopy, CopyHead, NothingToCopy, Earliest, TypeOK, OwnerPc,
       eventVars, Caller
  <1>3. CASE OwnerArm(e)
    <2>1. Armed(e) \in Nat \cup {Off} /\ (Armed(e) # Off \/ head[e] <= clock)
      BY ArmType DEF Caller
    <2>2. (late \/ head[e] <= clock) \in BOOLEAN
      BY DEF TypeOK
    <2>3. QED
      BY <1>3, <2>1, <2>2 DEF OwnerArm, Arm, TypeOK, OwnerPc, eventVars
  <1>4. CASE Cancel(e)
    BY <1>4 DEF Cancel, TypeOK, OwnerPc, loopVars
  <1>5. CASE Erase(e)
    BY <1>5 DEF Erase, Earliest, Later, TypeOK, OwnerPc, loopVars
  <1>6. QED
    BY <1>1, <1>2, <1>3, <1>4, <1>5 DEF Reset

LEMMA NextIInv == IInv /\ [Next]_vars => IInv'
  <1> SUFFICES ASSUME IInv, [Next]_vars PROVE IInv'
    OBVIOUS
  <1>1. CASE Tick
    BY <1>1 DEF Tick, IInv, TypeOK, LoopInv, FreshInv, OnceInv, NeverDisarmed, DeleteInv,
                eventVars, loopVars
  <1>2. CASE UNCHANGED vars
    BY <1>2 DEF vars, IInv, TypeOK, LoopInv, FreshInv, OnceInv, NeverDisarmed, DeleteInv,
                eventVars, loopVars
  <1>3. QED
    BY <1>1, <1>2, LoopKeepsIInv, OwnerKeepsIInv DEF Next

LEMMA SpecIInv == Spec => []IInv
  BY InitIInv, NextIInv, PTL DEF Spec

\* The timerfd is armed, or is being armed, while events are pending and no reset
\* came too late: onTimer and addTimerEvent lose no wakeup between the release of
\* m_event_mutex and timerfd_settime, on however many threads events are added.
THEOREM SpecNeverDisarmed == Spec => []NeverDisarmed
  BY SpecIInv, PTL DEF IInv

\* A one-shot task runs once at most, not before its time, and its event is gone.
THEOREM SpecOneShot == Spec => []OneShot
  <1>1. IInv => OneShot
    BY DEF IInv, TypeOK, OnceInv, OneShot
  <1>2. QED
    BY <1>1, SpecIInv, PTL

-----------------------------------------------------------------------------
\* No owner deletes a repeated event.  In the program only the destructor of the
\* time wheel would, when the process ends.
RepeatedKept == Repeated \cap Deleted = {}

LEMMA NextRepeatedStays ==
  ASSUME RepeatedKept, IInv, RepeatedStays, [Next]_vars
  PROVE  RepeatedStays'
  <1> USE TimerAssumption DEF RepeatedStays
  <1>1. CASE LoopStep
    <2>1. CASE Collect
      BY <1>1, <2>1 DEF Collect, Remaining, Repeats, IInv, LoopInv
    <2>2. ASSUME NEW e \in Event, Readd(e) PROVE RepeatedStays'
      BY <2>2 DEF Readd
    <2>3. ASSUME NEW e \in Event, RunTask(e) PROVE RepeatedStays'
      BY <2>3 DEF RunTask, eventVars
    <2>4. CASE Report \/ Read \/ LoopCopy \/ LoopArm \/ TasksDone
      BY <2>4 DEF Report, Read, LoopCopy, CopyHead, NothingToCopy, LoopArm, Arm,
         TasksDone, eventVars
    <2>5. QED BY <1>1, <2>1, <2>2, <2>3, <2>4 DEF LoopStep
  <1>2. ASSUME NEW e \in Event, Add(e) \/ Reset(e) \/ Cancel(e) \/ Erase(e)
        PROVE  RepeatedStays'
    <2>1. CASE Add(e)
      BY <2>1 DEF Add, IInv, TypeOK, loopVars
    <2>2. CASE Reset(e)
      BY <2>2 DEF Reset, OwnerCopy, OwnerArm, CopyHead, NothingToCopy, Arm, IInv,
         TypeOK, eventVars
    <2>3. CASE Cancel(e)
      BY <2>3 DEF Cancel, IInv, TypeOK, loopVars
    <2>4. CASE Erase(e)
      <3>1. e \notin Repeated
        BY <2>4 DEF Erase, RepeatedKept, IInv, DeleteInv
      <3>2. QED
        BY <2>4, <3>1 DEF Erase, Earliest, Later, IInv, TypeOK, loopVars
    <2>5. QED BY <1>2, <2>1, <2>2, <2>3, <2>4
  <1>3. CASE Tick \/ UNCHANGED vars
    BY <1>3 DEF Tick, vars, eventVars, loopVars
  <1>4. QED
    BY <1>1, <1>2, <1>3 DEF Next

\* A repeated event is never lost by the races of onTimer with additions and
\* deletions, other than by the delTimerEvent that erases the wrong event.
THEOREM SpecRepeatedStays == RepeatedKept /\ Spec => []RepeatedStays
  <1> DEFINE Kept == RepeatedKept /\ RepeatedStays
  <1>1. RepeatedKept /\ Init => Kept
    BY TimerAssumption DEF Init, RepeatedStays
  <1>2. IInv /\ Kept /\ [Next]_vars => Kept'
    <2> SUFFICES ASSUME IInv, Kept, [Next]_vars PROVE RepeatedKept' /\ RepeatedStays'
      OBVIOUS
    <2>1. RepeatedStays'
      BY NextRepeatedStays
    <2>2. RepeatedKept'
      BY DEF RepeatedKept
    <2>3. QED BY <2>1, <2>2
  <1>3. Kept => RepeatedStays
    OBVIOUS
  <1> HIDE DEF Kept
  <1>4. QED
    BY <1>1, <1>2, <1>3, SpecIInv, PTL DEF Spec

-----------------------------------------------------------------------------
(* Numbers and lists                                                       *)

Smaller == OpToRel(<, Nat)

\* A set of numbers has a least one.
LEMMA LeastNat ==
  ASSUME NEW T \in SUBSET Nat, T # {}
  PROVE  \E n \in T : \A m \in T : n <= m
<1>1. IsWellFoundedOn(Smaller, Nat)
  BY NatLessThanWellFounded DEF Smaller
<1>2. \A m, n \in Nat : <<m, n>> \in Smaller <=> m < n
  BY DEF Smaller, OpToRel
<1>3. PICK n \in T : \A m \in T : ~(<<m, n>> \in Smaller)
  BY <1>1, WFMin
<1>4. \A m \in T : m \in Nat /\ n \in Nat /\ ~(m < n)
  BY <1>2, <1>3
<1>5. QED
  BY <1>3, <1>4

\* Induction over the numbers, for a set of them.
LEMMA Induct ==
  ASSUME NEW T \in SUBSET Nat, 0 \in T, \A n \in T : n + 1 \in T
  PROVE  T = Nat
<1> SUFFICES ASSUME T # Nat PROVE FALSE
  OBVIOUS
<1>1. PICK n \in Nat \ T : \A m \in Nat \ T : n <= m
  BY LeastNat
<1>2. n # 0 /\ n - 1 \in Nat
  BY <1>1
<1>3. n - 1 \in T
  BY <1>1, <1>2
<1>4. QED
  BY <1>1, <1>3

\* The least and the greatest index of a set of them.
LEMMA MinMax ==
  ASSUME NEW n \in Nat, NEW T \in SUBSET (1..n), T # {}
  PROVE  /\ Min(T) \in T /\ \A i \in T : Min(T) <= i
         /\ Max(T) \in T /\ \A i \in T : Max(T) >= i
<1>1. PICK i \in T : \A j \in T : i <= j
  BY LeastNat
<1>2. Min(T) \in T /\ \A j \in T : Min(T) <= j
  BY <1>1 DEF Min
<1> DEFINE U == {n - j : j \in T}
<1>3. U \in SUBSET Nat /\ U # {}
  OBVIOUS
<1>4. PICK u \in U : \A v \in U : u <= v
  BY <1>3, LeastNat
<1>5. PICK j \in T : u = n - j
  BY <1>4
<1>6. ASSUME NEW k \in T PROVE j >= k
  <2>1. n - k \in U /\ j \in Nat /\ k \in Nat
    OBVIOUS
  <2>2. u <= n - k
    BY <1>4, <2>1
  <2>3. QED
    BY <1>5, <2>1, <2>2
<1>7. Max(T) \in T /\ \A k \in T : Max(T) >= k
  BY <1>5, <1>6 DEF Max
<1>8. QED
  BY <1>2, <1>7

\* A list of different nodes is no longer than there are nodes.
LEMMA ShortList ==
  ASSUME NEW n \in Nat, NEW q \in [1..n -> Node], \A i, j \in 1..n : q[i] = q[j] => i = j
  PROVE  n <= MaxNodes
<1>1. /\ IsFiniteSet(1..n) /\ Cardinality(1..n) = n
      /\ IsFiniteSet(Node) /\ Cardinality(Node) = MaxNodes
  BY FS_Interval, NodesAssumption DEF Node
<1>2. SUFFICES ASSUME n > MaxNodes PROVE FALSE
  BY NodesAssumption
<1>3. \E x, y \in 1..n : x # y /\ q[x] = q[y]
  BY <1>1, <1>2, FS_PigeonHole
<1>4. QED
  BY <1>3

-----------------------------------------------------------------------------
(* Walking                                                                 *)

\* f is x at first, and then what F makes of its value one before.
Iterates(f, k, x, F) == \A i \in 0..k : f[i] = IF i = 0 THEN x ELSE F[f[i - 1]]

\* There is such a function.
LEMMA IterateExists ==
  ASSUME NEW X, NEW x \in X, NEW F \in [X -> X]
  PROVE  \A k \in Nat : \E f \in [0..k -> X] : Iterates(f, k, x, F)
<1> DEFINE Good(f, k) == \A i \in 0..k : f[i] = IF i = 0 THEN x ELSE F[f[i - 1]]
           T == {k \in Nat : \E f \in [0..k -> X] : Good(f, k)}
<1>1. 0 \in T
  <2>1. Good([i \in 0..0 |-> x], 0) /\ [i \in 0..0 |-> x] \in [0..0 -> X]
    OBVIOUS
  <2>2. QED
    BY <2>1
<1>2. ASSUME NEW k \in T PROVE k + 1 \in T
  <2>1. PICK f \in [0..k -> X] : Good(f, k)
    BY <1>2
  <2> DEFINE g == [i \in 0..(k + 1) |-> IF i <= k THEN f[i] ELSE F[f[k]]]
  <2>2. k \in Nat /\ \A i \in 0..(k + 1) : i <= k \/ i = k + 1
    BY <1>2
  <2>3. g \in [0..(k + 1) -> X]
    BY <2>2
  <2>4. ASSUME NEW i \in 0..(k + 1) PROVE g[i] = IF i = 0 THEN x ELSE F[g[i - 1]]
    <3>1. CASE i = 0
      BY <2>1, <2>2, <3>1
    <3>2. CASE i # 0 /\ i <= k
      <4>1. i \in 0..k /\ i - 1 \in 0..k /\ i - 1 <= k /\ i - 1 \in 0..(k + 1)
        BY <2>2, <3>2
      <4>2. g[i] = f[i] /\ g[i - 1] = f[i - 1]
        BY <3>2, <4>1
      <4>3. f[i] = F[f[i - 1]]
        BY <2>1, <3>2, <4>1
      <4>4. QED
        BY <3>2, <4>2, <4>3
    <3>3. CASE i = k + 1
      <4>1. i # 0 /\ i - 1 = k /\ k \in 0..(k + 1) /\ ~(i <= k) /\ k <= k
        BY <2>2, <3>3
      <4>2. g[i] = F[f[k]] /\ g[i - 1] = f[k]
        BY <4>1
      <4>3. QED
        BY <4>1, <4>2
    <3>4. QED
      BY <2>2, <3>1, <3>2, <3>3
  <2>5. Good(g, k + 1)
    BY <2>4
  <2>6. k + 1 \in Nat /\ \E e \in [0..(k + 1) -> X] : Good(e, k + 1)
    <3> HIDE DEF Good, g
    <3>1. QED
      BY <2>2, <2>3, <2>5
  <2>7. QED
    BY <2>6
<1>3. T = Nat
  <2>1. T \in SUBSET Nat
    OBVIOUS
  <2> HIDE DEF T
  <2>2. QED
    BY <1>1, <1>2, <2>1, Induct
<1>4. QED
  BY <1>3 DEF Iterates

\* A list is one that link leads along to its end.
Chain(link, q) ==
  /\ q \in Seq(DOMAIN link)
  /\ \A i \in 1..Len(q) : link[q[i]] = Entry(q, i + 1)

\* What is left of a list is its next entry and what is left of it then.
LEMMA RestOf ==
  ASSUME NEW S, NEW q \in Seq(S), NEW i \in 1..Len(q)
  PROVE  SubSeq(q, i, Len(q)) = <<q[i]>> \o SubSeq(q, i + 1, Len(q))
<1>1. Len(q) \in Nat /\ \A j \in 1..Len(q) : q[j] \in S
  OBVIOUS
<1>2. QED
  BY <1>1, SubSeqRecursiveFirst

\* A walk meets the entries of a list from the one it begins at.
LEMMA WalkIs ==
  ASSUME NEW link, NULL \notin DOMAIN link, link \in [DOMAIN link -> DOMAIN link \cup {NULL}],
         NEW q, Chain(link, q), Len(q) <= MaxNodes, NEW i \in 1..(Len(q) + 1)
  PROVE  Walk(link, Entry(q, i)) = SubSeq(q, i, Len(q))
<1> DEFINE D    == DOMAIN link
           M    == MaxNodes + 1
           X    == [D \cup {NULL} -> Seq(D)]
           x0   == [n \in D \cup {NULL} |-> <<>>]
           F    == [g \in X |-> [n \in D \cup {NULL} |->
                                   IF n = NULL THEN <<>> ELSE <<n>> \o g[link[n]]]]
           P(f) == f = [k \in 0..M |-> [n \in D \cup {NULL} |->
                          IF n = NULL \/ k = 0 THEN <<>> ELSE <<n>> \o f[k - 1][link[n]]]]
           from == CHOOSE f : P(f)
<1>1. M \in Nat
  BY NodesAssumption
<1>2. x0 \in X
  OBVIOUS
<1>3. F \in [X -> X]
  <2>1. ASSUME NEW g \in X PROVE [n \in D \cup {NULL} |->
                                   IF n = NULL THEN <<>> ELSE <<n>> \o g[link[n]]] \in X
    <3>1. ASSUME NEW n \in D PROVE <<n>> \o g[link[n]] \in Seq(D)
      <4>1. link[n] \in D \cup {NULL} /\ <<n>> \in Seq(D)
        OBVIOUS
      <4>2. g[link[n]] \in Seq(D)
        BY <4>1
      <4>3. QED
        BY <4>1, <4>2
    <3>2. ASSUME NEW n \in D \cup {NULL}
          PROVE  (IF n = NULL THEN <<>> ELSE <<n>> \o g[link[n]]) \in Seq(D)
      <4>1. CASE n = NULL
        BY <4>1
      <4>2. CASE n # NULL
        BY <3>1, <4>2
      <4>3. QED
        BY <4>1, <4>2
    <3> DEFINE Value(n) == IF n = NULL THEN <<>> ELSE <<n>> \o g[link[n]]
    <3>3. \A n \in D \cup {NULL} : Value(n) \in Seq(D)
      BY <3>2
    <3>4. [n \in D \cup {NULL} |-> Value(n)] \in X
      <4> HIDE DEF Value, D
      <4>1. QED
        BY <3>3
    <3>5. QED
      BY <3>4
  <2>2. QED
    <3> HIDE DEF X, D
    <3>1. QED
      BY <2>1
<1>4. PICK f \in [0..M -> X] : \A k \in 0..M : f[k] = IF k = 0 THEN x0 ELSE F[f[k - 1]]
  <2> HIDE DEF X, x0, F, M
  <2>1. QED
    BY <1>1, <1>2, <1>3, IterateExists DEF Iterates
<1>5. P(f)
  <2>1. f = [k \in 0..M |-> f[k]]
    BY <1>4
  <2>2. ASSUME NEW k \in 0..M
        PROVE  f[k] = [n \in D \cup {NULL} |->
                          IF n = NULL \/ k = 0 THEN <<>> ELSE <<n>> \o f[k - 1][link[n]]]
    <3>1. CASE k = 0
      BY <1>4, <3>1
    <3>2. CASE k # 0
      <4>1. k - 1 \in 0..M
        BY <1>1, <3>2
      <4>2. f[k - 1] \in X
        BY <1>4, <4>1
      <4>3. f[k] = F[f[k - 1]]
        BY <1>4, <3>2
      <4>4. F[f[k - 1]] = [n \in D \cup {NULL} |->
                             IF n = NULL THEN <<>> ELSE <<n>> \o f[k - 1][link[n]]]
        BY <4>2
      <4>5. QED
        BY <3>2, <4>3, <4>4
    <3>3. QED
      BY <3>1, <3>2
  <2> HIDE DEF M
  <2>3. QED
    BY <2>1, <2>2
<1>6. P(from)
  <2> HIDE DEF P
  <2>1. QED
    BY <1>5
<1>7. \A k \in 0..M : \A n \in D \cup {NULL} :
        from[k][n] = IF n = NULL \/ k = 0 THEN <<>> ELSE <<n>> \o from[k - 1][link[n]]
  <2> HIDE DEF M, from, D
  <2>1. ASSUME NEW k \in 0..M, NEW n \in D \cup {NULL}
        PROVE  from[k][n] = IF n = NULL \/ k = 0 THEN <<>> ELSE <<n>> \o from[k - 1][link[n]]
    <3>1. from[k] = [m \in D \cup {NULL} |->
                       IF m = NULL \/ k = 0 THEN <<>> ELSE <<m>> \o from[k - 1][link[m]]]
      BY <1>6
    <3>2. QED
      BY <3>1
  <2>2. QED
    BY <2>1
<1>8. \A m : Walk(link, m) = from[M][m]
  BY Zenon DEF Walk
<1> HIDE DEF from, P, X, x0, F
<1>9. Len(q) \in Nat /\ q \in Seq(D) /\ \A j \in 1..Len(q) : q[j] \in D
  BY DEF Chain
\* With enough steps.
<1> DEFINE T == {k \in Nat : k <= M => \A j \in 1..(Len(q) + 1) : Len(q) + 1 - j <= k =>
                    from[k][Entry(q, j)] = SubSeq(q, j, Len(q))}
<1>10. \A k \in 0..M : from[k][Entry(q, Len(q) + 1)] = SubSeq(q, Len(q) + 1, Len(q))
  <2>1. Entry(q, Len(q) + 1) = NULL
    BY <1>9 DEF Entry
  <2>2. SubSeq(q, Len(q) + 1, Len(q)) = <<>>
    BY <1>9
  <2>3. QED
    BY <1>7, <2>1, <2>2
<1>11. 0 \in T
  <2>1. \A j \in 1..(Len(q) + 1) : Len(q) + 1 - j <= 0 => j = Len(q) + 1
    BY <1>9
  <2>2. 0 \in 0..M
    BY <1>1
  <2>3. \A j \in 1..(Len(q) + 1) : Len(q) + 1 - j <= 0 =>
           from[0][Entry(q, j)] = SubSeq(q, j, Len(q))
    <3> HIDE DEF D, M
    <3>1. from[0][Entry(q, Len(q) + 1)] = SubSeq(q, Len(q) + 1, Len(q))
      BY <1>10, <2>2
    <3>2. QED
      BY <2>1, <3>1
  <2>4. QED
    <3> HIDE DEF D, M
    <3>1. QED
      BY <2>3
<1>12. ASSUME NEW k \in T PROVE k + 1 \in T
  <2>1. SUFFICES ASSUME k + 1 <= M, NEW j \in 1..(Len(q) + 1), Len(q) + 1 - j <= k + 1
                 PROVE  from[k + 1][Entry(q, j)] = SubSeq(q, j, Len(q))
    BY <1>12
  <2>2. k \in Nat /\ k + 1 \in 0..M /\ k \in 0..M
    BY <1>1, <1>12, <2>1
  <2>3. CASE j = Len(q) + 1
    BY <1>10, <2>2, <2>3
  <2>4. CASE j \in 1..Len(q)
    <3>1. /\ j + 1 \in 1..(Len(q) + 1) /\ Len(q) + 1 - (j + 1) <= k
          /\ k + 1 # 0 /\ k + 1 - 1 = k
      BY <1>9, <2>1, <2>2, <2>4
    <3>2. from[k][Entry(q, j + 1)] = SubSeq(q, j + 1, Len(q))
      BY <1>12, <2>1, <2>2, <3>1
    <3>3. Entry(q, j) = q[j] /\ q[j] \in D /\ q[j] # NULL /\ link[q[j]] = Entry(q, j + 1)
      BY <1>9, <2>4 DEF Entry, Chain
    <3>4. from[k + 1][q[j]] = <<q[j]>> \o from[k][link[q[j]]]
      <4> HIDE DEF D, M, T
      <4>1. q[j] \in D \cup {NULL}
        BY <3>3
      <4>2. from[k + 1][q[j]] = IF q[j] = NULL \/ k + 1 = 0 THEN <<>>
                                ELSE <<q[j]>> \o from[k + 1 - 1][link[q[j]]]
        BY <1>7, <2>2, <4>1
      <4>3. QED
        BY <3>1, <3>3, <4>2
    <3>5. SubSeq(q, j, Len(q)) = <<q[j]>> \o SubSeq(q, j + 1, Len(q))
      BY <1>9, <2>4, RestOf
    <3>6. QED
      BY <3>2, <3>3, <3>4, <3>5
  <2>5. QED
    BY <1>9, <2>3, <2>4
<1>13. T = Nat
  <2>1. T \in SUBSET Nat
    OBVIOUS
  <2> HIDE DEF T
  <2>2. QED
    BY <1>11, <1>12, <2>1, Induct
<1>14. M \in T /\ M <= M /\ Len(q) + 1 - i <= M
  BY <1>1, <1>9, <1>13, NodesAssumption
<1>15. from[M][Entry(q, i)] = SubSeq(q, i, Len(q))
  BY <1>14
<1>16. QED
  BY <1>8, <1>15

-----------------------------------------------------------------------------
(* Trees                                                                   *)

Closed(kids, S) == \A p \in S : Range(kids[p]) \subseteq S

\* A node and all below it.
Under(kids, n) ==
  {m \in DOMAIN kids : \A S \in SUBSET DOMAIN kids : n \in S /\ Closed(kids, S) => m \in S}

\* What is in a list of a tree.
LEMMA TreeFacts ==
  ASSUME NEW kids, NEW root, IsTree(kids, root)
  PROVE  /\ root \in DOMAIN kids /\ DOMAIN kids \subseteq Node
         /\ \A p \in DOMAIN kids :
              /\ Len(kids[p]) \in Nat /\ DOMAIN kids[p] = 1..Len(kids[p])
              /\ kids[p] = [i \in 1..Len(kids[p]) |-> kids[p][i]]
              /\ Range(kids[p]) \subseteq DOMAIN kids \ {root}
              /\ \A i \in 1..Len(kids[p]) : /\ kids[p][i] \in DOMAIN kids /\ kids[p][i] # root
                                            /\ kids[p][i] \in Range(kids[p])
              /\ \A c \in Range(kids[p]) : \E i \in 1..Len(kids[p]) : c = kids[p][i]
         /\ \A p, q \in DOMAIN kids : \A i \in 1..Len(kids[p]), j \in 1..Len(kids[q]) :
              kids[p][i] = kids[q][j] => p = q /\ i = j
         /\ \A p, q \in DOMAIN kids : \A c \in Range(kids[p]) : c \in Range(kids[q]) => p = q
         /\ \A S \in SUBSET DOMAIN kids : root \in S /\ Closed(kids, S) => S = DOMAIN kids
<1>1. root \in DOMAIN kids /\ DOMAIN kids \subseteq Node
  BY DEF IsTree
<1>2. ASSUME NEW p \in DOMAIN kids
      PROVE  /\ Len(kids[p]) \in Nat /\ DOMAIN kids[p] = 1..Len(kids[p])
             /\ kids[p] = [i \in 1..Len(kids[p]) |-> kids[p][i]]
             /\ \A i \in 1..Len(kids[p]) : kids[p][i] \in DOMAIN kids /\ kids[p][i] # root
  <2>1. kids[p] \in Seq(DOMAIN kids \ {root})
    BY DEF IsTree
  <2>2. QED
    BY <2>1
<1>3. \A p, q \in DOMAIN kids : \A i \in 1..Len(kids[p]), j \in 1..Len(kids[q]) :
        kids[p][i] = kids[q][j] => p = q /\ i = j
  BY <1>2 DEF IsTree
<1>4. ASSUME NEW p \in DOMAIN kids
      PROVE  /\ \A c \in Range(kids[p]) : \E i \in 1..Len(kids[p]) : c = kids[p][i]
             /\ \A i \in 1..Len(kids[p]) : kids[p][i] \in Range(kids[p])
  BY <1>2 DEF Range
<1>5. \A S \in SUBSET DOMAIN kids : root \in S /\ Closed(kids, S) => S = DOMAIN kids
  BY DEF IsTree, Closed
<1>6. \A p \in DOMAIN kids : Range(kids[p]) \subseteq DOMAIN kids \ {root}
  BY <1>2, <1>4
<1>7. \A p, q \in DOMAIN kids : \A c \in Range(kids[p]) : c \in Range(kids[q]) => p = q
  BY <1>3, <1>4
<1>8. QED
  BY <1>1, <1>2, <1>3, <1>4, <1>5, <1>6, <1>7

\* Whoever has a child below a node is below it too, but for the node itself, and the root
\* is only below itself.
LEMMA UnderFacts ==
  ASSUME NEW kids, NEW root, IsTree(kids, root), NEW n \in DOMAIN kids
  PROVE  LET U == Under(kids, n) IN
         /\ n \in U /\ U \subseteq DOMAIN kids /\ Closed(kids, U)
         /\ \A S \in SUBSET DOMAIN kids : n \in S /\ Closed(kids, S) => U \subseteq S
         /\ \A p \in DOMAIN kids : \A c \in U \ {n} : c \in Range(kids[p]) => p \in U
         /\ \A p \in U : n \notin Range(kids[p])
         /\ root \in U => n = root
<1> DEFINE U == Under(kids, n)
           D == DOMAIN kids
<1>1. /\ n \in U /\ U \subseteq D
      /\ \A S \in SUBSET D : n \in S /\ Closed(kids, S) => U \subseteq S
  BY DEF Under
<1>2. \A p \in D : Range(kids[p]) \subseteq D \ {root}
  BY TreeFacts
<1>3. Closed(kids, U)
  <2>1. SUFFICES ASSUME NEW p \in U, NEW c \in Range(kids[p]) PROVE c \in U
    BY DEF Closed
  <2>2. SUFFICES ASSUME NEW S \in SUBSET D, n \in S, Closed(kids, S) PROVE c \in S
    BY <1>1, <1>2, <2>1 DEF Under
  <2>3. p \in S
    BY <1>1, <2>2
  <2>4. QED
    BY <2>1, <2>2, <2>3 DEF Closed
<1>4. ASSUME NEW p \in D, NEW c \in U \ {n}, c \in Range(kids[p])
      PROVE  p \in U
  <2>1. SUFFICES ASSUME p \notin U PROVE FALSE
    OBVIOUS
  <2>2. \A q \in U \ {c} : Range(kids[q]) \subseteq U \ {c}
    <3>1. SUFFICES ASSUME NEW q \in U, c \in Range(kids[q]) PROVE FALSE
      BY <1>3 DEF Closed
    <3>2. q \in D /\ p = q
      BY <1>1, <1>4, <3>1, TreeFacts
    <3>3. QED
      BY <2>1, <3>2
  <2>3. Closed(kids, U \ {c}) /\ n \in U \ {c} /\ U \ {c} \in SUBSET D
    BY <1>1, <2>2 DEF Closed
  <2>4. U \subseteq U \ {c}
    BY <1>1, <2>3
  <2>5. QED
    BY <2>4
<1>5. root \in U => n = root
  <2>1. SUFFICES ASSUME n # root PROVE root \notin U
    OBVIOUS
  <2>2. n \in D \ {root} /\ D \ {root} \in SUBSET D /\ Closed(kids, D \ {root})
    BY <1>2, <2>1 DEF Closed
  <2>3. QED
    BY <1>1, <2>2
<1>6. ASSUME NEW p \in U, n \in Range(kids[p]) PROVE FALSE
  <2>1. n # root /\ root \notin U /\ root \in D
    BY <1>1, <1>2, <1>5, <1>6, TreeFacts
  <2>2. ASSUME NEW q \in D \ U, NEW c \in Range(kids[q]) PROVE c \in D \ U
    <3>1. CASE c \in U \ {n}
      BY <1>4, <2>2, <3>1
    <3>2. CASE c = n
      BY <1>1, <1>6, <2>2, <3>2, TreeFacts
    <3>3. QED
      BY <1>2, <2>2, <3>1, <3>2
  <2>3. Closed(kids, D \ U) /\ root \in D \ U /\ D \ U \in SUBSET D
    BY <2>1, <2>2 DEF Closed
  <2>4. D \ U = D
    BY <2>3, TreeFacts
  <2>5. QED
    BY <1>1, <2>4
<1>7. QED
  BY <1>1, <1>3, <1>4, <1>5, <1>6

\* The list with a node more, or one less, at i.
With(list, i, n) ==
  [j \in 1..(Len(list) + 1) |-> IF j < i THEN list[j] ELSE IF j = i THEN n ELSE list[j - 1]]

Without(list, i) == [j \in 1..(Len(list) - 1) |-> IF j < i THEN list[j] ELSE list[j + 1]]

\* Its length and entries.
LEMMA WithFacts ==
  ASSUME NEW list, Len(list) \in Nat, NEW n, NEW i \in 1..(Len(list) + 1)
  PROVE  /\ Len(With(list, i, n)) = Len(list) + 1
         /\ DOMAIN With(list, i, n) = 1..(Len(list) + 1)
         /\ \A j \in 1..(Len(list) + 1) :
              With(list, i, n)[j] = IF j < i THEN list[j] ELSE IF j = i THEN n ELSE list[j - 1]
BY DEF With

\* The same for a list from which an entry is gone.
LEMMA WithoutFacts ==
  ASSUME NEW list, Len(list) \in Nat, NEW i \in 1..Len(list)
  PROVE  /\ Len(Without(list, i)) = Len(list) - 1
         /\ DOMAIN Without(list, i) = 1..(Len(list) - 1)
         /\ \A j \in 1..(Len(list) - 1) :
              Without(list, i)[j] = IF j < i THEN list[j] ELSE list[j + 1]
<1>1. Len(list) - 1 \in Nat
  OBVIOUS
<1>2. QED
  BY <1>1 DEF Without

\* What makes a tree.
TreeParts(kids, root) ==
  /\ root \in DOMAIN kids /\ DOMAIN kids \subseteq Node
  /\ \A p \in DOMAIN kids :
       /\ Len(kids[p]) \in Nat /\ kids[p] = [i \in 1..Len(kids[p]) |-> kids[p][i]]
       /\ \A i \in 1..Len(kids[p]) : kids[p][i] \in DOMAIN kids /\ kids[p][i] # root
  /\ \A p, q \in DOMAIN kids : \A i \in 1..Len(kids[p]), j \in 1..Len(kids[q]) :
       kids[p][i] = kids[q][j] => p = q /\ i = j
  /\ \A S \in SUBSET DOMAIN kids : root \in S /\ Closed(kids, S) => S = DOMAIN kids

\* These parts make a tree.
LEMMA TreeIntro ==
  ASSUME NEW kids, NEW root, TreeParts(kids, root)
  PROVE  IsTree(kids, root)
<1>h. /\ root \in DOMAIN kids /\ DOMAIN kids \subseteq Node
      /\ \A p \in DOMAIN kids :
           /\ Len(kids[p]) \in Nat /\ kids[p] = [i \in 1..Len(kids[p]) |-> kids[p][i]]
           /\ \A i \in 1..Len(kids[p]) : kids[p][i] \in DOMAIN kids /\ kids[p][i] # root
      /\ \A p, q \in DOMAIN kids : \A i \in 1..Len(kids[p]), j \in 1..Len(kids[q]) :
           kids[p][i] = kids[q][j] => p = q /\ i = j
      /\ \A S \in SUBSET DOMAIN kids : root \in S /\ Closed(kids, S) => S = DOMAIN kids
  BY DEF TreeParts
<1>1. ASSUME NEW p \in DOMAIN kids
      PROVE  kids[p] \in Seq(DOMAIN kids \ {root}) /\ DOMAIN kids[p] = 1..Len(kids[p])
  <2> DEFINE N == Len(kids[p])
             list == kids[p]
             E == DOMAIN kids \ {root}
  <2>1. N \in Nat /\ list = [i \in 1..N |-> list[i]] /\ \A i \in 1..N : list[i] \in E
    BY <1>h
  <2> HIDE DEF N, list, E
  <2>2. list \in Seq(E) /\ DOMAIN list = 1..N
    BY <2>1
  <2>3. QED
    BY <2>2 DEF N, list, E
<1>2. ASSUME NEW p \in DOMAIN kids, NEW q \in DOMAIN kids,
             NEW i \in DOMAIN kids[p], NEW j \in DOMAIN kids[q], kids[p][i] = kids[q][j]
      PROVE  p = q /\ i = j
  <2>1. i \in 1..Len(kids[p]) /\ j \in 1..Len(kids[q])
    BY <1>1
  <2>2. QED
    BY <1>h, <1>2, <2>1
<1>3. \A p \in DOMAIN kids : kids[p] \in Seq(DOMAIN kids \ {root})
  BY <1>1
<1>4. \A S \in SUBSET DOMAIN kids :
        root \in S /\ (\A p \in S : Range(kids[p]) \subseteq S) => S = DOMAIN kids
  BY <1>h DEF Closed
<1>5. QED
  BY ONLY <1>h, <1>2, <1>3, <1>4 DEF IsTree

\* The forest where the tree "new", with this root, is child i of a node.
Grafted(kids, this, i, new, top) ==
  [n \in DOMAIN kids \cup DOMAIN new |->
     IF n \in DOMAIN new THEN new[n]
     ELSE IF n = this THEN With(kids[n], i, top) ELSE kids[n]]

\* A tree with another grafted into one of its lists is a tree.
LEMMA GraftTree ==
  ASSUME NEW kids, NEW root, IsTree(kids, root), NEW new, NEW top, IsTree(new, top),
         DOMAIN kids \cap DOMAIN new = {},
         NEW this \in DOMAIN kids, NEW i \in 1..(Len(kids[this]) + 1)
  PROVE  IsTree(Grafted(kids, this, i, new, top), root)
<1> DEFINE D == DOMAIN kids
           C == DOMAIN new
           G == Grafted(kids, this, i, new, top)
<1>1. /\ \A p \in D : /\ Len(kids[p]) \in Nat
                      /\ \A j \in 1..Len(kids[p]) : kids[p][j] \in D /\ kids[p][j] # root
      /\ root \in D /\ D \subseteq Node
  <2>1. /\ \A p \in DOMAIN kids :
             /\ Len(kids[p]) \in Nat
             /\ \A j \in 1..Len(kids[p]) : kids[p][j] \in DOMAIN kids /\ kids[p][j] # root
        /\ root \in DOMAIN kids /\ DOMAIN kids \subseteq Node
    BY TreeFacts
  <2>2. QED
    BY <2>1
<1>2. /\ \A p \in C : /\ Len(new[p]) \in Nat
                      /\ \A j \in 1..Len(new[p]) : new[p][j] \in C /\ new[p][j] # top
      /\ top \in C /\ C \subseteq Node
  BY TreeFacts
<1>f. /\ \A p \in D : kids[p] = [j \in 1..Len(kids[p]) |-> kids[p][j]]
      /\ \A p \in C : new[p] = [j \in 1..Len(new[p]) |-> new[p][j]]
  BY TreeFacts
<1>u. /\ \A p, q \in D : \A j \in 1..Len(kids[p]), k \in 1..Len(kids[q]) :
           kids[p][j] = kids[q][k] => p = q /\ j = k
      /\ \A p, q \in C : \A j \in 1..Len(new[p]), k \in 1..Len(new[q]) :
           new[p][j] = new[q][k] => p = q /\ j = k
  BY TreeFacts
<1>r. \A p \in D : \A c \in Range(kids[p]) : \E j \in 1..Len(kids[p]) : c = kids[p][j]
  BY TreeFacts
<1>3. D \cap C = {} /\ DOMAIN G = D \cup C
  BY DEF Grafted
<1>4. /\ \A p \in C : G[p] = new[p]
      /\ \A p \in D \ {this} : G[p] = kids[p]
      /\ G[this] = With(kids[this], i, top)
  BY <1>3 DEF Grafted
<1>5. /\ Len(G[this]) = Len(kids[this]) + 1
      /\ \A j \in 1..Len(G[this]) :
           G[this][j] = IF j < i THEN kids[this][j] ELSE IF j = i THEN top ELSE kids[this][j - 1]
  BY <1>1, <1>4, WithFacts
<1>v. G[this] = [j \in 1..Len(G[this]) |-> G[this][j]]
  BY <1>1, <1>4, <1>5 DEF With
<1> HIDE DEF G, D, C
\* Where an entry comes from.
<1> DEFINE Place(p, j) == IF p = this /\ j > i THEN j - 1 ELSE j
<1>6. ASSUME NEW p \in D, NEW j \in 1..Len(G[p]), ~(p = this /\ j = i)
      PROVE  /\ Place(p, j) \in 1..Len(kids[p]) /\ G[p][j] = kids[p][Place(p, j)]
             /\ G[p][j] \in D \ {root}
  <2>1. CASE p # this
    <3>1. Place(p, j) = j /\ G[p] = kids[p]
      BY <1>4, <2>1
    <3>2. QED
      BY <1>1, <1>6, <3>1
  <2>2. CASE p = this
    <3>1. Len(kids[this]) \in Nat /\ i \in 1..(Len(kids[this]) + 1) /\ j # i
      BY <1>1, <1>6, <2>2 DEF D
    <3>2. j \in 1..(Len(kids[this]) + 1)
      BY <1>5, <2>2
    <3>3. Place(p, j) \in 1..Len(kids[p])
      BY <2>2, <3>1, <3>2
    <3>4. G[p][j] = kids[p][Place(p, j)]
      BY <1>5, <2>2, <3>1, <3>2
    <3>5. QED
      BY <1>1, <3>3, <3>4
  <2>3. QED
    BY <2>1, <2>2
<1>7. ASSUME NEW p \in C, NEW j \in 1..Len(G[p]) PROVE G[p][j] \in C \ {top}
  <2>1. G[p] = new[p]
    BY <1>4
  <2>2. QED
    BY <1>2, <1>7, <2>1
<1>8. i \in 1..Len(G[this]) /\ G[this][i] = top /\ this \in D
  BY <1>1, <1>5 DEF D
<1>9. ASSUME NEW p \in D \cup C
      PROVE  /\ Len(G[p]) \in Nat /\ G[p] = [j \in 1..Len(G[p]) |-> G[p][j]]
             /\ \A j \in 1..Len(G[p]) : G[p][j] \in D \cup C /\ G[p][j] # root
  <2>1. Len(G[p]) \in Nat /\ G[p] = [j \in 1..Len(G[p]) |-> G[p][j]]
    <3>1. CASE p = this
      BY <1>1, <1>5, <1>8, <1>v, <3>1
    <3>2. CASE p # this
      BY <1>1, <1>2, <1>4, <1>f, <3>2
    <3>3. QED
      BY <3>1, <3>2
  <2>2. ASSUME NEW j \in 1..Len(G[p]) PROVE G[p][j] \in D \cup C /\ G[p][j] # root
    BY <1>1, <1>2, <1>3, <1>6, <1>7, <1>8
  <2>3. QED
    BY <2>1, <2>2
<1>10. ASSUME NEW p \in D \cup C, NEW q \in D \cup C,
              NEW j \in 1..Len(G[p]), NEW k \in 1..Len(G[q]), G[p][j] = G[q][k]
       PROVE  p = q /\ j = k
  <2>1. CASE p \in C
    <3>1. q \in C
      BY <1>3, <1>6, <1>7, <1>8, <1>10, <2>1
    <3>2. QED
      BY <1>4, <1>u, <1>10, <2>1, <3>1
  <2>2. CASE p = this /\ j = i
    BY <1>2, <1>3, <1>6, <1>7, <1>8, <1>10, <2>2
  <2>3. CASE p \in D /\ ~(p = this /\ j = i)
    <3>1. q \in D /\ ~(q = this /\ k = i)
      BY <1>2, <1>3, <1>6, <1>7, <1>8, <1>10, <2>3
    <3>2. p = q /\ Place(p, j) = Place(q, k)
      <4>1. /\ Place(p, j) \in 1..Len(kids[p]) /\ G[p][j] = kids[p][Place(p, j)]
            /\ Place(q, k) \in 1..Len(kids[q]) /\ G[q][k] = kids[q][Place(q, k)]
        BY <1>6, <2>3, <3>1
      <4> HIDE DEF Place
      <4>2. PICK a \in 1..Len(kids[p]) : a = Place(p, j)
        BY <4>1
      <4>3. PICK b \in 1..Len(kids[q]) : b = Place(q, k)
        BY <4>1
      <4>4. kids[p][a] = kids[q][b]
        BY <1>10, <4>1, <4>2, <4>3
      <4>5. p = q /\ a = b
        BY ONLY <1>u, <2>3, <3>1, <4>2, <4>3, <4>4
      <4>6. QED
        BY ONLY <4>2, <4>3, <4>5
    <3>3. j \in Int /\ k \in Int /\ i \in Int
      BY <1>1, <1>9 DEF D
    <3>4. QED
      BY <2>3, <3>1, <3>2, <3>3
  <2>4. QED
    BY <2>1, <2>2, <2>3
<1>11. ASSUME NEW S \in SUBSET (D \cup C), root \in S, Closed(G, S) PROVE S = D \cup C
  <2>1. ASSUME NEW p \in S, NEW j \in 1..Len(G[p]) PROVE G[p][j] \in S
    <3>1. DOMAIN G[p] = 1..Len(G[p])
      BY <1>9
    <3>2. QED
      BY <1>11, <2>1, <3>1 DEF Closed, Range
  <2>2. ASSUME NEW p \in S \cap D, NEW c \in Range(kids[p]) PROVE c \in S \cap D
    <3>1. PICK k \in 1..Len(kids[p]) : c = kids[p][k]
      BY <1>r, <2>2
    <3>2. CASE p # this
      BY <1>1, <1>4, <2>1, <3>1, <3>2
    <3>3. CASE p = this
      <4> DEFINE j == IF k < i THEN k ELSE k + 1
      <4>1. j \in 1..Len(G[p]) /\ G[p][j] = kids[p][k]
        <5>1. Len(kids[this]) \in Nat /\ i \in 1..(Len(kids[this]) + 1) /\ k \in 1..Len(kids[this])
          BY <1>1, <3>1, <3>3 DEF D
        <5>2. j \in 1..Len(G[this])
          BY <1>5, <5>1
        <5>3. G[this][j] = IF j < i THEN kids[this][j] ELSE IF j = i THEN top
                           ELSE kids[this][j - 1]
          BY <1>5, <5>2
        <5>4. CASE k < i
          BY <3>3, <5>1, <5>2, <5>3, <5>4
        <5>5. CASE ~(k < i)
          <6>1. j = k + 1 /\ ~(j < i) /\ j # i /\ j - 1 = k
            BY <5>1, <5>5
          <6>2. QED
            BY <3>3, <5>2, <5>3, <6>1
        <5>6. QED
          BY <5>4, <5>5
      <4>2. QED
        BY <1>1, <2>1, <3>1, <4>1
    <3>4. QED
      BY <3>2, <3>3
  <2>3. S \cap D = D
    <3>1. Closed(kids, S \cap D) /\ root \in S \cap D /\ S \cap D \in SUBSET DOMAIN kids
      BY <1>1, <1>11, <2>2 DEF Closed, D
    <3>2. \A T \in SUBSET DOMAIN kids : root \in T /\ Closed(kids, T) => T = DOMAIN kids
      BY TreeFacts
    <3>3. QED
      BY <3>1, <3>2 DEF D
  <2>4. top \in S
    BY <1>8, <2>1, <2>3
  <2>5. S \cap C = C
    <3>1. ASSUME NEW p \in S \cap C PROVE Range(new[p]) \subseteq S \cap C
      <4>1. Range(new[p]) \subseteq C
        BY TreeFacts DEF C
      <4>2. QED
        BY <1>4, <1>11, <3>1, <4>1 DEF Closed
    <3>2. Closed(new, S \cap C) /\ top \in S \cap C /\ S \cap C \in SUBSET DOMAIN new
      BY <1>2, <2>4, <3>1 DEF Closed, C
    <3>3. \A T \in SUBSET DOMAIN new : top \in T /\ Closed(new, T) => T = DOMAIN new
      BY TreeFacts
    <3>4. QED
      BY <3>2, <3>3 DEF C
  <2>6. QED
    BY <1>11, <2>3, <2>5
<1>12. root \in DOMAIN G /\ DOMAIN G \subseteq Node
  BY <1>1, <1>2, <1>3
<1>13. IsTree(G, root)
  <2>1. DOMAIN G = D \cup C
    BY <1>3
  <2>2. \A p \in DOMAIN G :
          /\ Len(G[p]) \in Nat /\ G[p] = [j \in 1..Len(G[p]) |-> G[p][j]]
          /\ \A j \in 1..Len(G[p]) : G[p][j] \in DOMAIN G /\ G[p][j] # root
    BY <1>9, <2>1
  <2>3. \A p, q \in DOMAIN G : \A j \in 1..Len(G[p]), k \in 1..Len(G[q]) :
             G[p][j] = G[q][k] => p = q /\ j = k
    BY <1>10, <2>1
  <2>4. \A S \in SUBSET DOMAIN G : root \in S /\ Closed(G, S) => S = DOMAIN G
    BY <1>11, <2>1
  <2>5. TreeParts(G, root)
    BY <1>12, <2>2, <2>3, <2>4 DEF TreeParts
  <2>6. QED
    BY <2>5, TreeIntro
<1>14. QED
  BY <1>13 DEF G

\* The tree without the nodes of U, among which is all that is below them.
Prunes(kids, U, left) ==
  /\ U \subseteq DOMAIN kids /\ Closed(kids, U)
  /\ DOMAIN left = DOMAIN kids \ U
  /\ \A p \in DOMAIN left :
       /\ Len(left[p]) \in Nat /\ left[p] = [j \in 1..Len(left[p]) |-> left[p][j]]
       /\ Range(left[p]) = Range(kids[p]) \ U
       /\ \A j, k \in 1..Len(left[p]) : left[p][j] = left[p][k] => j = k

\* A tree without some branches is a tree.
LEMMA PruneTree ==
  ASSUME NEW kids, NEW root, IsTree(kids, root),
         NEW U, root \notin U, NEW left, Prunes(kids, U, left)
  PROVE  IsTree(left, root)
<1>h. /\ U \subseteq DOMAIN kids /\ Closed(kids, U)
      /\ DOMAIN left = DOMAIN kids \ U
      /\ \A p \in DOMAIN left :
           /\ Len(left[p]) \in Nat /\ left[p] = [j \in 1..Len(left[p]) |-> left[p][j]]
           /\ Range(left[p]) = Range(kids[p]) \ U
           /\ \A j, k \in 1..Len(left[p]) : left[p][j] = left[p][k] => j = k
  BY DEF Prunes
<1> DEFINE D == DOMAIN kids
<1>1. /\ root \in D /\ D \subseteq Node
      /\ \A p \in D : Range(kids[p]) \subseteq D \ {root}
      /\ \A p, q \in D : \A c \in Range(kids[p]) : c \in Range(kids[q]) => p = q
  <2>1. /\ root \in DOMAIN kids /\ DOMAIN kids \subseteq Node
        /\ \A p \in DOMAIN kids : Range(kids[p]) \subseteq DOMAIN kids \ {root}
    BY TreeFacts
  <2>2. \A p, q \in DOMAIN kids : \A c \in Range(kids[p]) : c \in Range(kids[q]) => p = q
    BY TreeFacts
  <2>3. QED
    BY <2>1, <2>2
<1>2. \A S \in SUBSET D : root \in S /\ Closed(kids, S) => S = D
  <2>1. \A S \in SUBSET DOMAIN kids : root \in S /\ Closed(kids, S) => S = DOMAIN kids
    BY TreeFacts
  <2>2. QED
    BY <2>1
<1>3. ASSUME NEW p \in DOMAIN left, NEW j \in 1..Len(left[p])
      PROVE  left[p][j] \in Range(left[p])
  <2>1. DOMAIN left[p] = 1..Len(left[p])
    BY <1>h
  <2>2. QED
    BY <1>3, <2>1 DEF Range
<1>4. ASSUME NEW p \in DOMAIN left
      PROVE  /\ Len(left[p]) \in Nat /\ left[p] = [j \in 1..Len(left[p]) |-> left[p][j]]
             /\ \A j \in 1..Len(left[p]) : left[p][j] \in DOMAIN left /\ left[p][j] # root
  <2>1. Len(left[p]) \in Nat /\ left[p] = [j \in 1..Len(left[p]) |-> left[p][j]]
    BY <1>h
  <2>2. ASSUME NEW c \in Range(left[p]) PROVE c \in DOMAIN left /\ c # root
    BY <1>h, <1>1
  <2>3. QED
    BY <1>3, <2>1, <2>2
<1>5. ASSUME NEW p \in DOMAIN left, NEW q \in DOMAIN left,
             NEW i \in 1..Len(left[p]), NEW j \in 1..Len(left[q]), left[p][i] = left[q][j]
      PROVE  p = q /\ i = j
  <2>1. left[p][i] \in Range(kids[p]) /\ left[q][j] \in Range(kids[q]) /\ p \in D /\ q \in D
    BY <1>h, <1>3
  <2>2. p = q
    BY <1>1, <1>5, <2>1
  <2>3. QED
    BY <1>h, <1>5, <2>2
<1>6. ASSUME NEW S \in SUBSET DOMAIN left, root \in S, Closed(left, S) PROVE S = DOMAIN left
  <2>1. ASSUME NEW p \in S \cup U PROVE Range(kids[p]) \subseteq S \cup U
    <3>1. CASE p \in U
      BY <1>h, <3>1 DEF Closed
    <3>2. CASE p \in S
      <4>1. Range(left[p]) \subseteq S
        BY <1>6, <3>2 DEF Closed
      <4>2. Range(left[p]) = Range(kids[p]) \ U
        BY <1>h, <3>2
      <4>3. QED
        BY <4>1, <4>2
    <3>3. QED
      BY <2>1, <3>1, <3>2
  <2>2. Closed(kids, S \cup U) /\ root \in S \cup U /\ S \cup U \in SUBSET D
    BY <1>h, <1>6, <2>1 DEF Closed
  <2>3. S \cup U = D
    BY <1>2, <2>2
  <2>4. QED
    BY <1>h, <1>6, <2>3
<1>7. root \in DOMAIN left /\ DOMAIN left \subseteq Node
  BY <1>h, <1>1
<1>8. \A S \in SUBSET DOMAIN left : root \in S /\ Closed(left, S) => S = DOMAIN left
  BY <1>6
<1>9. TreeParts(left, root)
  BY <1>4, <1>5, <1>7, <1>8 DEF TreeParts
<1>10. QED
  BY <1>9, TreeIntro

\* The tree without child i of a node.
Cut(kids, this, i) ==
  [n \in DOMAIN kids \ Under(kids, kids[this][i]) |->
     IF n = this THEN Without(kids[n], i) ELSE kids[n]]

\* A tree without the branch below one child is a tree.
LEMMA CutTree ==
  ASSUME NEW kids, NEW root, IsTree(kids, root),
         NEW this \in DOMAIN kids, NEW i \in 1..Len(kids[this])
  PROVE  /\ this \notin Under(kids, kids[this][i])
         /\ IsTree(Cut(kids, this, i), root)
<1> DEFINE D     == DOMAIN kids
           child == kids[this][i]
           U     == Under(kids, child)
           left  == Cut(kids, this, i)
<1>1. /\ child \in D /\ child # root /\ child \in Range(kids[this])
      /\ \A p \in D : Len(kids[p]) \in Nat
  BY TreeFacts
<1>2. /\ child \in U /\ U \subseteq D /\ Closed(kids, U)
      /\ \A p \in D : \A c \in U \ {child} : c \in Range(kids[p]) => p \in U
      /\ \A p \in U : child \notin Range(kids[p])
      /\ root \notin U
  BY <1>1, UnderFacts
<1>3. this \notin U
  BY <1>1, <1>2
<1>4. DOMAIN left = D \ U /\ \A p \in D \ U : left[p] = IF p = this THEN Without(kids[p], i) ELSE kids[p]
  BY DEF Cut
<1> HIDE DEF U, left
<1>5. ASSUME NEW p \in D \ U
      PROVE  /\ Len(left[p]) \in Nat /\ left[p] = [j \in 1..Len(left[p]) |-> left[p][j]]
             /\ Range(left[p]) = Range(kids[p]) \ U
             /\ \A j, k \in 1..Len(left[p]) : left[p][j] = left[p][k] => j = k
  <2>f. kids[p] = [j \in 1..Len(kids[p]) |-> kids[p][j]] /\ Len(kids[p]) \in Nat
    BY TreeFacts
  <2>u. \A j, k \in 1..Len(kids[p]) : kids[p][j] = kids[p][k] => j = k
    BY TreeFacts
  <2>r. \A c : c \in Range(kids[p]) <=> \E k \in 1..Len(kids[p]) : c = kids[p][k]
    <3>1. DOMAIN kids[p] = 1..Len(kids[p])
      BY TreeFacts
    <3>2. QED
      BY <3>1 DEF Range
  <2>1. CASE p # this
    <3>1. left[p] = kids[p]
      BY <1>4, <2>1
    <3>2. Range(kids[p]) \cap U = {}
      <4>1. SUFFICES ASSUME NEW c \in Range(kids[p]), c \in U PROVE FALSE
        OBVIOUS
      <4>2. c = child
        BY <1>2, <1>5, <4>1
      <4>3. \A q, t \in DOMAIN kids : \A x \in Range(kids[q]) : x \in Range(kids[t]) => q = t
        BY TreeFacts
      <4>4. QED
        BY <1>1, <2>1, <4>1, <4>2, <4>3
    <3>3. QED
      BY <2>f, <2>u, <3>1, <3>2
  <2>2. CASE p = this
    <3> DEFINE list == kids[this]
               L    == Len(kids[this])
    <3>1. left[p] = Without(list, i) /\ L \in Nat /\ i \in 1..L
      BY <1>1, <1>4, <2>2
    <3>2. /\ Len(left[p]) = L - 1 /\ L - 1 \in Nat
          /\ \A j \in 1..(L - 1) : left[p][j] = IF j < i THEN list[j] ELSE list[j + 1]
      BY <3>1, WithoutFacts
    <3>3. left[p] = [j \in 1..Len(left[p]) |-> left[p][j]]
      BY <3>1, <3>2 DEF Without
    <3>u. \A j, k \in 1..L : list[j] = list[k] => j = k
      BY <2>u, <2>2
    <3> DEFINE Place(j) == IF j < i THEN j ELSE j + 1
    <3>4. \A j \in 1..(L - 1) : Place(j) \in 1..L /\ Place(j) # i /\ left[p][j] = list[Place(j)]
      BY <3>1, <3>2
    <3>5. ASSUME NEW j \in 1..(L - 1), NEW k \in 1..(L - 1), left[p][j] = left[p][k] PROVE j = k
      <4>1. Place(j) = Place(k)
        <5> HIDE DEF Place, list, L
        <5>1. QED
          BY <3>4, <3>5, <3>u
      <4>2. QED
        BY <3>1, <4>1
    <3>6. ASSUME NEW k \in 1..L, k # i PROVE \E j \in 1..(L - 1) : Place(j) = k
      <4>1. CASE k < i
        BY <3>1, <4>1
      <4>2. CASE k > i
        <5>1. k - 1 \in 1..(L - 1) /\ Place(k - 1) = k
          BY <3>1, <4>2
        <5>2. QED
          BY <5>1
      <4>3. QED
        BY <3>1, <3>6, <4>1, <4>2
    <3>d. DOMAIN left[p] = 1..(L - 1)
      BY <3>1, WithoutFacts
    <3>r. \A c : c \in Range(left[p]) <=> \E j \in 1..(L - 1) : c = left[p][j]
      BY <3>d DEF Range
    <3>7. ASSUME NEW k \in 1..L, k # i PROVE list[k] \notin U
      <4>1. list[k] # child
        BY <3>u, <3>7, <3>1
      <4>2. list[k] \in Range(kids[this])
        BY <2>r, <2>2
      <4>3. QED
        BY <1>2, <1>3, <4>1, <4>2
    <3>8. ASSUME NEW c PROVE c \in Range(left[p]) <=> c \in Range(kids[p]) /\ c \notin U
      <4>1. ASSUME c \in Range(left[p]) PROVE c \in Range(kids[p]) /\ c \notin U
        <5>1. PICK j \in 1..(L - 1) : c = left[p][j]
          BY <3>r, <4>1
        <5>2. PICK k \in 1..L : k # i /\ c = list[k]
          <6> HIDE DEF Place
          <6>1. QED
            BY <3>4, <5>1
        <5>3. QED
          BY <2>r, <2>2, <3>7, <5>2
      <4>2. ASSUME c \in Range(kids[p]), c \notin U PROVE c \in Range(left[p])
        <5>1. PICK k \in 1..L : c = list[k]
          BY <2>r, <2>2, <4>2
        <5>2. k # i
          BY <1>2, <4>2, <5>1
        <5>3. PICK j \in 1..(L - 1) : Place(j) = k
          BY <3>6, <5>2
        <5>4. c = left[p][j]
          <6> HIDE DEF Place
          <6>1. QED
            BY <3>4, <5>1, <5>3
        <5>5. QED
          BY <3>r, <5>4
      <4>3. QED
        BY <4>1, <4>2
    <3>9. QED
      BY <3>2, <3>3, <3>5, <3>8
  <2>3. QED
    BY <2>1, <2>2
<1>6. U \in SUBSET DOMAIN kids /\ DOMAIN left = DOMAIN kids \ U
  BY <1>2, <1>4
<1>7. Prunes(kids, U, left)
  <2>1. \A p \in DOMAIN left :
           /\ Len(left[p]) \in Nat /\ left[p] = [j \in 1..Len(left[p]) |-> left[p][j]]
           /\ Range(left[p]) = Range(kids[p]) \ U
           /\ \A j, k \in 1..Len(left[p]) : left[p][j] = left[p][k] => j = k
    BY <1>5, <1>6
  <2>2. QED
    BY <1>2, <1>6, <2>1 DEF Prunes
<1>8. IsTree(left, root)
  BY <1>2, <1>7, PruneTree
<1>9. QED
  BY <1>3, <1>8 DEF U, left

\* The tree without what is below a node.
Pruned(kids, this) ==
  [n \in DOMAIN kids \ (Under(kids, this) \ {this}) |-> IF n = this THEN <<>> ELSE kids[n]]

\* A tree without all that is below one node is a tree.
LEMMA ClearTree ==
  ASSUME NEW kids, NEW root, IsTree(kids, root), NEW this \in DOMAIN kids
  PROVE  IsTree(Pruned(kids, this), root)
<1> DEFINE D    == DOMAIN kids
           A    == Under(kids, this)
           U    == A \ {this}
           left == Pruned(kids, this)
<1>1. /\ this \in A /\ A \subseteq D /\ Closed(kids, A)
      /\ \A p \in D : \A c \in A \ {this} : c \in Range(kids[p]) => p \in A
      /\ \A p \in A : this \notin Range(kids[p])
      /\ root \in A => this = root
  BY UnderFacts
<1>2. root \notin U /\ U \in SUBSET D
  BY <1>1
<1>3. Closed(kids, U)
  BY <1>1 DEF Closed
<1>4. DOMAIN left = D \ U /\ \A p \in D \ U : left[p] = IF p = this THEN <<>> ELSE kids[p]
  BY DEF Pruned
<1> HIDE DEF A, left
<1>5. ASSUME NEW p \in DOMAIN left
      PROVE  /\ Len(left[p]) \in Nat /\ left[p] = [j \in 1..Len(left[p]) |-> left[p][j]]
             /\ Range(left[p]) = Range(kids[p]) \ U
             /\ \A j, k \in 1..Len(left[p]) : left[p][j] = left[p][k] => j = k
  <2>1. CASE p # this
    <3>1. left[p] = kids[p]
      BY <1>4, <2>1
    <3>2. Range(kids[p]) \cap U = {}
      BY <1>1, <1>4, <2>1
    <3>3. p \in DOMAIN kids
      BY <1>4
    <3>f. kids[p] = [j \in 1..Len(kids[p]) |-> kids[p][j]] /\ Len(kids[p]) \in Nat
      BY <3>3, TreeFacts
    <3>u. \A j, k \in 1..Len(kids[p]) : kids[p][j] = kids[p][k] => j = k
      BY <3>3, TreeFacts
    <3>4. QED
      BY <3>1, <3>2, <3>f, <3>u
  <2>2. CASE p = this
    <3>1. left[p] = <<>> /\ Len(left[p]) = 0
      BY <1>4, <2>2
    <3>2. Range(left[p]) = {}
      BY <3>1 DEF Range
    <3>3. Range(kids[p]) \subseteq U
      BY <1>1, <2>2 DEF Closed
    <3>4. left[p] = [j \in 1..Len(left[p]) |-> left[p][j]]
      BY <3>1
    <3>5. QED
      BY <3>1, <3>2, <3>3, <3>4
  <2>3. QED
    BY <2>1, <2>2
<1>6. IsTree(left, root)
  <2>1. Prunes(kids, U, left)
    BY <1>2, <1>3, <1>4, <1>5 DEF Prunes
  <2>2. QED
    BY <1>2, <2>1, PruneTree
<1>7. QED
  BY <1>6 DEF left, A

\* What is below a node is a tree itself.
Branch(kids, n) == [m \in Under(kids, n) |-> kids[m]]

\* The branch below a node is a tree.
LEMMA BranchTree ==
  ASSUME NEW kids, NEW root, IsTree(kids, root), NEW n \in DOMAIN kids
  PROVE  IsTree(Branch(kids, n), n)
<1> DEFINE U == Under(kids, n)
           K == Branch(kids, n)
<1>1. /\ n \in U /\ U \subseteq DOMAIN kids /\ Closed(kids, U)
      /\ \A S \in SUBSET DOMAIN kids : n \in S /\ Closed(kids, S) => U \subseteq S
      /\ \A p \in U : n \notin Range(kids[p])
  BY UnderFacts
<1>2. DOMAIN K = U /\ \A p \in U : K[p] = kids[p]
  BY DEF Branch
<1> HIDE DEF U, K
<1>3. ASSUME NEW p \in DOMAIN K
      PROVE  /\ Len(K[p]) \in Nat /\ K[p] = [i \in 1..Len(K[p]) |-> K[p][i]]
             /\ \A i \in 1..Len(K[p]) : K[p][i] \in DOMAIN K /\ K[p][i] # n
  <2>1. p \in DOMAIN kids /\ K[p] = kids[p] /\ p \in U
    BY <1>1, <1>2
  <2>2. Len(kids[p]) \in Nat /\ kids[p] = [i \in 1..Len(kids[p]) |-> kids[p][i]]
    BY <2>1, TreeFacts
  <2>3. \A i \in 1..Len(kids[p]) : kids[p][i] \in Range(kids[p])
    BY <2>1, TreeFacts
  <2>4. Range(kids[p]) \subseteq U \ {n}
    BY <1>1, <2>1 DEF Closed
  <2>5. \A i \in 1..Len(K[p]) : K[p][i] \in DOMAIN K /\ K[p][i] # n
    BY <1>2, <2>1, <2>3, <2>4
  <2>6. QED
    BY <2>1, <2>2, <2>5
<1>4. ASSUME NEW p \in DOMAIN K, NEW q \in DOMAIN K,
             NEW i \in 1..Len(K[p]), NEW j \in 1..Len(K[q]), K[p][i] = K[q][j]
      PROVE  p = q /\ i = j
  <2>1. p \in DOMAIN kids /\ K[p] = kids[p] /\ q \in DOMAIN kids /\ K[q] = kids[q]
    BY <1>1, <1>2
  <2>2. \A k \in 1..Len(kids[p]), l \in 1..Len(kids[q]) : kids[p][k] = kids[q][l] => p = q /\ k = l
    BY <2>1, TreeFacts
  <2>3. QED
    BY <1>4, <2>1, <2>2
<1>5. ASSUME NEW S \in SUBSET DOMAIN K, n \in S, Closed(K, S) PROVE S = DOMAIN K
  <2>1. Closed(kids, S)
    BY <1>2, <1>5 DEF Closed
  <2>2. QED
    BY <1>1, <1>2, <1>5, <2>1
<1>6. n \in DOMAIN K /\ DOMAIN K \subseteq Node
  BY <1>1, <1>2, TreeFacts
<1>7. \A S \in SUBSET DOMAIN K : n \in S /\ Closed(K, S) => S = DOMAIN K
  BY <1>5
<1>8. IsTree(K, n)
  <2>1. TreeParts(K, n)
    BY <1>3, <1>4, <1>6, <1>7 DEF TreeParts
  <2>2. QED
    BY <2>1, TreeIntro
<1>9. QED
  BY <1>8 DEF K

\* A tree whose nodes are replaced by others is one too.
LEMMA CopyTree ==
  ASSUME NEW kids, NEW root, IsTree(kids, root),
         NEW copy \in [DOMAIN kids -> Node], \A m, n \in DOMAIN kids : copy[m] = copy[n] => m = n,
         NEW new, DOMAIN new = {copy[n] : n \in DOMAIN kids},
         \A n \in DOMAIN kids : new[copy[n]] = [i \in DOMAIN kids[n] |-> copy[kids[n][i]]]
  PROVE  IsTree(new, copy[root])
<1> DEFINE D == DOMAIN kids
<1>1. /\ root \in D /\ D \subseteq Node
      /\ \A p \in D : /\ Len(kids[p]) \in Nat /\ DOMAIN kids[p] = 1..Len(kids[p])
                      /\ \A i \in 1..Len(kids[p]) : kids[p][i] \in D /\ kids[p][i] # root
  <2>1. root \in DOMAIN kids /\ DOMAIN kids \subseteq Node
    BY TreeFacts
  <2>2. \A p \in DOMAIN kids :
          /\ Len(kids[p]) \in Nat /\ DOMAIN kids[p] = 1..Len(kids[p])
          /\ \A i \in 1..Len(kids[p]) : kids[p][i] \in DOMAIN kids /\ kids[p][i] # root
    BY TreeFacts
  <2>3. QED
    BY <2>1, <2>2
<1>2. \A p, q \in D : \A i \in 1..Len(kids[p]), j \in 1..Len(kids[q]) :
        kids[p][i] = kids[q][j] => p = q /\ i = j
  <2>1. \A p, q \in DOMAIN kids : \A i \in 1..Len(kids[p]), j \in 1..Len(kids[q]) :
          kids[p][i] = kids[q][j] => p = q /\ i = j
    BY TreeFacts
  <2>2. QED
    BY <2>1
<1>3. \A m \in D : copy[m] \in DOMAIN new
  OBVIOUS
<1>4. ASSUME NEW n \in D
      PROVE  /\ Len(new[copy[n]]) = Len(kids[n])
             /\ new[copy[n]] = [i \in 1..Len(kids[n]) |-> copy[kids[n][i]]]
             /\ \A i \in 1..Len(kids[n]) : new[copy[n]][i] = copy[kids[n][i]]
  <2>1. new[copy[n]] = [i \in 1..Len(kids[n]) |-> copy[kids[n][i]]] /\ Len(kids[n]) \in Nat
    BY <1>1
  <2>2. QED
    BY <2>1
<1>5. ASSUME NEW c \in DOMAIN new
      PROVE  /\ Len(new[c]) \in Nat /\ new[c] = [i \in 1..Len(new[c]) |-> new[c][i]]
             /\ \A i \in 1..Len(new[c]) : new[c][i] \in DOMAIN new /\ new[c][i] # copy[root]
  <2>1. PICK n \in D : c = copy[n]
    OBVIOUS
  <2>2. Len(new[c]) \in Nat /\ new[c] = [i \in 1..Len(new[c]) |-> new[c][i]]
    BY <1>1, <1>4, <2>1
  <2>3. ASSUME NEW i \in 1..Len(new[c]) PROVE new[c][i] \in DOMAIN new /\ new[c][i] # copy[root]
    <3>1. new[c][i] = copy[kids[n][i]] /\ kids[n][i] \in D \ {root}
      BY <1>1, <1>4, <2>1
    <3>2. QED
      BY <1>1, <1>3, <3>1
  <2>4. QED
    BY <2>2, <2>3
<1>6. ASSUME NEW c \in DOMAIN new, NEW d \in DOMAIN new,
             NEW i \in 1..Len(new[c]), NEW j \in 1..Len(new[d]), new[c][i] = new[d][j]
      PROVE  c = d /\ i = j
  <2>1. PICK m \in D : c = copy[m]
    OBVIOUS
  <2>2. PICK n \in D : d = copy[n]
    OBVIOUS
  <2>3. i \in 1..Len(kids[m]) /\ j \in 1..Len(kids[n])
    BY <1>4, <2>1, <2>2
  <2>4. copy[kids[m][i]] = copy[kids[n][j]]
    BY <1>4, <1>6, <2>1, <2>2, <2>3
  <2>5. kids[m][i] \in D /\ kids[n][j] \in D
    BY <1>1, <2>3
  <2>6. kids[m][i] = kids[n][j]
    BY <2>4, <2>5
  <2>7. QED
    BY <1>2, <2>1, <2>2, <2>3, <2>6
<1>7. ASSUME NEW S \in SUBSET DOMAIN new, copy[root] \in S, Closed(new, S) PROVE S = DOMAIN new
  <2> DEFINE T == {n \in D : copy[n] \in S}
  <2>1. ASSUME NEW p \in T PROVE Range(kids[p]) \subseteq T
    <3>1. SUFFICES ASSUME NEW i \in DOMAIN kids[p] PROVE kids[p][i] \in T
      BY DEF Range
    <3>2. p \in D /\ copy[p] \in S /\ i \in 1..Len(kids[p]) /\ kids[p][i] \in D
      BY <1>1
    <3>3. new[copy[p]][i] = copy[kids[p][i]] /\ i \in DOMAIN new[copy[p]]
      BY <1>4, <3>2
    <3>4. Range(new[copy[p]]) \subseteq S
      BY <1>7, <3>2 DEF Closed
    <3>5. copy[kids[p][i]] \in S
      BY <3>3, <3>4 DEF Range
    <3>6. QED
      BY <3>2, <3>5
  <2>2. Closed(kids, T) /\ root \in T /\ T \in SUBSET DOMAIN kids
    BY <1>1, <1>7, <2>1 DEF Closed
  <2>3. \A R \in SUBSET DOMAIN kids : root \in R /\ Closed(kids, R) => R = DOMAIN kids
    BY TreeFacts
  <2>4. T = D
    BY <2>2, <2>3
  <2>5. QED
    BY <1>7, <2>4
<1>8. copy[root] \in DOMAIN new /\ DOMAIN new \subseteq Node
  BY <1>1
<1>9. \A S \in SUBSET DOMAIN new : copy[root] \in S /\ Closed(new, S) => S = DOMAIN new
  BY <1>7
<1>10. TreeParts(new, copy[root])
  BY <1>5, <1>6, <1>8, <1>9 DEF TreeParts
<1>11. QED
  BY <1>10, TreeIntro

-----------------------------------------------------------------------------
(* Pointers                                                                *)

Pointer == Node \cup {NULL}

Record(T, V, A) ==
  [type : T, value : V, attrs : A, parent : Pointer,
   firstChild : Pointer, lastChild : Pointer, prev : Pointer, next : Pointer]

\* Lists of children in which no node is twice.
Forest(kids) ==
  /\ DOMAIN kids \subseteq Node
  /\ \A p \in DOMAIN kids :
       /\ Len(kids[p]) \in Nat /\ DOMAIN kids[p] = 1..Len(kids[p])
       /\ kids[p] = [i \in 1..Len(kids[p]) |-> kids[p][i]]
       /\ \A i \in 1..Len(kids[p]) : kids[p][i] \in DOMAIN kids
  /\ \A p, q \in DOMAIN kids : \A i \in 1..Len(kids[p]), j \in 1..Len(kids[q]) :
       kids[p][i] = kids[q][j] => p = q /\ i = j

\* The pointers of h are those of these lists.
Links(h, kids) ==
  /\ DOMAIN h = DOMAIN kids
  /\ \A p \in DOMAIN kids : /\ h[p].firstChild = Entry(kids[p], 1)
                            /\ h[p].lastChild = Entry(kids[p], Len(kids[p]))
  /\ \A p \in DOMAIN kids : \A i \in 1..Len(kids[p]) :
       /\ h[kids[p][i]].parent = p
       /\ h[kids[p][i]].prev = Entry(kids[p], i - 1)
       /\ h[kids[p][i]].next = Entry(kids[p], i + 1)

\* A tree is a forest.
LEMMA TreeForest ==
  ASSUME NEW kids, NEW root, IsTree(kids, root)
  PROVE  Forest(kids)
<1>1. /\ DOMAIN kids \subseteq Node
      /\ \A p \in DOMAIN kids :
           /\ Len(kids[p]) \in Nat /\ DOMAIN kids[p] = 1..Len(kids[p])
           /\ kids[p] = [i \in 1..Len(kids[p]) |-> kids[p][i]]
  BY TreeFacts
<1>2. \A p \in DOMAIN kids : \A i \in 1..Len(kids[p]) : kids[p][i] \in DOMAIN kids
  BY TreeFacts
<1>3. \A p, q \in DOMAIN kids : \A i \in 1..Len(kids[p]), j \in 1..Len(kids[q]) :
       kids[p][i] = kids[q][j] => p = q /\ i = j
  BY TreeFacts
<1>4. QED
  BY <1>1, <1>2, <1>3 DEF Forest

\* A list of children is no longer than there are nodes.
LEMMA ForestList ==
  ASSUME NEW kids, Forest(kids), NEW p \in DOMAIN kids
  PROVE  /\ kids[p] \in Seq(DOMAIN kids) /\ Len(kids[p]) \in Nat /\ Len(kids[p]) <= MaxNodes
         /\ DOMAIN kids[p] = 1..Len(kids[p])
         /\ \A i, j \in 1..Len(kids[p]) : kids[p][i] = kids[p][j] => i = j
<1> DEFINE q == kids[p]
           n == Len(q)
<1>1. /\ n \in Nat /\ q = [i \in 1..n |-> q[i]]
      /\ \A i \in 1..n : q[i] \in DOMAIN kids
      /\ DOMAIN q = 1..n
  BY DEF Forest
<1>2. \A i, j \in 1..n : q[i] = q[j] => i = j
  BY DEF Forest
<1>3. DOMAIN kids \subseteq Node
  BY DEF Forest
<1> HIDE DEF q, n
<1>4. q \in Seq(DOMAIN kids)
  BY <1>1
<1>5. q \in [1..n -> Node]
  BY <1>1, <1>3
<1>6. n <= MaxNodes
  BY <1>1, <1>2, <1>5, ShortList
<1>7. QED
  BY <1>1, <1>2, <1>4, <1>6 DEF q, n

\* NULL is no node.
LEMMA NodeNumbers == MaxNodes \in Nat /\ Node = 1..MaxNodes /\ NULL = 0 /\ NULL \notin Node
BY NodesAssumption DEF Node, NULL

\* An entry is the list's, and NULL beside it.
LEMMA EntryFacts ==
  ASSUME NEW S, NEW q \in Seq(S), NEW i \in Int
  PROVE  /\ i \in 1..Len(q) => Entry(q, i) = q[i] /\ Entry(q, i) \in S
         /\ i \notin 1..Len(q) => Entry(q, i) = NULL
<1>1. DOMAIN q = 1..Len(q) /\ \A j \in 1..Len(q) : q[j] \in S
  OBVIOUS
<1>2. QED
  BY <1>1 DEF Entry

\* The pointers lead to nodes that exist.
Sound(h) ==
  \A n \in DOMAIN h :
    {h[n].parent, h[n].firstChild, h[n].lastChild, h[n].prev, h[n].next} \subseteq DOMAIN h \cup {NULL}

\* A walk forwards from the head of a list, or from a child.
LEMMA ForwardsIs ==
  ASSUME NEW h, Sound(h), NEW kids, Forest(kids), Links(h, kids), NEW p \in DOMAIN kids,
         NEW i \in 1..(Len(kids[p]) + 1)
  PROVE  Forwards(h, Entry(kids[p], i)) = SubSeq(kids[p], i, Len(kids[p]))
<1> DEFINE q    == kids[p]
           D    == DOMAIN h
           link == [n \in D |-> h[n].next]
<1>1. /\ q \in Seq(D) /\ Len(q) \in Nat /\ Len(q) <= MaxNodes /\ DOMAIN q = 1..Len(q)
      /\ D \subseteq Node
  BY ForestList DEF Forest, Links
<1>2. \A j \in 1..Len(q) : q[j] \in D /\ h[q[j]].next = Entry(q, j + 1)
  BY <1>1 DEF Links
<1>3. DOMAIN link = D /\ link \in [D -> D \cup {NULL}] /\ NULL \notin D
  BY <1>1, NodeNumbers DEF Sound
<1>4. Chain(link, q)
  BY <1>1, <1>2, <1>3 DEF Chain
<1>5. i \in 1..(Len(q) + 1)
  OBVIOUS
<1> HIDE DEF q, link
<1>6. Walk(link, Entry(q, i)) = SubSeq(q, i, Len(q))
  BY <1>1, <1>3, <1>4, <1>5, WalkIs
<1>7. QED
  BY <1>6 DEF q, link, Forwards

\* A walk backwards from the end of a list, or from a child.
LEMMA BackwardsIs ==
  ASSUME NEW h, Sound(h), NEW kids, Forest(kids), Links(h, kids), NEW p \in DOMAIN kids,
         NEW i \in 0..Len(kids[p])
  PROVE  Backwards(h, Entry(kids[p], i)) =
           SubSeq(Reverse(kids[p]), Len(kids[p]) + 1 - i, Len(kids[p]))
<1> DEFINE list == kids[p]
           N    == Len(list)
           q    == Reverse(list)
           D    == DOMAIN h
           link == [n \in D |-> h[n].prev]
<1>1. /\ list \in Seq(D) /\ N \in Nat /\ N <= MaxNodes /\ DOMAIN list = 1..N
      /\ D \subseteq Node
  BY ForestList DEF Forest, Links
<1>2. \A j \in 1..N : list[j] \in D /\ h[list[j]].prev = Entry(list, j - 1)
  BY <1>1 DEF Links
<1>3. DOMAIN link = D /\ link \in [D -> D \cup {NULL}] /\ NULL \notin D
  BY <1>1, NodeNumbers DEF Sound
<1> HIDE DEF list, N
<1>4. q = [j \in 1..N |-> list[N - j + 1]]
  BY <1>1 DEF Reverse, N
<1>5. q \in Seq(D) /\ Len(q) = N /\ DOMAIN q = 1..N /\ \A j \in 1..N : q[j] = list[N - j + 1]
  <2>1. \A j \in 1..N : N - j + 1 \in 1..N
    BY <1>1
  <2> HIDE DEF q, D
  <2>2. \A j \in 1..N : list[N - j + 1] \in D
    BY <1>2, <2>1
  <2>3. q \in [1..N -> D]
    BY <1>4, <2>2
  <2>4. QED
    BY <1>1, <1>4, <2>3
<1>6. \A j \in 0..(N + 1) : Entry(list, j) = Entry(q, N + 1 - j)
  <2> HIDE DEF q
  <2>1. SUFFICES ASSUME NEW j \in 0..(N + 1) PROVE Entry(list, j) = Entry(q, N + 1 - j)
    OBVIOUS
  <2>2. CASE j \in 1..N
    <3>1. N + 1 - j \in 1..N /\ N - (N + 1 - j) + 1 = j
      BY <1>1, <2>2
    <3>2. QED
      BY <1>1, <1>5, <2>2, <3>1 DEF Entry
  <2>3. CASE j \notin 1..N
    <3>1. N + 1 - j \notin 1..N
      BY <1>1, <2>3
    <3>2. QED
      BY <1>1, <1>5, <2>3, <3>1 DEF Entry
  <2>4. QED
    BY <2>2, <2>3
<1>7. Chain(link, q)
  <2> HIDE DEF q
  <2>1. ASSUME NEW j \in 1..N PROVE link[q[j]] = Entry(q, j + 1)
    <3>1. N - j + 1 \in 1..N /\ N - j + 1 - 1 \in 0..(N + 1) /\ N + 1 - (N - j + 1 - 1) = j + 1
      BY <1>1
    <3>2. q[j] = list[N - j + 1] /\ link[q[j]] = Entry(list, N - j + 1 - 1)
      <4>1. q[j] = list[N - j + 1]
        BY <1>5
      <4>2. /\ list[N - j + 1] \in D
            /\ h[list[N - j + 1]].prev = Entry(list, N - j + 1 - 1)
        <5>1. PICK k \in 1..N : k = N - j + 1
          BY <3>1
        <5>2. list[k] \in D /\ h[list[k]].prev = Entry(list, k - 1)
          BY <1>2
        <5>3. QED
          BY <1>1, <5>1, <5>2
      <4>3. QED
        BY <4>1, <4>2
    <3>3. QED
      BY <1>6, <3>1, <3>2
  <2>2. QED
    BY <1>3, <1>5, <2>1 DEF Chain
<1>8. N + 1 - i \in 1..(Len(q) + 1) /\ i \in 0..(N + 1)
  BY <1>1, <1>5 DEF N, list
<1> HIDE DEF q, link
<1>9. Walk(link, Entry(q, N + 1 - i)) = SubSeq(q, N + 1 - i, Len(q))
  BY <1>1, <1>3, <1>5, <1>7, <1>8, WalkIs
<1>10. QED
  BY <1>5, <1>6, <1>8, <1>9 DEF q, link, Backwards, list, N

\* The walk over the children of a node finds its list.
LEMMA ChildrenIs ==
  ASSUME NEW h, Sound(h), NEW kids, Forest(kids), Links(h, kids)
  PROVE  \A p \in DOMAIN kids : Children(h, p) = kids[p]
<1>1. SUFFICES ASSUME NEW p \in DOMAIN kids PROVE Children(h, p) = kids[p]
  OBVIOUS
<1>2. Len(kids[p]) \in Nat /\ kids[p] \in Seq(DOMAIN kids)
  BY ForestList
<1>3. Forwards(h, Entry(kids[p], 1)) = SubSeq(kids[p], 1, Len(kids[p]))
  BY <1>2, ForwardsIs
<1>4. h[p].firstChild = Entry(kids[p], 1)
  BY DEF Links
<1>5. SubSeq(kids[p], 1, Len(kids[p])) = kids[p]
  BY <1>2
<1>6. QED
  BY <1>3, <1>4, <1>5 DEF Children

\* A destructor deletes the branch below its node.
LEMMA BelowIs ==
  ASSUME NEW h, NEW kids, DOMAIN h = DOMAIN kids,
         \A p \in DOMAIN kids : Children(h, p) = kids[p], NEW n
  PROVE  Below(h, n) = Under(kids, n)
<1> DEFINE D     == DOMAIN kids
           links == UNION {{p} \X Range(Children(h, p)) : p \in DOMAIN h}
           Whole(S) == n \in S /\ \A link \in links : link[1] \in S => link[2] \in S
<1>1. Below(h, n) = {m \in D : \A S \in SUBSET D : Whole(S) => m \in S}
  BY DEF Below
<1>2. ASSUME NEW S \in SUBSET D PROVE Whole(S) <=> n \in S /\ Closed(kids, S)
  <2>1. ASSUME NEW p \in S, NEW c \in Range(kids[p]) PROVE <<p, c>> \in links
    OBVIOUS
  <2>2. ASSUME NEW link \in links PROVE link[1] \in D /\ link[2] \in Range(kids[link[1]])
    OBVIOUS
  <2> HIDE DEF links
  <2>3. ASSUME Whole(S) PROVE Closed(kids, S)
    BY <2>1, <2>3 DEF Closed
  <2>4. ASSUME Closed(kids, S), n \in S PROVE Whole(S)
    BY <2>2, <2>4 DEF Closed
  <2>5. QED
    BY <2>3, <2>4
<1> HIDE DEF Whole
<1>3. QED
  BY <1>1, <1>2 DEF Under

-----------------------------------------------------------------------------
(* Linking                                                                 *)

\* h2 is h with n between two nodes among the children of this, or at an end of them.
Spliced(h, h2, this, before, after, n) ==
  /\ DOMAIN h2 = DOMAIN h
  /\ \A m \in DOMAIN h :
       /\ h2[m].parent = IF m = n THEN this ELSE h[m].parent
       /\ h2[m].prev = IF m = n THEN before ELSE IF m = after THEN n ELSE h[m].prev
       /\ h2[m].next = IF m = n THEN after ELSE IF m = before THEN n ELSE h[m].next
       /\ h2[m].firstChild = IF m = this /\ before = NULL THEN n ELSE h[m].firstChild
       /\ h2[m].lastChild = IF m = this /\ after = NULL THEN n ELSE h[m].lastChild
       /\ h2[m].type = h[m].type /\ h2[m].value = h[m].value /\ h2[m].attrs = h[m].attrs

\* A node spliced in is linked as the list with it says.
LEMMA SpliceLinks ==
  ASSUME NEW h, NEW kids, Forest(kids), Links(h, kids),
         NEW this \in DOMAIN kids, NEW i \in 1..(Len(kids[this]) + 1),
         NEW n \in DOMAIN kids, \A p \in DOMAIN kids : \A j \in 1..Len(kids[p]) : kids[p][j] # n,
         NEW h2, Spliced(h, h2, this, Entry(kids[this], i - 1), Entry(kids[this], i), n)
  PROVE  Links(h2, [kids EXCEPT ![this] = With(kids[this], i, n)])
<1> DEFINE D    == DOMAIN kids
           list == kids[this]
           L    == Len(list)
           more == With(list, i, n)
           K    == [kids EXCEPT ![this] = more]
           before == Entry(list, i - 1)
           after  == Entry(list, i)
<1>1. /\ L \in Nat /\ DOMAIN list = 1..L
      /\ \A p \in D : /\ Len(kids[p]) \in Nat /\ DOMAIN kids[p] = 1..Len(kids[p])
                      /\ \A j \in 1..Len(kids[p]) : kids[p][j] \in D /\ kids[p][j] # n
      /\ D \subseteq Node /\ NULL \notin D
  BY NodeNumbers DEF Forest
<1>u. \A p, q \in D : \A j \in 1..Len(kids[p]), k \in 1..Len(kids[q]) :
         kids[p][j] = kids[q][k] => p = q /\ j = k
  BY DEF Forest
<1>2. /\ DOMAIN h = D
      /\ \A p \in D : h[p].firstChild = Entry(kids[p], 1) /\ h[p].lastChild = Entry(kids[p], Len(kids[p]))
      /\ \A p \in D : \A j \in 1..Len(kids[p]) :
           /\ h[kids[p][j]].parent = p
           /\ h[kids[p][j]].prev = Entry(kids[p], j - 1)
           /\ h[kids[p][j]].next = Entry(kids[p], j + 1)
  BY DEF Links
<1>3. /\ DOMAIN h2 = D
      /\ \A m \in D :
           /\ h2[m].parent = IF m = n THEN this ELSE h[m].parent
           /\ h2[m].prev = IF m = n THEN before ELSE IF m = after THEN n ELSE h[m].prev
           /\ h2[m].next = IF m = n THEN after ELSE IF m = before THEN n ELSE h[m].next
           /\ h2[m].firstChild = IF m = this /\ before = NULL THEN n ELSE h[m].firstChild
           /\ h2[m].lastChild = IF m = this /\ after = NULL THEN n ELSE h[m].lastChild
  BY <1>2 DEF Spliced
<1>4. /\ Len(more) = L + 1 /\ DOMAIN more = 1..(L + 1)
      /\ \A j \in 1..(L + 1) : more[j] = IF j < i THEN list[j] ELSE IF j = i THEN n ELSE list[j - 1]
  BY <1>1, WithFacts
<1>5. DOMAIN K = D /\ K[this] = more /\ \A p \in D \ {this} : K[p] = kids[p]
  OBVIOUS
<1>i. i \in Int /\ 1 <= i /\ i <= L + 1
  BY <1>1
<1> HIDE DEF K, more, list, L, D
<1>t. this \in D /\ n \in D /\ list = kids[this] /\ L = Len(list)
  BY DEF D, list, L
<1>6. /\ before = IF i = 1 THEN NULL ELSE list[i - 1]
      /\ after = IF i = L + 1 THEN NULL ELSE list[i]
  BY <1>1, <1>i DEF Entry
<1>7. /\ before = NULL <=> i = 1
      /\ after = NULL <=> i = L + 1
  BY <1>1, <1>6, <1>i, <1>t
<1>8. \A j \in 1..L : list[j] \in D /\ list[j] # n /\ \A k \in 1..L : list[j] = list[k] => j = k
  BY <1>1, <1>u, <1>t
<1>9. \A j \in 1..L : /\ list[j] = before <=> j = i - 1
                      /\ list[j] = after <=> j = i
  <2>1. SUFFICES ASSUME NEW j \in 1..L PROVE (list[j] = before <=> j = i - 1) /\ (list[j] = after <=> j = i)
    OBVIOUS
  <2>2. list[j] \in D /\ list[j] # NULL
    BY <1>1, <1>8
  <2>3. list[j] = before <=> j = i - 1
    <3>1. CASE i = 1
      BY <1>7, <2>2, <3>1
    <3>2. CASE i # 1
      <4>1. i - 1 \in 1..L /\ before = list[i - 1]
        BY <1>1, <1>6, <1>i, <3>2
      <4>2. QED
        BY <1>8, <4>1
    <3>3. QED
      BY <3>1, <3>2
  <2>4. list[j] = after <=> j = i
    <3>1. CASE i = L + 1
      BY <1>1, <1>7, <2>2, <3>1
    <3>2. CASE i # L + 1
      <4>1. i \in 1..L /\ after = list[i]
        BY <1>1, <1>6, <1>i, <3>2
      <4>2. QED
        BY <1>8, <4>1
    <3>3. QED
      BY <3>1, <3>2
  <2>5. QED
    BY <2>3, <2>4
<1> HIDE DEF before, after
<1>10. ASSUME NEW p \in D
       PROVE  h2[p].firstChild = Entry(K[p], 1) /\ h2[p].lastChild = Entry(K[p], Len(K[p]))
  <2>1. CASE p # this
    BY <1>2, <1>3, <1>5, <2>1
  <2>2. CASE p = this
    <3>1. h2[p].firstChild = Entry(more, 1)
      <4>1. CASE i = 1
        BY <1>1, <1>3, <1>4, <1>7, <1>t, <2>2, <4>1 DEF Entry
      <4>2. CASE i # 1
        <5>1. 1 \in 1..(L + 1) /\ 1 \in 1..L /\ 1 < i /\ before # NULL
          BY <1>1, <1>7, <1>i, <4>2
        <5>2. Entry(more, 1) = list[1] /\ Entry(list, 1) = list[1]
          BY <1>1, <1>4, <5>1 DEF Entry
        <5>3. QED
          BY <1>2, <1>3, <1>t, <2>2, <5>1, <5>2
      <4>3. QED
        BY <4>1, <4>2
    <3>2. h2[p].lastChild = Entry(more, L + 1)
      <4>1. CASE i = L + 1
        BY <1>1, <1>3, <1>4, <1>7, <1>t, <2>2, <4>1 DEF Entry
      <4>2. CASE i # L + 1
        <5>1. L + 1 \in 1..(L + 1) /\ L \in 1..L /\ ~(L + 1 < i) /\ L + 1 # i /\ after # NULL
          BY <1>1, <1>7, <1>i, <4>2
        <5>2. Entry(more, L + 1) = list[L] /\ Entry(list, L) = list[L]
          BY <1>1, <1>4, <5>1 DEF Entry
        <5>3. QED
          BY <1>2, <1>3, <1>t, <2>2, <5>1, <5>2
      <4>3. QED
        BY <4>1, <4>2
    <3>3. QED
      BY <1>4, <1>5, <2>2, <3>1, <3>2
  <2>3. QED
    BY <2>1, <2>2
<1>11. ASSUME NEW p \in D, NEW j \in 1..Len(K[p])
       PROVE  /\ h2[K[p][j]].parent = p
              /\ h2[K[p][j]].prev = Entry(K[p], j - 1)
              /\ h2[K[p][j]].next = Entry(K[p], j + 1)
  <2>1. CASE p # this
    <3>1. K[p] = kids[p] /\ kids[p][j] \in D /\ kids[p][j] # n
      BY <1>1, <1>5, <2>1
    <3>2. \A k \in 1..L : list[k] # kids[p][j]
      BY <1>5, <1>u, <1>t, <2>1
    <3>3. kids[p][j] # before /\ kids[p][j] # after
      <4>1. kids[p][j] # NULL
        BY <1>1, <3>1
      <4>2. i # 1 => i - 1 \in 1..L
        BY <1>1, <1>i
      <4>3. i # L + 1 => i \in 1..L
        BY <1>1, <1>i
      <4>4. QED
        BY <1>6, <3>2, <4>1, <4>2, <4>3
    <3>4. j \in 1..Len(kids[p])
      BY <3>1
    <3>5. /\ h2[kids[p][j]].parent = h[kids[p][j]].parent
          /\ h2[kids[p][j]].prev = h[kids[p][j]].prev
          /\ h2[kids[p][j]].next = h[kids[p][j]].next
      BY <1>3, <3>1, <3>3
    <3>6. /\ h[kids[p][j]].parent = p
          /\ h[kids[p][j]].prev = Entry(kids[p], j - 1)
          /\ h[kids[p][j]].next = Entry(kids[p], j + 1)
      BY <1>2, <3>4
    <3>7. QED
      BY <3>1, <3>5, <3>6
  <2>2. CASE p = this
    <3>1. K[p] = more /\ j \in 1..(L + 1) /\ j \in Int
      BY <1>4, <1>5, <2>2
    <3>2. CASE j = i
      <4>1. K[p][j] = n
        BY <1>4, <3>1, <3>2
      <4>2. h2[n].parent = this /\ h2[n].prev = before /\ h2[n].next = after
        BY <1>3, <1>t
      <4>3. Entry(more, i - 1) = before
        <5>1. CASE i = 1
          BY <1>4, <1>6, <5>1 DEF Entry
        <5>2. CASE i # 1
          <6>1. i - 1 \in 1..(L + 1) /\ i - 1 < i
            BY <1>1, <1>i, <5>2
          <6>2. QED
            BY <1>4, <1>6, <5>2, <6>1 DEF Entry
        <5>3. QED
          BY <5>1, <5>2
      <4>4. Entry(more, i + 1) = after
        <5>1. CASE i = L + 1
          <6>1. i + 1 \notin 1..(L + 1)
            BY <1>1, <5>1
          <6>2. QED
            BY <1>4, <1>6, <5>1, <6>1 DEF Entry
        <5>2. CASE i # L + 1
          <6>1. i + 1 \in 1..(L + 1) /\ ~(i + 1 < i) /\ i + 1 # i /\ i + 1 - 1 = i
            BY <1>1, <1>i, <5>2
          <6>2. QED
            BY <1>4, <1>6, <5>2, <6>1 DEF Entry
        <5>3. QED
          BY <5>1, <5>2
      <4>5. QED
        BY <2>2, <3>1, <3>2, <4>1, <4>2, <4>3, <4>4
    <3>3. CASE j < i
      <4>1. j \in 1..L /\ K[p][j] = list[j] /\ j # i
        BY <1>1, <1>4, <1>i, <3>1, <3>3
      <4>2. /\ list[j] \in D /\ list[j] # n /\ list[j] # after
            /\ list[j] = before <=> j = i - 1
        BY <1>8, <1>9, <4>1
      <4>3. h[list[j]].parent = this /\ h[list[j]].prev = Entry(list, j - 1) /\ h[list[j]].next = Entry(list, j + 1)
        BY <1>2, <1>t, <4>1
      <4>4. Entry(more, j - 1) = Entry(list, j - 1)
        <5>1. CASE j = 1
          BY <1>1, <1>4, <5>1 DEF Entry
        <5>2. CASE j # 1
          <6>1. j - 1 \in 1..L /\ j - 1 \in 1..(L + 1) /\ j - 1 < i
            BY <1>1, <1>i, <3>3, <4>1, <5>2
          <6>2. QED
            BY <1>1, <1>4, <6>1 DEF Entry
        <5>3. QED
          BY <5>1, <5>2
      <4>5. Entry(more, j + 1) = IF j = i - 1 THEN n ELSE Entry(list, j + 1)
        <5>1. CASE j = i - 1
          <6>1. j + 1 = i /\ i \in 1..(L + 1)
            BY <1>1, <1>i, <5>1
          <6>2. QED
            BY <1>4, <5>1, <6>1 DEF Entry
        <5>2. CASE j # i - 1
          <6>1. j + 1 \in 1..L /\ j + 1 \in 1..(L + 1) /\ j + 1 < i
            BY <1>1, <1>i, <3>3, <4>1, <5>2
          <6>2. QED
            BY <1>1, <1>4, <5>2, <6>1 DEF Entry
        <5>3. QED
          BY <5>1, <5>2
      <4>6. QED
        BY <1>3, <2>2, <3>1, <4>1, <4>2, <4>3, <4>4, <4>5
    <3>4. CASE j > i
      <4>1. /\ j - 1 \in 1..L /\ ~(j < i) /\ j # i /\ j - 1 # i - 1 /\ (j - 1 = i <=> j = i + 1)
            /\ j - 1 + 1 = j
        BY <1>1, <1>i, <3>1, <3>4
      <4>a. K[p][j] = list[j - 1]
        BY <1>4, <3>1, <4>1
      <4>2. /\ list[j - 1] \in D /\ list[j - 1] # n /\ list[j - 1] # before
            /\ list[j - 1] = after <=> j = i + 1
        BY <1>8, <1>9, <4>1
      <4>3. /\ h[list[j - 1]].parent = this /\ h[list[j - 1]].prev = Entry(list, j - 1 - 1)
            /\ h[list[j - 1]].next = Entry(list, j)
        BY <1>2, <1>t, <4>1
      <4>4. Entry(more, j + 1) = Entry(list, j)
        <5>1. CASE j = L + 1
          <6>1. j + 1 \notin 1..(L + 1) /\ j \notin 1..L
            BY <1>1, <5>1
          <6>2. QED
            BY <1>1, <1>4, <6>1 DEF Entry
        <5>2. CASE j # L + 1
          <6>1. j \in 1..L /\ j + 1 \in 1..(L + 1) /\ ~(j + 1 < i) /\ j + 1 # i /\ j + 1 - 1 = j
            BY <1>1, <1>i, <3>1, <3>4, <5>2
          <6>2. QED
            BY <1>1, <1>4, <6>1 DEF Entry
        <5>3. QED
          BY <5>1, <5>2
      <4>5. Entry(more, j - 1) = IF j = i + 1 THEN n ELSE Entry(list, j - 1 - 1)
        <5>1. CASE j = i + 1
          <6>1. j - 1 = i /\ i \in 1..(L + 1)
            BY <1>1, <1>i, <5>1
          <6>2. QED
            BY <1>4, <5>1, <6>1 DEF Entry
        <5>2. CASE j # i + 1
          <6>1. j - 1 \in 1..(L + 1) /\ ~(j - 1 < i) /\ j - 1 # i /\ j - 1 - 1 \in 1..L
            BY <1>1, <1>i, <3>1, <3>4, <5>2
          <6>2. QED
            BY <1>1, <1>4, <5>2, <6>1 DEF Entry
        <5>3. QED
          BY <5>1, <5>2
      <4>6. QED
        BY <1>3, <2>2, <3>1, <4>a, <4>2, <4>3, <4>4, <4>5
    <3>5. QED
      BY <1>i, <3>1, <3>2, <3>3, <3>4
  <2>3. QED
    BY <2>1, <2>2
<1>12. Links(h2, K)
  BY <1>3, <1>5, <1>10, <1>11 DEF Links
<1>13. QED
  BY <1>12 DEF K, more, list

\* h2 is h where those beside the child point to each other, without the nodes of U.
Bridged(h, h2, this, child, U) ==
  LET before == h[child].prev
      after  == h[child].next
  IN
  /\ DOMAIN h2 = DOMAIN h \ U
  /\ \A m \in DOMAIN h2 :
       /\ h2[m].parent = h[m].parent
       /\ h2[m].prev = IF m = after THEN before ELSE h[m].prev
       /\ h2[m].next = IF m = before THEN after ELSE h[m].next
       /\ h2[m].firstChild = IF m = this /\ before = NULL THEN after ELSE h[m].firstChild
       /\ h2[m].lastChild = IF m = this /\ after = NULL THEN before ELSE h[m].lastChild
       /\ h2[m].type = h[m].type /\ h2[m].value = h[m].value /\ h2[m].attrs = h[m].attrs

\* The links that bridge a gap are those of the lists without it.
LEMMA BridgeLinks ==
  ASSUME NEW h, NEW kids, NEW root, IsTree(kids, root), Links(h, kids),
         NEW this \in DOMAIN kids, NEW i \in 1..Len(kids[this]),
         NEW h2, Bridged(h, h2, this, kids[this][i], Under(kids, kids[this][i]))
  PROVE  Links(h2, Cut(kids, this, i))
<1> DEFINE D    == DOMAIN kids
           list == kids[this]
           L    == Len(list)
           child == list[i]
           U    == Under(kids, child)
           less == Without(list, i)
           K    == Cut(kids, this, i)
           before == Entry(list, i - 1)
           after  == Entry(list, i + 1)
<1>f. Forest(kids)
  BY TreeForest
<1>1. /\ L \in Nat /\ DOMAIN list = 1..L
      /\ \A p \in D : /\ Len(kids[p]) \in Nat /\ DOMAIN kids[p] = 1..Len(kids[p])
                      /\ \A j \in 1..Len(kids[p]) : kids[p][j] \in D
      /\ D \subseteq Node /\ NULL \notin D
  BY <1>f, NodeNumbers DEF Forest
<1>u. \A p, q \in D : \A j \in 1..Len(kids[p]), k \in 1..Len(kids[q]) :
         kids[p][j] = kids[q][k] => p = q /\ j = k
  BY <1>f DEF Forest
<1>2. /\ DOMAIN h = D
      /\ \A p \in D : h[p].firstChild = Entry(kids[p], 1) /\ h[p].lastChild = Entry(kids[p], Len(kids[p]))
      /\ \A p \in D : \A j \in 1..Len(kids[p]) :
           /\ h[kids[p][j]].parent = p
           /\ h[kids[p][j]].prev = Entry(kids[p], j - 1)
           /\ h[kids[p][j]].next = Entry(kids[p], j + 1)
  BY DEF Links
<1>b. h[child].prev = before /\ h[child].next = after
  BY <1>2
<1>3. /\ DOMAIN h2 = D \ U
      /\ \A m \in D \ U :
           /\ h2[m].parent = h[m].parent
           /\ h2[m].prev = IF m = after THEN before ELSE h[m].prev
           /\ h2[m].next = IF m = before THEN after ELSE h[m].next
           /\ h2[m].firstChild = IF m = this /\ before = NULL THEN after ELSE h[m].firstChild
           /\ h2[m].lastChild = IF m = this /\ after = NULL THEN before ELSE h[m].lastChild
  BY <1>2, <1>b DEF Bridged
<1>4. /\ Len(less) = L - 1 /\ DOMAIN less = 1..(L - 1)
      /\ \A j \in 1..(L - 1) : less[j] = IF j < i THEN list[j] ELSE list[j + 1]
  BY <1>1, WithoutFacts
<1>5. DOMAIN K = D \ U /\ this \in D \ U /\ K[this] = less /\ \A p \in (D \ U) \ {this} : K[p] = kids[p]
  BY CutTree DEF Cut
<1>i. i \in Int /\ 1 <= i /\ i <= L
  BY <1>1
<1>s. IsTree(K, root)
  BY CutTree
<1>k. \A p \in D \ U : \A j \in 1..Len(K[p]) : K[p][j] \in D \ U
  BY <1>5, <1>s, TreeFacts
<1> HIDE DEF K, less, list, L, D, U, child
<1>t. list = kids[this] /\ L = Len(list) /\ child = list[i] /\ this \in D
  BY DEF D, list, L, child
<1>6. /\ before = IF i = 1 THEN NULL ELSE list[i - 1]
      /\ after = IF i = L THEN NULL ELSE list[i + 1]
  <2>1. i - 1 \in 1..L <=> i # 1
    BY <1>1, <1>i
  <2>2. i + 1 \in 1..L <=> i # L
    BY <1>1, <1>i
  <2>3. QED
    BY <1>1, <2>1, <2>2 DEF Entry
<1>8. \A j \in 1..L : list[j] \in D /\ \A k \in 1..L : list[j] = list[k] => j = k
  BY <1>1, <1>u, <1>t
<1>7. /\ before = NULL <=> i = 1
      /\ after = NULL <=> i = L
  <2>1. i # 1 => i - 1 \in 1..L
    BY <1>1, <1>i
  <2>2. i # L => i + 1 \in 1..L
    BY <1>1, <1>i
  <2>3. QED
    BY <1>1, <1>6, <1>8, <2>1, <2>2
<1>9. ASSUME NEW j \in 1..L
      PROVE  (list[j] = before <=> j = i - 1) /\ (list[j] = after <=> j = i + 1)
  <2>2. list[j] \in D /\ list[j] # NULL /\ j \in Int
    BY <1>1, <1>8
  <2>3. list[j] = before <=> j = i - 1
    <3>1. CASE i = 1
      BY <1>7, <2>2, <3>1
    <3>2. CASE i # 1
      <4>1. i - 1 \in 1..L /\ before = list[i - 1]
        BY <1>1, <1>6, <1>i, <3>2
      <4>2. QED
        BY <1>8, <4>1
    <3>3. QED
      BY <3>1, <3>2
  <2>4. list[j] = after <=> j = i + 1
    <3>1. CASE i = L
      BY <1>1, <1>7, <2>2, <3>1
    <3>2. CASE i # L
      <4>1. i + 1 \in 1..L /\ after = list[i + 1]
        BY <1>1, <1>6, <1>i, <3>2
      <4>2. QED
        BY <1>8, <4>1
    <3>3. QED
      BY <3>1, <3>2
  <2>5. QED
    BY <2>3, <2>4
<1> HIDE DEF before, after
<1>10. ASSUME NEW p \in D \ U
       PROVE  h2[p].firstChild = Entry(K[p], 1) /\ h2[p].lastChild = Entry(K[p], Len(K[p]))
  <2>1. CASE p # this
    <3>1. h2[p].firstChild = h[p].firstChild /\ h2[p].lastChild = h[p].lastChild /\ K[p] = kids[p]
      BY <1>3, <1>5, <2>1
    <3>2. QED
      BY <1>2, <3>1
  <2>2. CASE p = this
    <3>1. h2[p].firstChild = Entry(less, 1)
      <4>1. CASE i = 1
        <5>1. h2[p].firstChild = after
          BY <1>3, <1>7, <2>2, <4>1
        <5>2. CASE L = 1
          BY <1>1, <1>4, <1>7, <4>1, <5>1, <5>2 DEF Entry
        <5>3. CASE L # 1
          <6>1. 1 \in 1..(L - 1) /\ ~(1 < i) /\ after = list[2] /\ 1 + 1 = 2
            BY <1>1, <1>6, <1>i, <4>1, <5>3
          <6>2. QED
            BY <1>4, <5>1, <6>1 DEF Entry
        <5>4. QED
          BY <5>2, <5>3
      <4>2. CASE i # 1
        <5>1. 1 \in 1..(L - 1) /\ 1 \in 1..L /\ 1 < i /\ before # NULL
          BY <1>1, <1>7, <1>i, <4>2
        <5>2. Entry(less, 1) = list[1] /\ Entry(list, 1) = list[1]
          BY <1>1, <1>4, <5>1 DEF Entry
        <5>3. QED
          BY <1>2, <1>3, <1>t, <2>2, <5>1, <5>2
      <4>3. QED
        BY <4>1, <4>2
    <3>2. h2[p].lastChild = Entry(less, L - 1)
      <4>1. CASE i = L
        <5>1. h2[p].lastChild = before
          BY <1>3, <1>7, <2>2, <4>1
        <5>2. CASE L = 1
          BY <1>1, <1>4, <1>7, <4>1, <5>1, <5>2 DEF Entry
        <5>3. CASE L # 1
          <6>1. L - 1 \in 1..(L - 1) /\ L - 1 < i /\ before = list[L - 1]
            BY <1>1, <1>6, <1>i, <4>1, <5>3
          <6>2. QED
            BY <1>4, <5>1, <6>1 DEF Entry
        <5>4. QED
          BY <5>2, <5>3
      <4>2. CASE i # L
        <5>1. L - 1 \in 1..(L - 1) /\ L \in 1..L /\ ~(L - 1 < i) /\ L - 1 + 1 = L /\ after # NULL
          BY <1>1, <1>7, <1>i, <4>2
        <5>2. Entry(less, L - 1) = list[L] /\ Entry(list, L) = list[L]
          BY <1>1, <1>4, <5>1 DEF Entry
        <5>3. QED
          BY <1>2, <1>3, <1>t, <2>2, <5>1, <5>2
      <4>3. QED
        BY <4>1, <4>2
    <3>3. QED
      BY <1>4, <1>5, <2>2, <3>1, <3>2
  <2>3. QED
    BY <2>1, <2>2
<1>11. ASSUME NEW p \in D \ U, NEW j \in 1..Len(K[p])
       PROVE  /\ h2[K[p][j]].parent = p
              /\ h2[K[p][j]].prev = Entry(K[p], j - 1)
              /\ h2[K[p][j]].next = Entry(K[p], j + 1)
  <2>k. K[p][j] \in D \ U
    BY <1>k
  <2>1. CASE p # this
    <3>1. K[p] = kids[p] /\ kids[p][j] \in D \ U
      BY <1>1, <1>5, <2>1, <2>k
    <3>2. \A k \in 1..L : list[k] # kids[p][j]
      BY <1>5, <1>u, <1>t, <2>1
    <3>3. kids[p][j] # before /\ kids[p][j] # after
      <4>1. kids[p][j] # NULL
        BY <1>1, <3>1
      <4>2. i # 1 => i - 1 \in 1..L
        BY <1>1, <1>i
      <4>3. i # L => i + 1 \in 1..L
        BY <1>1, <1>i
      <4>4. QED
        BY <1>6, <3>2, <4>1, <4>2, <4>3
    <3>4. j \in 1..Len(kids[p])
      BY <3>1
    <3>5. /\ h2[kids[p][j]].parent = h[kids[p][j]].parent
          /\ h2[kids[p][j]].prev = h[kids[p][j]].prev
          /\ h2[kids[p][j]].next = h[kids[p][j]].next
      BY <1>3, <3>1, <3>3
    <3>6. /\ h[kids[p][j]].parent = p
          /\ h[kids[p][j]].prev = Entry(kids[p], j - 1)
          /\ h[kids[p][j]].next = Entry(kids[p], j + 1)
      BY <1>2, <3>4
    <3>7. QED
      BY <3>1, <3>5, <3>6
  <2>2. CASE p = this
    <3>1. K[p] = less /\ j \in 1..(L - 1) /\ j \in Int
      BY <1>4, <1>5, <2>2
    <3>3. CASE j < i
      <4>1. j \in 1..L /\ K[p][j] = list[j] /\ (j = i + 1 <=> FALSE)
        BY <1>1, <1>4, <1>i, <3>1, <3>3
      <4>2. /\ list[j] \in D \ U /\ list[j] # after
            /\ list[j] = before <=> j = i - 1
        BY <1>9, <2>k, <4>1
      <4>3. h[list[j]].parent = this /\ h[list[j]].prev = Entry(list, j - 1) /\ h[list[j]].next = Entry(list, j + 1)
        BY <1>2, <1>t, <4>1
      <4>4. Entry(less, j - 1) = Entry(list, j - 1)
        <5>1. CASE j = 1
          BY <1>1, <1>4, <5>1 DEF Entry
        <5>2. CASE j # 1
          <6>1. j - 1 \in 1..L /\ j - 1 \in 1..(L - 1) /\ j - 1 < i
            BY <1>1, <1>i, <3>1, <3>3, <4>1, <5>2
          <6>2. QED
            BY <1>1, <1>4, <6>1 DEF Entry
        <5>3. QED
          BY <5>1, <5>2
      <4>5. Entry(less, j + 1) = IF j = i - 1 THEN after ELSE Entry(list, j + 1)
        <5>1. CASE j = i - 1
          <6>1. CASE i = L
            <7>1. j + 1 \notin 1..(L - 1)
              BY <1>1, <5>1, <6>1
            <7>2. QED
              BY <1>4, <1>7, <5>1, <6>1, <7>1 DEF Entry
          <6>2. CASE i # L
            <7>1. j + 1 = i /\ i \in 1..(L - 1) /\ ~(i < i)
              BY <1>1, <1>i, <5>1, <6>2
            <7>2. QED
              BY <1>4, <1>6, <5>1, <6>2, <7>1 DEF Entry
          <6>3. QED
            BY <6>1, <6>2
        <5>2. CASE j # i - 1
          <6>1. j + 1 \in 1..L /\ j + 1 \in 1..(L - 1) /\ j + 1 < i
            BY <1>1, <1>i, <3>3, <4>1, <5>2
          <6>2. QED
            BY <1>1, <1>4, <5>2, <6>1 DEF Entry
        <5>3. QED
          BY <5>1, <5>2
      <4>6. QED
        BY <1>3, <2>2, <3>1, <4>1, <4>2, <4>3, <4>4, <4>5
    <3>4. CASE j >= i
      <4>1. /\ j + 1 \in 1..L /\ ~(j < i) /\ j + 1 # i - 1 /\ (j + 1 = i + 1 <=> j = i)
            /\ j + 1 - 1 = j /\ j + 1 + 1 = j + 2
        BY <1>1, <1>i, <3>1, <3>4
      <4>a. K[p][j] = list[j + 1]
        BY <1>4, <3>1, <4>1
      <4>2. /\ list[j + 1] \in D \ U /\ list[j + 1] # before
            /\ list[j + 1] = after <=> j = i
        BY <1>9, <2>k, <4>1, <4>a
      <4>3. /\ h[list[j + 1]].parent = this /\ h[list[j + 1]].prev = Entry(list, j)
            /\ h[list[j + 1]].next = Entry(list, j + 2)
        BY <1>2, <1>t, <4>1
      <4>4. Entry(less, j + 1) = Entry(list, j + 2)
        <5>1. CASE j = L - 1
          <6>1. j + 1 \notin 1..(L - 1) /\ j + 2 \notin 1..L
            BY <1>1, <5>1
          <6>2. QED
            BY <1>1, <1>4, <6>1 DEF Entry
        <5>2. CASE j # L - 1
          <6>1. j + 1 \in 1..(L - 1) /\ j + 2 \in 1..L /\ ~(j + 1 < i) /\ j + 1 + 1 = j + 2
            BY <1>1, <1>i, <3>1, <3>4, <5>2
          <6>2. QED
            BY <1>1, <1>4, <6>1 DEF Entry
        <5>3. QED
          BY <5>1, <5>2
      <4>5. Entry(less, j - 1) = IF j = i THEN before ELSE Entry(list, j)
        <5>1. CASE j = i
          <6>1. CASE i = 1
            BY <1>4, <1>7, <5>1, <6>1 DEF Entry
          <6>2. CASE i # 1
            <7>1. j - 1 \in 1..(L - 1) /\ j - 1 < i /\ j - 1 = i - 1
              BY <1>1, <1>i, <3>1, <5>1, <6>2
            <7>2. QED
              BY <1>4, <1>6, <5>1, <6>2, <7>1 DEF Entry
          <6>3. QED
            BY <6>1, <6>2
        <5>2. CASE j # i
          <6>1. j - 1 \in 1..(L - 1) /\ ~(j - 1 < i) /\ j - 1 + 1 = j /\ j \in 1..L
            BY <1>1, <1>i, <3>1, <3>4, <5>2
          <6>2. QED
            BY <1>1, <1>4, <5>2, <6>1 DEF Entry
        <5>3. QED
          BY <5>1, <5>2
      <4>6. QED
        BY <1>3, <2>2, <3>1, <4>a, <4>2, <4>3, <4>4, <4>5
    <3>5. QED
      BY <1>i, <3>1, <3>3, <3>4
  <2>3. QED
    BY <2>1, <2>2
<1>12. Links(h2, K)
  BY <1>3, <1>5, <1>10, <1>11 DEF Links
<1>13. QED
  BY <1>12 DEF K

-----------------------------------------------------------------------------
(* The heap of each operation                                              *)

IsHeap(h, T, V, A) == DOMAIN h \subseteq Node /\ h \in [DOMAIN h -> Record(T, V, A)]

\* g is h after an assignment to a pointer of n.
ParentSet(h, g, n, x) == g = [h EXCEPT ![n].parent = x]
PrevSet(h, g, n, x) == g = [h EXCEPT ![n].prev = x]
NextSet(h, g, n, x) == g = [h EXCEPT ![n].next = x]
FirstChildSet(h, g, n, x) == g = [h EXCEPT ![n].firstChild = x]
LastChildSet(h, g, n, x) == g = [h EXCEPT ![n].lastChild = x]

\* Such an assignment changes that pointer alone.
LEMMA SetParent ==
  ASSUME NEW T, NEW V, NEW A, NEW h, IsHeap(h, T, V, A), NEW n \in DOMAIN h, NEW x \in Pointer,
         NEW g, ParentSet(h, g, n, x)
  PROVE
         /\ IsHeap(g, T, V, A) /\ DOMAIN g = DOMAIN h
         /\ \A m \in DOMAIN h :
              /\ g[m].parent = (IF m = n THEN x ELSE h[m].parent)
              /\ g[m].prev = h[m].prev /\ g[m].next = h[m].next
              /\ g[m].firstChild = h[m].firstChild /\ g[m].lastChild = h[m].lastChild
              /\ g[m].type = h[m].type /\ g[m].value = h[m].value /\ g[m].attrs = h[m].attrs
BY DEF IsHeap, Record, ParentSet

\* prev is set, and nothing else.
LEMMA SetPrev ==
  ASSUME NEW T, NEW V, NEW A, NEW h, IsHeap(h, T, V, A), NEW n \in DOMAIN h, NEW x \in Pointer,
         NEW g, PrevSet(h, g, n, x)
  PROVE
         /\ IsHeap(g, T, V, A) /\ DOMAIN g = DOMAIN h
         /\ \A m \in DOMAIN h :
              /\ g[m].prev = (IF m = n THEN x ELSE h[m].prev)
              /\ g[m].parent = h[m].parent /\ g[m].next = h[m].next
              /\ g[m].firstChild = h[m].firstChild /\ g[m].lastChild = h[m].lastChild
              /\ g[m].type = h[m].type /\ g[m].value = h[m].value /\ g[m].attrs = h[m].attrs
BY DEF IsHeap, Record, PrevSet

\* next is set, and nothing else.
LEMMA SetNext ==
  ASSUME NEW T, NEW V, NEW A, NEW h, IsHeap(h, T, V, A), NEW n \in DOMAIN h, NEW x \in Pointer,
         NEW g, NextSet(h, g, n, x)
  PROVE
         /\ IsHeap(g, T, V, A) /\ DOMAIN g = DOMAIN h
         /\ \A m \in DOMAIN h :
              /\ g[m].next = (IF m = n THEN x ELSE h[m].next)
              /\ g[m].parent = h[m].parent /\ g[m].prev = h[m].prev
              /\ g[m].firstChild = h[m].firstChild /\ g[m].lastChild = h[m].lastChild
              /\ g[m].type = h[m].type /\ g[m].value = h[m].value /\ g[m].attrs = h[m].attrs
BY DEF IsHeap, Record, NextSet

\* firstChild is set, and nothing else.
LEMMA SetFirstChild ==
  ASSUME NEW T, NEW V, NEW A, NEW h, IsHeap(h, T, V, A), NEW n \in DOMAIN h, NEW x \in Pointer,
         NEW g, FirstChildSet(h, g, n, x)
  PROVE
         /\ IsHeap(g, T, V, A) /\ DOMAIN g = DOMAIN h
         /\ \A m \in DOMAIN h :
              /\ g[m].firstChild = (IF m = n THEN x ELSE h[m].firstChild)
              /\ g[m].parent = h[m].parent /\ g[m].prev = h[m].prev /\ g[m].next = h[m].next
              /\ g[m].lastChild = h[m].lastChild
              /\ g[m].type = h[m].type /\ g[m].value = h[m].value /\ g[m].attrs = h[m].attrs
BY DEF IsHeap, Record, FirstChildSet

\* lastChild is set, and nothing else.
LEMMA SetLastChild ==
  ASSUME NEW T, NEW V, NEW A, NEW h, IsHeap(h, T, V, A), NEW n \in DOMAIN h, NEW x \in Pointer,
         NEW g, LastChildSet(h, g, n, x)
  PROVE
         /\ IsHeap(g, T, V, A) /\ DOMAIN g = DOMAIN h
         /\ \A m \in DOMAIN h :
              /\ g[m].lastChild = (IF m = n THEN x ELSE h[m].lastChild)
              /\ g[m].parent = h[m].parent /\ g[m].prev = h[m].prev /\ g[m].next = h[m].next
              /\ g[m].firstChild = h[m].firstChild
              /\ g[m].type = h[m].type /\ g[m].value = h[m].value /\ g[m].attrs = h[m].attrs
BY DEF IsHeap, Record, LastChildSet

\* LinkEndChild links behind the last child, LinkBefore and LinkAfter beside a child.
LEMMA EndSplice ==
  ASSUME NEW T, NEW V, NEW A, NEW h, IsHeap(h, T, V, A), NEW this \in DOMAIN h,
         NEW n \in DOMAIN h, NEW last \in DOMAIN h \cup {NULL}, h[this].lastChild = last, last # n
  PROVE  LET g == LinkEndChild(h, this, n) IN
         IsHeap(g, T, V, A) /\ Spliced(h, g, this, last, NULL, n)
<1> DEFINE h1 == [h EXCEPT ![n].parent = this]
           h2 == [h1 EXCEPT ![n].prev = last]
           h3 == [h2 EXCEPT ![n].next = NULL]
           h4 == IF last # NULL THEN [h3 EXCEPT ![last].next = n] ELSE [h3 EXCEPT ![this].firstChild = n]
           h5 == [h4 EXCEPT ![this].lastChild = n]
<1>0. this \in Pointer /\ last \in Pointer /\ n \in Pointer /\ NULL \in Pointer /\ NULL \notin DOMAIN h
  BY NodeNumbers DEF IsHeap, Pointer
<1>1. LinkEndChild(h, this, n) = h5
  BY DEF LinkEndChild
<1>2a. ParentSet(h, h1, n, this)
  BY DEF ParentSet
<1> HIDE DEF h1
<1>2. /\ IsHeap(h1, T, V, A) /\ DOMAIN h1 = DOMAIN h
      /\ \A m \in DOMAIN h :
           /\ h1[m].parent = (IF m = n THEN this ELSE h[m].parent)
           /\ h1[m].prev = h[m].prev /\ h1[m].next = h[m].next /\ h1[m].firstChild = h[m].firstChild
           /\ h1[m].lastChild = h[m].lastChild /\ h1[m].type = h[m].type /\ h1[m].value = h[m].value /\ h1[m].attrs = h[m].attrs
  BY <1>0, <1>2a, SetParent
<1>3a. PrevSet(h1, h2, n, last)
  BY DEF PrevSet
<1> HIDE DEF h2
<1>3. /\ IsHeap(h2, T, V, A) /\ DOMAIN h2 = DOMAIN h
      /\ \A m \in DOMAIN h :
           /\ h2[m].prev = (IF m = n THEN last ELSE h1[m].prev)
           /\ h2[m].parent = h1[m].parent /\ h2[m].next = h1[m].next /\ h2[m].firstChild = h1[m].firstChild
           /\ h2[m].lastChild = h1[m].lastChild /\ h2[m].type = h1[m].type /\ h2[m].value = h1[m].value /\ h2[m].attrs = h1[m].attrs
  BY <1>0, <1>2, <1>3a, SetPrev
<1>4a. NextSet(h2, h3, n, NULL)
  BY DEF NextSet
<1> HIDE DEF h3
<1>4. /\ IsHeap(h3, T, V, A) /\ DOMAIN h3 = DOMAIN h
      /\ \A m \in DOMAIN h :
           /\ h3[m].next = (IF m = n THEN NULL ELSE h2[m].next)
           /\ h3[m].parent = h2[m].parent /\ h3[m].prev = h2[m].prev /\ h3[m].firstChild = h2[m].firstChild
           /\ h3[m].lastChild = h2[m].lastChild /\ h3[m].type = h2[m].type /\ h3[m].value = h2[m].value /\ h3[m].attrs = h2[m].attrs
  BY <1>0, <1>3, <1>4a, SetNext
<1>5. /\ IsHeap(h4, T, V, A) /\ DOMAIN h4 = DOMAIN h
      /\ \A m \in DOMAIN h :
           /\ h4[m].next = (IF m = last THEN n ELSE h3[m].next)
           /\ h4[m].firstChild = (IF m = this /\ last = NULL THEN n ELSE h3[m].firstChild)
           /\ h4[m].parent = h3[m].parent /\ h4[m].prev = h3[m].prev
           /\ h4[m].lastChild = h3[m].lastChild
           /\ h4[m].type = h3[m].type /\ h4[m].value = h3[m].value /\ h4[m].attrs = h3[m].attrs
  <2>1. CASE last # NULL
    <3>1. NextSet(h3, h4, last, n) /\ last \in DOMAIN h3
      BY <1>4, <2>1 DEF NextSet
    <3> HIDE DEF h4
    <3>2. QED
      BY <1>0, <1>4, <2>1, <3>1, SetNext
  <2>2. CASE last = NULL
    <3>1. FirstChildSet(h3, h4, this, n) /\ this \in DOMAIN h3
      BY <1>4, <2>2 DEF FirstChildSet
    <3> HIDE DEF h4
    <3>2. QED
      BY <1>0, <1>4, <2>2, <3>1, SetFirstChild
  <2>3. QED
    BY <2>1, <2>2
<1> HIDE DEF h4
<1>6a. LastChildSet(h4, h5, this, n)
  BY DEF LastChildSet
<1> HIDE DEF h5
<1>6. /\ IsHeap(h5, T, V, A) /\ DOMAIN h5 = DOMAIN h
      /\ \A m \in DOMAIN h :
           /\ h5[m].lastChild = (IF m = this THEN n ELSE h4[m].lastChild)
           /\ h5[m].parent = h4[m].parent /\ h5[m].prev = h4[m].prev /\ h5[m].next = h4[m].next
           /\ h5[m].firstChild = h4[m].firstChild /\ h5[m].type = h4[m].type /\ h5[m].value = h4[m].value /\ h5[m].attrs = h4[m].attrs
  BY <1>0, <1>5, <1>6a, SetLastChild
<1>7. Spliced(h, h5, this, last, NULL, n)
  BY <1>0, <1>2, <1>3, <1>4, <1>5, <1>6 DEF Spliced
<1>8. QED
  BY <1>1, <1>6, <1>7

\* LinkBefore splices a node in before at.
LEMMA BeforeSplice ==
  ASSUME NEW T, NEW V, NEW A, NEW h, IsHeap(h, T, V, A), NEW this \in DOMAIN h,
         NEW n \in DOMAIN h, NEW at \in DOMAIN h, NEW before \in DOMAIN h \cup {NULL},
         h[at].prev = before, before # n, at # n
  PROVE  LET g == LinkBefore(h, this, at, n) IN
         IsHeap(g, T, V, A) /\ Spliced(h, g, this, before, at, n)
<1> DEFINE h1 == [h EXCEPT ![n].parent = this]
           h2 == [h1 EXCEPT ![n].next = at]
           h3 == [h2 EXCEPT ![n].prev = before]
           h4 == IF before # NULL THEN [h3 EXCEPT ![before].next = n]
                 ELSE [h3 EXCEPT ![this].firstChild = n]
           h5 == [h4 EXCEPT ![at].prev = n]
<1>0. /\ this \in Pointer /\ before \in Pointer /\ n \in Pointer /\ at \in Pointer
      /\ NULL \notin DOMAIN h
  BY NodeNumbers DEF IsHeap, Pointer
<1>1. LinkBefore(h, this, at, n) = h5
  BY DEF LinkBefore
<1>2a. ParentSet(h, h1, n, this)
  BY DEF ParentSet
<1> HIDE DEF h1
<1>2. /\ IsHeap(h1, T, V, A) /\ DOMAIN h1 = DOMAIN h
      /\ \A m \in DOMAIN h :
           /\ h1[m].parent = (IF m = n THEN this ELSE h[m].parent)
           /\ h1[m].prev = h[m].prev /\ h1[m].next = h[m].next /\ h1[m].firstChild = h[m].firstChild
           /\ h1[m].lastChild = h[m].lastChild /\ h1[m].type = h[m].type /\ h1[m].value = h[m].value /\ h1[m].attrs = h[m].attrs
  BY <1>0, <1>2a, SetParent
<1>3a. NextSet(h1, h2, n, at)
  BY DEF NextSet
<1> HIDE DEF h2
<1>3. /\ IsHeap(h2, T, V, A) /\ DOMAIN h2 = DOMAIN h
      /\ \A m \in DOMAIN h :
           /\ h2[m].next = (IF m = n THEN at ELSE h1[m].next)
           /\ h2[m].parent = h1[m].parent /\ h2[m].prev = h1[m].prev /\ h2[m].firstChild = h1[m].firstChild
           /\ h2[m].lastChild = h1[m].lastChild /\ h2[m].type = h1[m].type /\ h2[m].value = h1[m].value /\ h2[m].attrs = h1[m].attrs
  BY <1>0, <1>2, <1>3a, SetNext
<1>4a. PrevSet(h2, h3, n, before)
  BY DEF PrevSet
<1> HIDE DEF h3
<1>4. /\ IsHeap(h3, T, V, A) /\ DOMAIN h3 = DOMAIN h
      /\ \A m \in DOMAIN h :
           /\ h3[m].prev = (IF m = n THEN before ELSE h2[m].prev)
           /\ h3[m].parent = h2[m].parent /\ h3[m].next = h2[m].next /\ h3[m].firstChild = h2[m].firstChild
           /\ h3[m].lastChild = h2[m].lastChild /\ h3[m].type = h2[m].type /\ h3[m].value = h2[m].value /\ h3[m].attrs = h2[m].attrs
  BY <1>0, <1>3, <1>4a, SetPrev
<1>5. /\ IsHeap(h4, T, V, A) /\ DOMAIN h4 = DOMAIN h
      /\ \A m \in DOMAIN h :
           /\ h4[m].next = (IF m = before THEN n ELSE h3[m].next)
           /\ h4[m].firstChild = (IF m = this /\ before = NULL THEN n ELSE h3[m].firstChild)
           /\ h4[m].parent = h3[m].parent /\ h4[m].prev = h3[m].prev
           /\ h4[m].lastChild = h3[m].lastChild
           /\ h4[m].type = h3[m].type /\ h4[m].value = h3[m].value /\ h4[m].attrs = h3[m].attrs
  <2>1. CASE before # NULL
    <3>1. NextSet(h3, h4, before, n) /\ before \in DOMAIN h3
      BY <1>4, <2>1 DEF NextSet
    <3> HIDE DEF h4
    <3>2. QED
      BY <1>0, <1>4, <2>1, <3>1, SetNext
  <2>2. CASE before = NULL
    <3>1. FirstChildSet(h3, h4, this, n) /\ this \in DOMAIN h3
      BY <1>4, <2>2 DEF FirstChildSet
    <3> HIDE DEF h4
    <3>2. QED
      BY <1>0, <1>4, <2>2, <3>1, SetFirstChild
  <2>3. QED
    BY <2>1, <2>2
<1> HIDE DEF h4
<1>6a. PrevSet(h4, h5, at, n)
  BY DEF PrevSet
<1> HIDE DEF h5
<1>6. /\ IsHeap(h5, T, V, A) /\ DOMAIN h5 = DOMAIN h
      /\ \A m \in DOMAIN h :
           /\ h5[m].prev = (IF m = at THEN n ELSE h4[m].prev)
           /\ h5[m].parent = h4[m].parent /\ h5[m].next = h4[m].next /\ h5[m].firstChild = h4[m].firstChild
           /\ h5[m].lastChild = h4[m].lastChild /\ h5[m].type = h4[m].type /\ h5[m].value = h4[m].value /\ h5[m].attrs = h4[m].attrs
  BY <1>0, <1>5, <1>6a, SetPrev
<1>7. Spliced(h, h5, this, before, at, n)
  BY <1>0, <1>2, <1>3, <1>4, <1>5, <1>6 DEF Spliced
<1>8. QED
  BY <1>1, <1>6, <1>7

\* LinkAfter splices a node in behind at.
LEMMA AfterSplice ==
  ASSUME NEW T, NEW V, NEW A, NEW h, IsHeap(h, T, V, A), NEW this \in DOMAIN h,
         NEW n \in DOMAIN h, NEW at \in DOMAIN h, NEW after \in DOMAIN h \cup {NULL},
         h[at].next = after, after # n, at # n
  PROVE  LET g == LinkAfter(h, this, at, n) IN
         IsHeap(g, T, V, A) /\ Spliced(h, g, this, at, after, n)
<1> DEFINE h1 == [h EXCEPT ![n].parent = this]
           h2 == [h1 EXCEPT ![n].prev = at]
           h3 == [h2 EXCEPT ![n].next = after]
           h4 == IF after # NULL THEN [h3 EXCEPT ![after].prev = n]
                 ELSE [h3 EXCEPT ![this].lastChild = n]
           h5 == [h4 EXCEPT ![at].next = n]
<1>0. /\ this \in Pointer /\ after \in Pointer /\ n \in Pointer /\ at \in Pointer
      /\ NULL \notin DOMAIN h
  BY NodeNumbers DEF IsHeap, Pointer
<1>1. LinkAfter(h, this, at, n) = h5
  BY DEF LinkAfter
<1>2a. ParentSet(h, h1, n, this)
  BY DEF ParentSet
<1> HIDE DEF h1
<1>2. /\ IsHeap(h1, T, V, A) /\ DOMAIN h1 = DOMAIN h
      /\ \A m \in DOMAIN h :
           /\ h1[m].parent = (IF m = n THEN this ELSE h[m].parent)
           /\ h1[m].prev = h[m].prev /\ h1[m].next = h[m].next /\ h1[m].firstChild = h[m].firstChild
           /\ h1[m].lastChild = h[m].lastChild /\ h1[m].type = h[m].type /\ h1[m].value = h[m].value /\ h1[m].attrs = h[m].attrs
  BY <1>0, <1>2a, SetParent
<1>3a. PrevSet(h1, h2, n, at)
  BY DEF PrevSet
<1> HIDE DEF h2
<1>3. /\ IsHeap(h2, T, V, A) /\ DOMAIN h2 = DOMAIN h
      /\ \A m \in DOMAIN h :
           /\ h2[m].prev = (IF m = n THEN at ELSE h1[m].prev)
           /\ h2[m].parent = h1[m].parent /\ h2[m].next = h1[m].next /\ h2[m].firstChild = h1[m].firstChild
           /\ h2[m].lastChild = h1[m].lastChild /\ h2[m].type = h1[m].type /\ h2[m].value = h1[m].value /\ h2[m].attrs = h1[m].attrs
  BY <1>0, <1>2, <1>3a, SetPrev
<1>4a. NextSet(h2, h3, n, after)
  BY DEF NextSet
<1> HIDE DEF h3
<1>4. /\ IsHeap(h3, T, V, A) /\ DOMAIN h3 = DOMAIN h
      /\ \A m \in DOMAIN h :
           /\ h3[m].next = (IF m = n THEN after ELSE h2[m].next)
           /\ h3[m].parent = h2[m].parent /\ h3[m].prev = h2[m].prev /\ h3[m].firstChild = h2[m].firstChild
           /\ h3[m].lastChild = h2[m].lastChild /\ h3[m].type = h2[m].type /\ h3[m].value = h2[m].value /\ h3[m].attrs = h2[m].attrs
  BY <1>0, <1>3, <1>4a, SetNext
<1>5. /\ IsHeap(h4, T, V, A) /\ DOMAIN h4 = DOMAIN h
      /\ \A m \in DOMAIN h :
           /\ h4[m].prev = (IF m = after THEN n ELSE h3[m].prev)
           /\ h4[m].lastChild = (IF m = this /\ after = NULL THEN n ELSE h3[m].lastChild)
           /\ h4[m].parent = h3[m].parent /\ h4[m].next = h3[m].next
           /\ h4[m].firstChild = h3[m].firstChild
           /\ h4[m].type = h3[m].type /\ h4[m].value = h3[m].value /\ h4[m].attrs = h3[m].attrs
  <2>1. CASE after # NULL
    <3>1. PrevSet(h3, h4, after, n) /\ after \in DOMAIN h3
      BY <1>4, <2>1 DEF PrevSet
    <3> HIDE DEF h4
    <3>2. QED
      BY <1>0, <1>4, <2>1, <3>1, SetPrev
  <2>2. CASE after = NULL
    <3>1. LastChildSet(h3, h4, this, n) /\ this \in DOMAIN h3
      BY <1>4, <2>2 DEF LastChildSet
    <3> HIDE DEF h4
    <3>2. QED
      BY <1>0, <1>4, <2>2, <3>1, SetLastChild
  <2>3. QED
    BY <2>1, <2>2
<1> HIDE DEF h4
<1>6a. NextSet(h4, h5, at, n)
  BY DEF NextSet
<1> HIDE DEF h5
<1>6. /\ IsHeap(h5, T, V, A) /\ DOMAIN h5 = DOMAIN h
      /\ \A m \in DOMAIN h :
           /\ h5[m].next = (IF m = at THEN n ELSE h4[m].next)
           /\ h5[m].parent = h4[m].parent /\ h5[m].prev = h4[m].prev /\ h5[m].firstChild = h4[m].firstChild
           /\ h5[m].lastChild = h4[m].lastChild /\ h5[m].type = h4[m].type /\ h5[m].value = h4[m].value /\ h5[m].attrs = h4[m].attrs
  BY <1>0, <1>5, <1>6a, SetNext
<1>7. Spliced(h, h5, this, at, after, n)
  BY <1>0, <1>2, <1>3, <1>4, <1>5, <1>6 DEF Spliced
<1>8. QED
  BY <1>1, <1>6, <1>7

\* Unlink leaves the nodes beside the child linked to each other.
BridgeMade(h, g, this, child, before, after) == g = Bridge(h, this, child, before, after)

\* What Bridge changes.
LEMMA BridgeFields ==
  ASSUME NEW T, NEW V, NEW A, NEW h, IsHeap(h, T, V, A), NEW this \in DOMAIN h,
         NEW child \in DOMAIN h, NEW p \in DOMAIN h \cup {NULL}, h[child].prev = p,
         NEW nx \in DOMAIN h \cup {NULL}, h[child].next = nx,
         NEW before \in Pointer, NEW after \in Pointer,
         NEW g, BridgeMade(h, g, this, child, before, after)
  PROVE  /\ IsHeap(g, T, V, A) /\ DOMAIN g = DOMAIN h
         /\ \A m \in DOMAIN h :
              /\ g[m].parent = h[m].parent
              /\ g[m].prev = (IF m = nx THEN before ELSE h[m].prev)
              /\ g[m].next = (IF m = p THEN after ELSE h[m].next)
              /\ g[m].firstChild = (IF m = this /\ p = NULL THEN after ELSE h[m].firstChild)
              /\ g[m].lastChild = (IF m = this /\ nx = NULL THEN before ELSE h[m].lastChild)
              /\ g[m].type = h[m].type /\ g[m].value = h[m].value /\ g[m].attrs = h[m].attrs
<1> DEFINE h1 == IF nx # NULL THEN [h EXCEPT ![nx].prev = before]
                 ELSE [h EXCEPT ![this].lastChild = before]
           f  == IF p # NULL THEN [h1 EXCEPT ![p].next = after]
                 ELSE [h1 EXCEPT ![this].firstChild = after]
<1>0. NULL \notin DOMAIN h
  BY NodeNumbers DEF IsHeap
<1>1. g = f
  BY DEF Bridge, BridgeMade
<1>2. /\ IsHeap(h1, T, V, A) /\ DOMAIN h1 = DOMAIN h
      /\ \A m \in DOMAIN h :
           /\ h1[m].prev = (IF m = nx THEN before ELSE h[m].prev)
           /\ h1[m].lastChild = (IF m = this /\ nx = NULL THEN before ELSE h[m].lastChild)
           /\ h1[m].parent = h[m].parent /\ h1[m].next = h[m].next
           /\ h1[m].firstChild = h[m].firstChild
           /\ h1[m].type = h[m].type /\ h1[m].value = h[m].value /\ h1[m].attrs = h[m].attrs
  <2>1. CASE nx # NULL
    <3>1. PrevSet(h, h1, nx, before) /\ nx \in DOMAIN h
      BY <2>1 DEF PrevSet
    <3> HIDE DEF h1
    <3>2. QED
      BY <1>0, <2>1, <3>1, SetPrev
  <2>2. CASE nx = NULL
    <3>1. LastChildSet(h, h1, this, before)
      BY <2>2 DEF LastChildSet
    <3> HIDE DEF h1
    <3>2. QED
      BY <1>0, <2>2, <3>1, SetLastChild
  <2>3. QED
    BY <2>1, <2>2
<1> HIDE DEF h1
<1>3. /\ IsHeap(f, T, V, A) /\ DOMAIN f = DOMAIN h
      /\ \A m \in DOMAIN h :
           /\ f[m].next = (IF m = p THEN after ELSE h1[m].next)
           /\ f[m].firstChild = (IF m = this /\ p = NULL THEN after ELSE h1[m].firstChild)
           /\ f[m].parent = h1[m].parent /\ f[m].prev = h1[m].prev
           /\ f[m].lastChild = h1[m].lastChild
           /\ f[m].type = h1[m].type /\ f[m].value = h1[m].value /\ f[m].attrs = h1[m].attrs
  <2>1. CASE p # NULL
    <3>1. NextSet(h1, f, p, after) /\ p \in DOMAIN h1
      BY <1>2, <2>1 DEF NextSet
    <3> HIDE DEF f
    <3>2. QED
      BY <1>0, <1>2, <2>1, <3>1, SetNext
  <2>2. CASE p = NULL
    <3>1. FirstChildSet(h1, f, this, after) /\ this \in DOMAIN h1
      BY <1>2, <2>2 DEF FirstChildSet
    <3> HIDE DEF f
    <3>2. QED
      BY <1>0, <1>2, <2>2, <3>1, SetFirstChild
  <2>3. QED
    BY <2>1, <2>2
<1> HIDE DEF f
<1>4. QED
  BY <1>1, <1>2, <1>3

\* Nodes that are in no list.
Free(h, kids, n) ==
  /\ h[n].parent = NULL /\ h[n].prev = NULL /\ h[n].next = NULL
  /\ \A p \in DOMAIN kids : \A i \in 1..Len(kids[p]) : kids[p][i] # n

\* New nodes are linked as their lists say.
LinkedMade(label, kids, h) == h = Linked(label, kids)

LabelsIn(label, kids, T, V, A) ==
  \A n \in DOMAIN kids : label[n].type \in T /\ label[n].value \in V /\ label[n].attrs \in A

LinkedAs(label, kids, h) ==
  \A n \in DOMAIN kids :
    /\ h[n].type = label[n].type /\ h[n].value = label[n].value /\ h[n].attrs = label[n].attrs
    /\ (\A p \in DOMAIN kids : \A i \in 1..Len(kids[p]) : kids[p][i] # n) => Free(h, kids, n)

\* Linked links a forest as its lists say.
LEMMA LinkedLinks ==
  ASSUME NEW T, NEW V, NEW A, NEW kids, Forest(kids), NEW label, LabelsIn(label, kids, T, V, A),
         NEW h, LinkedMade(label, kids, h)
  PROVE  IsHeap(h, T, V, A) /\ Links(h, kids) /\ LinkedAs(label, kids, h)
<1> DEFINE D == DOMAIN kids
           Places(n) == {at \in D \X Node : Entry(kids[at[1]], at[2]) = n}
           place(n)  == IF Places(n) = {} THEN <<NULL, 0>> ELSE CHOOSE at \in Places(n) : TRUE
           around(n) == IF Places(n) = {} THEN <<>> ELSE kids[place(n)[1]]
           new(n) == [NewNode(label[n]) EXCEPT
                        !.parent = place(n)[1],
                        !.prev = Entry(around(n), place(n)[2] - 1), !.next = Entry(around(n), place(n)[2] + 1),
                        !.firstChild = Entry(kids[n], 1), !.lastChild = Entry(kids[n], Len(kids[n]))]
<1>1. h = [n \in D |-> new(n)]
  BY Zenon DEF Linked, LinkedMade
<1>2. \A p \in D : /\ kids[p] \in Seq(D) /\ Len(kids[p]) \in Nat /\ Len(kids[p]) <= MaxNodes
                   /\ DOMAIN kids[p] = 1..Len(kids[p])
  BY ForestList
<1>3. D \subseteq Node /\ NULL \notin D /\ Node = 1..MaxNodes /\ MaxNodes \in Nat
  BY NodeNumbers DEF Forest
<1>4. \A p, q \in D : \A j \in 1..Len(kids[p]), k \in 1..Len(kids[q]) :
         kids[p][j] = kids[q][k] => p = q /\ j = k
  BY DEF Forest
<1>e. \A p \in D : \A i \in Int : Entry(kids[p], i) \in D \cup {NULL}
  BY <1>2, EntryFacts
\* The place of a node in a list.
<1>5. ASSUME NEW p \in D, NEW i \in 1..Len(kids[p])
      PROVE  Places(kids[p][i]) = {<<p, i>>}
  <2> DEFINE n == kids[p][i]
  <2>1. i \in Node /\ Entry(kids[p], i) = n /\ n \in D
    <3>1. i \in Node
      BY <1>2, <1>3
    <3>2. QED
      BY <1>2, <3>1 DEF Entry
  <2>2. ASSUME NEW at \in Places(n) PROVE at = <<p, i>>
    <3>1. PICK q \in D, k \in Node : at = <<q, k>> /\ Entry(kids[q], k) = n
      OBVIOUS
    <3>2. k \in 1..Len(kids[q]) /\ kids[q][k] = n
      BY <1>2, <1>3, <2>1, <3>1 DEF Entry
    <3>3. q = p /\ k = i
      BY <1>4, <3>2
    <3>4. QED
      BY <3>1, <3>3
  <2>3. <<p, i>> \in Places(n)
    BY <2>1
  <2> HIDE DEF n, Places
  <2>4. Places(n) = {<<p, i>>}
    BY <2>2, <2>3
  <2>5. QED
    BY <2>4 DEF n
<1>6. ASSUME NEW n \in D, \A p \in D : \A i \in 1..Len(kids[p]) : kids[p][i] # n
      PROVE  Places(n) = {}
  <2>1. SUFFICES ASSUME NEW q \in D, NEW k \in Node, Entry(kids[q], k) = n PROVE FALSE
    OBVIOUS
  <2>2. k \in 1..Len(kids[q]) /\ kids[q][k] = n
    BY <1>2, <1>3, <2>1 DEF Entry
  <2>3. QED
    BY <1>6, <2>2
<1>7. ASSUME NEW n \in D
      PROVE  \/ /\ place(n)[1] \in D /\ place(n)[2] \in Int /\ around(n) = kids[place(n)[1]]
             \/ place(n) = <<NULL, 0>> /\ around(n) = <<>>
  <2>1. CASE Places(n) = {}
    BY <2>1
  <2>2. CASE Places(n) # {}
    <3>1. place(n) \in Places(n)
      <4> HIDE DEF Places
      <4>1. QED
        BY <2>2
    <3>2. \A at \in Places(n) : at[1] \in D /\ at[2] \in Node
      OBVIOUS
    <3>3. around(n) = kids[place(n)[1]]
      BY <2>2
    <3> HIDE DEF place, around, Places
    <3>4. QED
      BY <1>3, <3>1, <3>2, <3>3
  <2>3. QED
    BY <2>1, <2>2
<1>8. ASSUME NEW p \in D, NEW i \in 1..Len(kids[p])
      PROVE  place(kids[p][i]) = <<p, i>> /\ around(kids[p][i]) = kids[p]
  <2>1. Places(kids[p][i]) = {<<p, i>>}
    BY <1>5
  <2> HIDE DEF Places
  <2>2. place(kids[p][i]) = <<p, i>>
    BY <2>1
  <2>3. QED
    BY <2>1, <2>2
<1>9. ASSUME NEW n \in D, \A p \in D : \A i \in 1..Len(kids[p]) : kids[p][i] # n
      PROVE  place(n) = <<NULL, 0>> /\ around(n) = <<>>
  BY <1>6, <1>9
<1> HIDE DEF place, around, Places
<1>10. \A i : Entry(<<>>, i) = NULL
  BY DEF Entry
<1>11. ASSUME NEW n \in D
       PROVE  /\ place(n)[1] \in Pointer
              /\ Entry(around(n), place(n)[2] - 1) \in Pointer
              /\ Entry(around(n), place(n)[2] + 1) \in Pointer
              /\ Entry(kids[n], 1) \in Pointer /\ Entry(kids[n], Len(kids[n])) \in Pointer
  <2>1. Entry(kids[n], 1) \in Pointer /\ Entry(kids[n], Len(kids[n])) \in Pointer
    BY <1>2, <1>3, <1>e DEF Pointer
  <2>2. CASE place(n) = <<NULL, 0>> /\ around(n) = <<>>
    BY <1>10, <2>1, <2>2 DEF Pointer
  <2>3. CASE /\ place(n)[1] \in D /\ place(n)[2] \in Int /\ around(n) = kids[place(n)[1]]
    <3>1. place(n)[2] - 1 \in Int /\ place(n)[2] + 1 \in Int
      BY <2>3
    <3>2. QED
      BY <1>3, <1>e, <2>1, <2>3, <3>1 DEF Pointer
  <2>4. QED
    BY <1>7, <2>2, <2>3
<1>12. ASSUME NEW n \in D
       PROVE  /\ new(n) \in Record(T, V, A)
              /\ new(n).parent = place(n)[1]
              /\ new(n).prev = Entry(around(n), place(n)[2] - 1)
              /\ new(n).next = Entry(around(n), place(n)[2] + 1)
              /\ new(n).firstChild = Entry(kids[n], 1)
              /\ new(n).lastChild = Entry(kids[n], Len(kids[n]))
              /\ new(n).type = label[n].type /\ new(n).value = label[n].value
              /\ new(n).attrs = label[n].attrs
  <2>1. label[n].type \in T /\ label[n].value \in V /\ label[n].attrs \in A
    BY DEF LabelsIn
  <2>2. QED
    BY <1>11, <2>1 DEF NewNode, Record
<1> HIDE DEF new
<1>13. DOMAIN h = D /\ \A n \in D : h[n] = new(n)
  BY <1>1
<1>14. IsHeap(h, T, V, A)
  <2>1. h \in [D -> Record(T, V, A)]
    BY <1>1, <1>12
  <2>2. QED
    BY <1>3, <1>13, <2>1 DEF IsHeap
<1>15. Links(h, kids)
  <2>1. \A p \in D : h[p].firstChild = Entry(kids[p], 1) /\ h[p].lastChild = Entry(kids[p], Len(kids[p]))
    BY <1>12, <1>13
  <2>2. ASSUME NEW p \in D, NEW i \in 1..Len(kids[p])
        PROVE  /\ h[kids[p][i]].parent = p
               /\ h[kids[p][i]].prev = Entry(kids[p], i - 1)
               /\ h[kids[p][i]].next = Entry(kids[p], i + 1)
    <3>1. kids[p][i] \in D
      BY <1>2
    <3>2. place(kids[p][i]) = <<p, i>> /\ around(kids[p][i]) = kids[p]
      BY <1>8
    <3>3. QED
      BY <1>12, <1>13, <3>1, <3>2
  <2>3. QED
    BY <1>13, <2>1, <2>2 DEF Links
<1>16. ASSUME NEW n \in D, \A p \in D : \A i \in 1..Len(kids[p]) : kids[p][i] # n
       PROVE  Free(h, kids, n)
  <2>1. place(n) = <<NULL, 0>> /\ around(n) = <<>>
    BY <1>9, <1>16
  <2>2. h[n].parent = NULL /\ h[n].prev = NULL /\ h[n].next = NULL
    BY <1>10, <1>12, <1>13, <2>1
  <2>3. QED
    BY <1>16, <2>2 DEF Free
<1>17. QED
  BY <1>12, <1>13, <1>14, <1>15, <1>16 DEF LinkedAs

-----------------------------------------------------------------------------
(* The heap of a tree                                                      *)

\* Nodes are records of constructors, whatever they hold.
Heap(h) == IsHeap(h, {h[n].type : n \in DOMAIN h}, {h[n].value : n \in DOMAIN h},
                  {h[n].attrs : n \in DOMAIN h})

\* Only the root is a document, and no attribute is there twice.
Labelled(h) ==
  \A n \in DOMAIN h : (h[n].type = "document" <=> n = Doc) /\ IsSet(h[n].attrs)

Represents(h, kids) ==
  /\ Heap(h) /\ IsTree(kids, Doc) /\ Links(h, kids) /\ Free(h, kids, Doc) /\ Labelled(h)

\* A heap of some kinds of fields is a heap of its own.
LEMMA IsHeapHeap ==
  ASSUME NEW T, NEW V, NEW A, NEW h, IsHeap(h, T, V, A)
  PROVE  Heap(h)
<1> DEFINE T1 == {h[n].type : n \in DOMAIN h}
           V1 == {h[n].value : n \in DOMAIN h}
           A1 == {h[n].attrs : n \in DOMAIN h}
<1>1. ASSUME NEW n \in DOMAIN h PROVE h[n].type \in T1 /\ h[n].value \in V1 /\ h[n].attrs \in A1
  OBVIOUS
<1> HIDE DEF T1, V1, A1
<1>2. h \in [DOMAIN h -> Record(T, V, A)] /\ DOMAIN h \subseteq Node
  BY DEF IsHeap
<1>3. ASSUME NEW n \in DOMAIN h PROVE h[n] \in Record(T1, V1, A1)
  <2>1. h[n] \in Record(T, V, A)
    BY <1>2
  <2>2. QED
    BY <1>1, <2>1 DEF Record
<1>4. h \in [DOMAIN h -> Record(T1, V1, A1)]
  BY <1>2, <1>3
<1>5. QED
  BY <1>2, <1>4 DEF Heap, IsHeap, T1, V1, A1

\* Two heaps of the same records.
LEMMA IsHeapMore ==
  ASSUME NEW T, NEW V, NEW A, NEW h, IsHeap(h, T, V, A),
         NEW T1, NEW V1, NEW A1, T \subseteq T1, V \subseteq V1, A \subseteq A1
  PROVE  IsHeap(h, T1, V1, A1)
<1>1. h \in [DOMAIN h -> Record(T, V, A)] /\ DOMAIN h \subseteq Node
  BY DEF IsHeap
<1>2. ASSUME NEW n \in DOMAIN h PROVE h[n] \in Record(T1, V1, A1)
  <2>1. h[n] \in Record(T, V, A)
    BY <1>1
  <2>2. QED
    BY <2>1 DEF Record
<1>3. QED
  BY <1>1, <1>2 DEF IsHeap

\* Every node but the root is in a list.
LEMMA Listed ==
  ASSUME NEW kids, NEW root, IsTree(kids, root), NEW n \in DOMAIN kids \ {root}
  PROVE  \E p \in DOMAIN kids : \E i \in 1..Len(kids[p]) : kids[p][i] = n
<1> DEFINE D == DOMAIN kids
           S == {root} \cup UNION {Range(kids[p]) : p \in D}
<1>1. \A p \in D : Range(kids[p]) \subseteq D \ {root}
  BY TreeFacts
<1>2. S \in SUBSET D /\ root \in S /\ Closed(kids, S)
  <2>1. root \in D
    BY TreeFacts
  <2>2. S \subseteq D
    BY <1>1, <2>1
  <2>3. QED
    BY <2>2 DEF Closed
<1>3. S = D
  <2>1. \A R \in SUBSET DOMAIN kids : root \in R /\ Closed(kids, R) => R = DOMAIN kids
    BY TreeFacts
  <2> HIDE DEF S
  <2>2. QED
    BY <1>2, <2>1
<1>4. PICK p \in D : n \in Range(kids[p])
  BY <1>3
<1>5. \A c \in Range(kids[p]) : \E i \in 1..Len(kids[p]) : c = kids[p][i]
  BY TreeFacts
<1>6. QED
  BY <1>4, <1>5

\* What a heap that represents a tree has to offer.
LEMMA RepresentsFacts ==
  ASSUME NEW h, NEW kids, Represents(h, kids)
  PROVE  /\ DOMAIN h = DOMAIN kids /\ Doc \in DOMAIN h /\ DOMAIN h \subseteq Node
         /\ Sound(h) /\ Forest(kids)
         /\ \A p \in DOMAIN kids : Children(h, p) = kids[p]
         /\ \A n \in DOMAIN h \ {Doc} :
              \E p \in DOMAIN kids : \E i \in 1..Len(kids[p]) : kids[p][i] = n /\ h[n].parent = p
<1>1. /\ IsTree(kids, Doc) /\ Links(h, kids) /\ Free(h, kids, Doc)
  BY DEF Represents
<1>2. DOMAIN h = DOMAIN kids /\ Doc \in DOMAIN h /\ DOMAIN h \subseteq Node
  <2>1. Doc \in DOMAIN kids /\ DOMAIN kids \subseteq Node
    BY <1>1, TreeFacts
  <2>2. QED
    BY <1>1, <2>1 DEF Links
<1>3. Forest(kids)
  BY <1>1, TreeForest
<1>4. \A p \in DOMAIN kids : \A i \in Int : Entry(kids[p], i) \in DOMAIN kids \cup {NULL}
  BY <1>3, ForestList, EntryFacts
<1>5. ASSUME NEW n \in DOMAIN h \ {Doc}
      PROVE  \E p \in DOMAIN kids : \E i \in 1..Len(kids[p]) : kids[p][i] = n /\ h[n].parent = p
  <2>1. PICK p \in DOMAIN kids : \E i \in 1..Len(kids[p]) : kids[p][i] = n
    BY <1>1, <1>2, Listed
  <2>2. QED
    BY <1>1, <2>1 DEF Links
<1>6. Sound(h)
  <2>1. SUFFICES ASSUME NEW n \in DOMAIN h
                 PROVE  {h[n].parent, h[n].firstChild, h[n].lastChild, h[n].prev, h[n].next}
                          \subseteq DOMAIN h \cup {NULL}
    BY DEF Sound
  <2>2. h[n].firstChild \in DOMAIN h \cup {NULL} /\ h[n].lastChild \in DOMAIN h \cup {NULL}
    <3>1. Len(kids[n]) \in Int /\ 1 \in Int
      BY <1>2, <1>3, ForestList
    <3>2. h[n].firstChild = Entry(kids[n], 1) /\ h[n].lastChild = Entry(kids[n], Len(kids[n]))
      BY <1>1, <1>2 DEF Links
    <3>3. QED
      BY <1>2, <1>4, <3>1, <3>2
  <2>3. CASE n = Doc
    BY <1>1, <2>2, <2>3 DEF Free
  <2>4. CASE n # Doc
    <3>a. PICK p \in DOMAIN kids :
            \E i \in 1..Len(kids[p]) : kids[p][i] = n /\ h[n].parent = p
      BY <1>5, <2>4
    <3>1. PICK i \in 1..Len(kids[p]) : kids[p][i] = n /\ h[n].parent = p
      BY <3>a
    <3>2. h[n].prev = Entry(kids[p], i - 1) /\ h[n].next = Entry(kids[p], i + 1)
      BY <1>1, <3>1 DEF Links
    <3>3. i - 1 \in Int /\ i + 1 \in Int
      BY <1>3, ForestList
    <3>4. h[n].prev \in DOMAIN h \cup {NULL} /\ h[n].next \in DOMAIN h \cup {NULL}
      BY <1>2, <1>4, <3>2, <3>3
    <3>5. QED
      BY <1>2, <2>2, <3>1, <3>4
  <2>5. QED
    BY <2>3, <2>4
<1>7. \A p \in DOMAIN kids : Children(h, p) = kids[p]
  BY <1>1, <1>3, <1>6, ChildrenIs
<1>8. QED
  BY <1>2, <1>3, <1>5, <1>6, <1>7

\* The document is a node.
LEMMA DocIsNode == Doc \in Node /\ Doc # NULL
BY NodesAssumption DEF Doc, Node, NULL

\* Two forests side by side.
Beside(kids, new) ==
  [n \in DOMAIN kids \cup DOMAIN new |-> IF n \in DOMAIN new THEN new[n] ELSE kids[n]]

\* A heap with a new tree, that no list of it has yet.
Extended(h, kids, new, top, g) ==
  /\ DOMAIN kids \cap DOMAIN new = {} /\ IsTree(new, top)
  /\ Heap(g) /\ DOMAIN g = DOMAIN kids \cup DOMAIN new
  /\ \A m \in DOMAIN kids : g[m] = h[m]
  /\ \A m \in DOMAIN new : g[m].type # "document" /\ IsSet(g[m].attrs)
  /\ \A m \in DOMAIN new : /\ g[m].firstChild = Entry(new[m], 1)
                           /\ g[m].lastChild = Entry(new[m], Len(new[m]))
  /\ \A p \in DOMAIN new : \A i \in 1..Len(new[p]) :
       /\ g[new[p][i]].parent = p
       /\ g[new[p][i]].prev = Entry(new[p], i - 1)
       /\ g[new[p][i]].next = Entry(new[p], i + 1)
  /\ g[top].parent = NULL /\ g[top].prev = NULL /\ g[top].next = NULL

\* What a heap with a new tree beside the old one holds.
LEMMA ExtendedFacts ==
  ASSUME NEW h, NEW kids, Represents(h, kids), NEW new, NEW top, NEW g,
         Extended(h, kids, new, top, g)
  PROVE  /\ Forest(Beside(kids, new)) /\ Links(g, Beside(kids, new))
         /\ top \in DOMAIN g /\ top \notin DOMAIN kids
         /\ \A p \in DOMAIN Beside(kids, new) : \A j \in 1..Len(Beside(kids, new)[p]) :
              Beside(kids, new)[p][j] # top
         /\ \A p \in DOMAIN kids : Beside(kids, new)[p] = kids[p]
         /\ Sound(g)
<1> DEFINE D == DOMAIN kids
           C == DOMAIN new
           J == Beside(kids, new)
<1>1. IsTree(kids, Doc) /\ IsTree(new, top) /\ D \cap C = {} /\ DOMAIN g = D \cup C
  BY DEF Represents, Extended
<1>2. /\ DOMAIN J = D \cup C
      /\ \A p \in D : J[p] = kids[p]
      /\ \A p \in C : J[p] = new[p]
  BY <1>1 DEF Beside
<1>3. Forest(kids) /\ Forest(new)
  BY <1>1, TreeForest
<1> HIDE DEF J
<1>4. /\ \A p \in D : \A j \in 1..Len(J[p]) : J[p][j] \in D
      /\ \A p \in C : \A j \in 1..Len(J[p]) : J[p][j] \in C
  BY <1>2, <1>3 DEF Forest
<1>5. Forest(J)
  <2>1. DOMAIN J \subseteq Node
    BY <1>2, <1>3 DEF Forest
  <2>2. ASSUME NEW p \in DOMAIN J
        PROVE  /\ Len(J[p]) \in Nat /\ DOMAIN J[p] = 1..Len(J[p])
               /\ J[p] = [i \in 1..Len(J[p]) |-> J[p][i]]
               /\ \A i \in 1..Len(J[p]) : J[p][i] \in DOMAIN J
    <3>1. CASE p \in D
      BY <1>2, <1>3, <3>1 DEF Forest
    <3>2. CASE p \in C
      BY <1>2, <1>3, <3>2 DEF Forest
    <3>3. QED
      BY <1>2, <3>1, <3>2
  <2>3. ASSUME NEW p \in DOMAIN J, NEW q \in DOMAIN J, NEW i \in 1..Len(J[p]), NEW j \in 1..Len(J[q]),
               J[p][i] = J[q][j]
        PROVE  p = q /\ i = j
    <3>1. CASE p \in D /\ q \in D
      BY <1>2, <1>3, <2>3, <3>1 DEF Forest
    <3>2. CASE p \in C /\ q \in C
      BY <1>2, <1>3, <2>3, <3>2 DEF Forest
    <3>3. QED
      BY <1>1, <1>2, <1>4, <2>3, <3>1, <3>2
  <2>4. QED
    BY <2>1, <2>2, <2>3 DEF Forest
<1>6. ASSUME NEW p \in DOMAIN J
      PROVE  g[p].firstChild = Entry(J[p], 1) /\ g[p].lastChild = Entry(J[p], Len(J[p]))
  <2>1. CASE p \in D
    BY <1>2, <2>1 DEF Represents, Links, Extended
  <2>2. CASE p \in C
    BY <1>2, <2>2 DEF Extended
  <2>3. QED
    BY <1>2, <2>1, <2>2
<1>7. ASSUME NEW p \in DOMAIN J, NEW i \in 1..Len(J[p])
      PROVE  /\ g[J[p][i]].parent = p
             /\ g[J[p][i]].prev = Entry(J[p], i - 1)
             /\ g[J[p][i]].next = Entry(J[p], i + 1)
  <2>1. CASE p \in D
    <3>1. J[p] = kids[p] /\ g[J[p][i]] = h[kids[p][i]]
      BY <1>2, <1>4, <2>1 DEF Extended
    <3>2. QED
      BY <2>1, <3>1 DEF Represents, Links
  <2>2. CASE p \in C
    BY <1>2, <2>2 DEF Extended
  <2>3. QED
    BY <1>2, <2>1, <2>2
<1>8. Links(g, J)
  BY <1>1, <1>2, <1>6, <1>7 DEF Links
<1>9. top \in C
  BY <1>1, TreeFacts
<1>10. \A p \in DOMAIN J : \A j \in 1..Len(J[p]) : J[p][j] # top
  <2>1. \A p \in C : \A j \in 1..Len(new[p]) : new[p][j] # top
    BY <1>1, TreeFacts
  <2>2. QED
    BY <1>1, <1>2, <1>4, <1>9, <2>1
<1>11. Sound(g)
  <2>1. \A p \in DOMAIN J : \A i \in Int : Entry(J[p], i) \in DOMAIN J \cup {NULL}
    BY <1>5, ForestList, EntryFacts
  <2>2. ASSUME NEW m \in C
        PROVE  {g[m].parent, g[m].prev, g[m].next} \subseteq DOMAIN g \cup {NULL}
    <3>1. CASE m = top
      BY <3>1 DEF Extended
    <3>2. CASE m # top
      <4>1. PICK p \in C : \E i \in 1..Len(new[p]) : new[p][i] = m
        BY <1>1, <3>2, Listed
      <4>2. PICK i \in 1..Len(J[p]) : J[p][i] = m
        BY <1>2, <4>1
      <4>3. /\ g[m].parent = p /\ g[m].prev = Entry(J[p], i - 1) /\ g[m].next = Entry(J[p], i + 1)
            /\ p \in DOMAIN J
        BY <1>2, <1>7, <4>2
      <4>4. i - 1 \in Int /\ i + 1 \in Int
        BY <1>5, <4>3, ForestList
      <4>5. QED
        BY <1>1, <1>2, <2>1, <4>3, <4>4
    <3>3. QED
      BY <3>1, <3>2
  <2>3. ASSUME NEW m \in D
        PROVE  {g[m].parent, g[m].prev, g[m].next} \subseteq DOMAIN g \cup {NULL}
    <3>1. g[m] = h[m]
      BY DEF Extended
    <3>2. Sound(h) /\ DOMAIN h = D
      BY RepresentsFacts
    <3>3. QED
      BY <1>1, <3>1, <3>2 DEF Sound
  <2>4. ASSUME NEW m \in DOMAIN g
        PROVE  {g[m].firstChild, g[m].lastChild} \subseteq DOMAIN g \cup {NULL}
    <3>1. m \in DOMAIN J /\ Len(J[m]) \in Int /\ 1 \in Int
      BY <1>1, <1>2, <1>5, ForestList
    <3>2. QED
      BY <1>1, <1>2, <1>6, <2>1, <3>1
  <2>5. QED
    BY <1>1, <2>2, <2>3, <2>4 DEF Sound
<1>12. QED
  BY <1>1, <1>2, <1>5, <1>8, <1>9, <1>10, <1>11 DEF J

\* The new tree in its place.
LEMMA Inserted ==
  ASSUME NEW h, NEW kids, Represents(h, kids), NEW new, NEW top, NEW g,
         Extended(h, kids, new, top, g),
         NEW this \in DOMAIN kids, NEW i \in 1..(Len(kids[this]) + 1), NEW g2, Heap(g2),
         Spliced(g, g2, this, Entry(kids[this], i - 1), Entry(kids[this], i), top)
  PROVE  Represents(g2, Grafted(kids, this, i, new, top))
<1> DEFINE D == DOMAIN kids
           C == DOMAIN new
           J == Beside(kids, new)
           G == Grafted(kids, this, i, new, top)
<1>1. IsTree(kids, Doc) /\ IsTree(new, top) /\ D \cap C = {} /\ DOMAIN g = D \cup C
  BY DEF Represents, Extended
<1>2. /\ Forest(J) /\ Links(g, J) /\ DOMAIN J = D \cup C
      /\ top \in DOMAIN J /\ top \notin D
      /\ \A p \in DOMAIN J : \A j \in 1..Len(J[p]) : J[p][j] # top
      /\ J[this] = kids[this] /\ this \in DOMAIN J
  <2>1. DOMAIN J = D \cup C
    BY DEF Beside
  <2>2. QED
    BY <1>1, <2>1, ExtendedFacts
<1>3. G = [J EXCEPT ![this] = With(J[this], i, top)]
  <2>1. this \notin C
    BY <1>1
  <2>2. DOMAIN [J EXCEPT ![this] = With(J[this], i, top)] = D \cup C
    BY <1>2
  <2>3. QED
    BY <1>1, <1>2, <2>1 DEF Grafted, Beside
<1> HIDE DEF J, G
<1>4. IsTree(G, Doc)
  BY <1>1, GraftTree DEF G
<1>5. Links(g2, G)
  <2>1. Spliced(g, g2, this, Entry(J[this], i - 1), Entry(J[this], i), top) /\ i \in 1..(Len(J[this]) + 1)
    BY <1>2
  <2>2. QED
    BY <1>2, <1>3, <2>1, SpliceLinks
<1>6. Doc \in D /\ g[Doc] = h[Doc] /\ Doc # top
  BY <1>2, RepresentsFacts DEF Extended
<1>7. Doc # Entry(kids[this], i - 1) /\ Doc # Entry(kids[this], i)
  <2>1. /\ DOMAIN kids[this] = 1..Len(kids[this])
        /\ \A j \in 1..Len(kids[this]) : kids[this][j] # Doc
    BY <1>1, TreeFacts
  <2>2. QED
    BY <2>1, DocIsNode DEF Entry
<1>8. Free(g2, G, Doc)
  <2>1. h[Doc].parent = NULL /\ h[Doc].prev = NULL /\ h[Doc].next = NULL
    BY DEF Represents, Free
  <2>2. g2[Doc].parent = NULL /\ g2[Doc].prev = NULL /\ g2[Doc].next = NULL
    BY <1>1, <1>6, <1>7, <2>1 DEF Spliced
  <2>3. \A p \in DOMAIN G : \A j \in 1..Len(G[p]) : G[p][j] # Doc
    BY <1>4, TreeFacts
  <2>4. QED
    BY <2>2, <2>3 DEF Free
<1>9. Labelled(g2)
  <2>1. DOMAIN g2 = D \cup C /\ \A m \in D \cup C : g2[m].type = g[m].type /\ g2[m].attrs = g[m].attrs
    BY <1>1 DEF Spliced
  <2>2. \A m \in C : g[m].type # "document" /\ IsSet(g[m].attrs) /\ m # Doc
    BY <1>1, <1>6 DEF Extended
  <2>3. \A m \in D : (g[m].type = "document" <=> m = Doc) /\ IsSet(g[m].attrs)
    <3>1. DOMAIN h = D
      BY RepresentsFacts
    <3>2. QED
      BY <3>1 DEF Represents, Labelled, Extended
  <2>4. QED
    BY <2>1, <2>2, <2>3 DEF Labelled
<1>10. QED
  BY <1>4, <1>5, <1>8, <1>9 DEF Represents, G

\* Where a child is among the children of its parent.
LEMMA ChildPlace ==
  ASSUME NEW h, NEW kids, Represents(h, kids), NEW this \in DOMAIN h, NEW at \in DOMAIN h,
         h[at].parent = this
  PROVE  at # Doc /\ \E i \in 1..Len(kids[this]) : kids[this][i] = at
<1>1. h[Doc].parent = NULL /\ this # NULL
  <2>1. this \in Node
    BY RepresentsFacts
  <2>2. QED
    BY <2>1, NodeNumbers DEF Represents, Free
<1>2. at # Doc
  BY <1>1
<1>3. PICK p \in DOMAIN kids : \E i \in 1..Len(kids[p]) : kids[p][i] = at /\ h[at].parent = p
  BY <1>2, RepresentsFacts
<1>4. QED
  BY <1>2, <1>3

\* The pointers of a child.
LEMMA ChildPointers ==
  ASSUME NEW h, NEW kids, Forest(kids), Links(h, kids),
         NEW this \in DOMAIN kids, NEW i \in 1..Len(kids[this])
  PROVE  LET child == kids[this][i] IN
         /\ child \in DOMAIN h
         /\ Len(kids[this]) \in Nat /\ i \in Int
         /\ child = Entry(kids[this], i)
         /\ h[child].prev = Entry(kids[this], i - 1) /\ h[child].next = Entry(kids[this], i + 1)
         /\ h[child].prev \in DOMAIN h \cup {NULL} /\ h[child].next \in DOMAIN h \cup {NULL}
         /\ h[child].prev # child /\ h[child].next # child
         /\ h[child].prev = h[child].next => h[child].prev = NULL
<1> DEFINE list == kids[this]
           child == list[i]
<1>1. /\ list \in Seq(DOMAIN kids) /\ Len(list) \in Nat /\ DOMAIN list = 1..Len(list)
      /\ \A j, k \in 1..Len(list) : list[j] = list[k] => j = k
  BY ForestList
<1>2. DOMAIN h = DOMAIN kids /\ NULL \notin DOMAIN h
  BY NodeNumbers DEF Links, Forest
<1>3. h[child].prev = Entry(list, i - 1) /\ h[child].next = Entry(list, i + 1)
  BY DEF Links
<1>i. i \in 1..Len(list)
  OBVIOUS
<1> HIDE DEF list
<1>4. child \in DOMAIN h /\ child = Entry(list, i)
  <2>1. i \in 1..Len(list) => Entry(list, i) = list[i] /\ Entry(list, i) \in DOMAIN kids
    BY <1>1, EntryFacts
  <2>2. QED
    BY <1>2, <1>i, <2>1
<1>5. \/ i - 1 \in 1..Len(list) /\ Entry(list, i - 1) = list[i - 1] /\ list[i - 1] \in DOMAIN h
      \/ Entry(list, i - 1) = NULL
  BY <1>1, <1>2 DEF Entry
<1>6. \/ i + 1 \in 1..Len(list) /\ Entry(list, i + 1) = list[i + 1] /\ list[i + 1] \in DOMAIN h
      \/ Entry(list, i + 1) = NULL
  BY <1>1, <1>2 DEF Entry
<1>7. i \in Int /\ i - 1 # i /\ i + 1 # i /\ i - 1 # i + 1
  BY <1>1, <1>i
<1>8. Entry(list, i - 1) # child /\ Entry(list, i + 1) # child
  BY <1>1, <1>2, <1>4, <1>5, <1>6, <1>7, <1>i
<1>9. Entry(list, i - 1) = Entry(list, i + 1) => Entry(list, i - 1) = NULL
  BY <1>1, <1>2, <1>5, <1>6, <1>7
<1>10. QED
  BY <1>1, <1>2, <1>3, <1>4, <1>5, <1>6, <1>7, <1>8, <1>9 DEF list

\* The tree without a child.
LEMMA Removed ==
  ASSUME NEW h, NEW kids, Represents(h, kids),
         NEW this \in DOMAIN kids, NEW i \in 1..Len(kids[this]), NEW h2, Heap(h2),
         Bridged(h, h2, this, kids[this][i], Under(kids, kids[this][i]))
  PROVE  Represents(h2, Cut(kids, this, i))
<1> DEFINE K == Cut(kids, this, i)
           child == kids[this][i]
           U == Under(kids, child)
<1>1. IsTree(kids, Doc) /\ Links(h, kids) /\ Free(h, kids, Doc) /\ Labelled(h) /\ Forest(kids)
      /\ DOMAIN h = DOMAIN kids
  BY RepresentsFacts DEF Represents
<1>2. IsTree(K, Doc) /\ Links(h2, K)
  BY <1>1, CutTree, BridgeLinks
<1>3. DOMAIN h2 = DOMAIN h \ U /\ DOMAIN K = DOMAIN h2 /\ Doc \in DOMAIN h2
  <2>1. DOMAIN h2 = DOMAIN h \ U /\ DOMAIN K = DOMAIN h \ U
    BY <1>1 DEF Bridged, Cut
  <2>2. Doc \in DOMAIN K
    BY <1>2, TreeFacts
  <2>3. QED
    BY <2>1, <2>2
<1>4. h[child].prev # Doc /\ h[child].next # Doc
  <2>1. h[child].prev = Entry(kids[this], i - 1) /\ h[child].next = Entry(kids[this], i + 1)
    BY <1>1, ChildPointers
  <2>2. /\ DOMAIN kids[this] = 1..Len(kids[this])
        /\ \A j \in 1..Len(kids[this]) : kids[this][j] # Doc
    BY <1>1, TreeFacts
  <2>3. QED
    BY <2>1, <2>2, DocIsNode DEF Entry
<1>5. Free(h2, K, Doc)
  <2>1. h[Doc].parent = NULL /\ h[Doc].prev = NULL /\ h[Doc].next = NULL
    BY <1>1 DEF Free
  <2>2. h2[Doc].parent = NULL /\ h2[Doc].prev = NULL /\ h2[Doc].next = NULL
    BY <1>3, <1>4, <2>1 DEF Bridged
  <2>3. \A p \in DOMAIN K : \A j \in 1..Len(K[p]) : K[p][j] # Doc
    BY <1>2, TreeFacts
  <2>4. QED
    BY <2>2, <2>3 DEF Free
<1>6. Labelled(h2)
  <2>1. \A m \in DOMAIN h2 : m \in DOMAIN h /\ h2[m].type = h[m].type /\ h2[m].attrs = h[m].attrs
    BY <1>3 DEF Bridged
  <2>2. QED
    BY <1>1, <2>1 DEF Labelled
<1>7. QED
  BY <1>2, <1>5, <1>6 DEF Represents

FreedFrom(h, g, S) == g = Freed(h, S)

\* g is what is left of h without S.
LeftBy(h, g, S) == DOMAIN g = DOMAIN h \ S /\ \A m \in DOMAIN h \ S : g[m] = h[m]

\* A heap from which nodes are freed keeps the contents of the others.
LEMMA FreedHeap ==
  ASSUME NEW T, NEW V, NEW A, NEW h, IsHeap(h, T, V, A), NEW S, NEW g, FreedFrom(h, g, S)
  PROVE  IsHeap(g, T, V, A) /\ LeftBy(h, g, S)
BY DEF IsHeap, Freed, FreedFrom, LeftBy

\* Unlink.
LEMMA UnlinkRepresents ==
  ASSUME NEW h, NEW kids, Represents(h, kids),
         NEW this \in DOMAIN kids, NEW i \in 1..Len(kids[this])
  PROVE  Represents(Unlink(h, this, kids[this][i]), Cut(kids, this, i))
<1> DEFINE child  == kids[this][i]
           before == h[child].prev
           after  == h[child].next
           b      == Bridge(h, this, child, before, after)
           U      == Under(kids, child)
           h2     == Freed(b, U)
<1>1. /\ Links(h, kids) /\ Forest(kids) /\ DOMAIN h = DOMAIN kids
      /\ \A p \in DOMAIN kids : Children(h, p) = kids[p]
  BY RepresentsFacts DEF Represents
<1>2. /\ child \in DOMAIN h /\ before # child
      /\ before \in DOMAIN h \cup {NULL} /\ after \in DOMAIN h \cup {NULL}
  BY <1>1, ChildPointers
<1>3. before \in Pointer /\ after \in Pointer
  BY <1>1, <1>2 DEF Forest, Pointer
<1>4. Below(h, child) = U
  BY <1>1, BelowIs
<1>5. Unlink(h, this, child) = h2
  BY <1>4 DEF Unlink
<1> DEFINE T == {h[n].type : n \in DOMAIN h}
           V == {h[n].value : n \in DOMAIN h}
           A == {h[n].attrs : n \in DOMAIN h}
<1>6. IsHeap(h, T, V, A)
  BY DEF Represents, Heap
<1> HIDE DEF T, V, A, b, U, h2, child
<1>7. /\ IsHeap(b, T, V, A) /\ DOMAIN b = DOMAIN h
      /\ \A m \in DOMAIN h :
           /\ b[m].parent = h[m].parent
           /\ b[m].prev = (IF m = after THEN before ELSE h[m].prev)
           /\ b[m].next = (IF m = before THEN after ELSE h[m].next)
           /\ b[m].firstChild = (IF m = this /\ before = NULL THEN after ELSE h[m].firstChild)
           /\ b[m].lastChild = (IF m = this /\ after = NULL THEN before ELSE h[m].lastChild)
           /\ b[m].type = h[m].type /\ b[m].value = h[m].value /\ b[m].attrs = h[m].attrs
  <2>1. BridgeMade(h, b, this, child, before, after)
    BY DEF b, BridgeMade
  <2>2. h[child].prev = before /\ h[child].next = after
    OBVIOUS
  <2> HIDE DEF before, after
  <2>3. QED
    BY <1>1, <1>2, <1>3, <1>6, <2>1, <2>2, BridgeFields
<1>8. /\ IsHeap(h2, T, V, A) /\ DOMAIN h2 = DOMAIN h \ U
      /\ \A m \in DOMAIN h \ U : h2[m] = b[m]
  <2>1. FreedFrom(b, h2, U)
    BY DEF h2, FreedFrom
  <2>2. IsHeap(h2, T, V, A) /\ LeftBy(b, h2, U)
    BY <1>7, <2>1, FreedHeap
  <2>3. QED
    BY <1>7, <2>2 DEF LeftBy
<1>9. Heap(h2)
  BY <1>8, IsHeapHeap
<1>10. Bridged(h, h2, this, child, U)
  BY <1>7, <1>8 DEF Bridged
<1>11. Represents(h2, Cut(kids, this, i))
  BY <1>9, <1>10, Removed DEF child, U
<1>12. QED
  BY <1>5, <1>11 DEF child

\* Clear.
LEMMA ClearRepresents ==
  ASSUME NEW h, NEW kids, Represents(h, kids), NEW this \in DOMAIN kids
  PROVE  Represents(Cleared(h, this), Pruned(kids, this))
<1> DEFINE U  == Under(kids, this) \ {this}
           K  == Pruned(kids, this)
           f  == Freed(h, U)
           f1 == [f EXCEPT ![this].firstChild = NULL]
           f2 == [f1 EXCEPT ![this].lastChild = NULL]
           T == {h[n].type : n \in DOMAIN h}
           V == {h[n].value : n \in DOMAIN h}
           A == {h[n].attrs : n \in DOMAIN h}
<1>1. /\ IsTree(kids, Doc) /\ Links(h, kids) /\ Free(h, kids, Doc) /\ Labelled(h)
      /\ Forest(kids) /\ DOMAIN h = DOMAIN kids
      /\ \A p \in DOMAIN kids : Children(h, p) = kids[p]
  BY RepresentsFacts DEF Represents
<1>2. Below(h, this) = Under(kids, this)
  BY <1>1, BelowIs
<1>3. Cleared(h, this) = f2
  BY <1>2 DEF Cleared
<1>4. IsHeap(h, T, V, A)
  BY DEF Represents, Heap
<1> HIDE DEF T, V, A
<1>5. /\ IsHeap(f, T, V, A) /\ DOMAIN f = DOMAIN h \ U
      /\ \A m \in DOMAIN h \ U : f[m] = h[m]
  <2>1. FreedFrom(h, f, U)
    BY DEF FreedFrom
  <2> HIDE DEF f, U
  <2>2. IsHeap(f, T, V, A) /\ LeftBy(h, f, U)
    BY <1>4, <2>1, FreedHeap
  <2>3. QED
    BY <2>2 DEF LeftBy
<1>6. this \in DOMAIN f /\ NULL \in Pointer
  BY <1>1, <1>5 DEF Pointer
<1> HIDE DEF f
<1>7a. FirstChildSet(f, f1, this, NULL)
  BY DEF FirstChildSet
<1> HIDE DEF f1
<1>7. /\ IsHeap(f1, T, V, A) /\ DOMAIN f1 = DOMAIN f
      /\ \A m \in DOMAIN f :
           /\ f1[m].firstChild = (IF m = this THEN NULL ELSE f[m].firstChild)
           /\ f1[m].parent = f[m].parent /\ f1[m].prev = f[m].prev /\ f1[m].next = f[m].next
           /\ f1[m].lastChild = f[m].lastChild
           /\ f1[m].type = f[m].type /\ f1[m].value = f[m].value /\ f1[m].attrs = f[m].attrs
  BY <1>5, <1>6, <1>7a, SetFirstChild
<1>8a. LastChildSet(f1, f2, this, NULL)
  BY DEF LastChildSet
<1> HIDE DEF f2
<1>8. /\ IsHeap(f2, T, V, A) /\ DOMAIN f2 = DOMAIN f
      /\ \A m \in DOMAIN f :
           /\ f2[m].lastChild = (IF m = this THEN NULL ELSE f1[m].lastChild)
           /\ f2[m].parent = f1[m].parent /\ f2[m].prev = f1[m].prev /\ f2[m].next = f1[m].next
           /\ f2[m].firstChild = f1[m].firstChild
           /\ f2[m].type = f1[m].type /\ f2[m].value = f1[m].value /\ f2[m].attrs = f1[m].attrs
  BY <1>6, <1>7, <1>8a, SetLastChild
<1> HIDE DEF U
<1>9. /\ DOMAIN f2 = DOMAIN h \ U
      /\ \A m \in DOMAIN h \ U :
           /\ f2[m].firstChild = (IF m = this THEN NULL ELSE h[m].firstChild)
           /\ f2[m].lastChild = (IF m = this THEN NULL ELSE h[m].lastChild)
           /\ f2[m].parent = h[m].parent /\ f2[m].prev = h[m].prev /\ f2[m].next = h[m].next
           /\ f2[m].type = h[m].type /\ f2[m].attrs = h[m].attrs
  BY <1>5, <1>7, <1>8
<1>10. /\ DOMAIN K = DOMAIN h \ U /\ K[this] = <<>>
       /\ \A p \in (DOMAIN h \ U) \ {this} : K[p] = kids[p]
       /\ this \in DOMAIN h \ U
  <2>1. this \in DOMAIN h \ U
    BY <1>1 DEF U
  <2>2. QED
    BY <1>1, <2>1 DEF Pruned, U
<1>11. IsTree(K, Doc)
  BY <1>1, ClearTree
<1> HIDE DEF K
<1>12. Links(f2, K)
  <2>1. ASSUME NEW p \in DOMAIN K
        PROVE  /\ f2[p].firstChild = Entry(K[p], 1) /\ f2[p].lastChild = Entry(K[p], Len(K[p]))
               /\ \A i \in 1..Len(K[p]) :
                    /\ f2[K[p][i]].parent = p
                    /\ f2[K[p][i]].prev = Entry(K[p], i - 1)
                    /\ f2[K[p][i]].next = Entry(K[p], i + 1)
    <3>1. CASE p = this
      <4>1. K[p] = <<>> /\ Len(K[p]) = 0
        BY <1>10, <3>1
      <4>2. \A i : Entry(K[p], i) = NULL
        BY <4>1 DEF Entry
      <4>3. QED
        BY <1>9, <1>10, <3>1, <4>1, <4>2
    <3>2. CASE p # this
      <4>1. K[p] = kids[p] /\ p \in DOMAIN kids /\ p \in DOMAIN h \ U
        BY <1>1, <1>10, <3>2
      <4>2. /\ h[p].firstChild = Entry(kids[p], 1) /\ h[p].lastChild = Entry(kids[p], Len(kids[p]))
            /\ \A i \in 1..Len(kids[p]) :
                 /\ h[kids[p][i]].parent = p
                 /\ h[kids[p][i]].prev = Entry(kids[p], i - 1)
                 /\ h[kids[p][i]].next = Entry(kids[p], i + 1)
        BY <1>1, <4>1 DEF Links
      <4>3. \A i \in 1..Len(K[p]) : K[p][i] \in DOMAIN h \ U
        BY <1>10, <1>11, TreeFacts
      <4>4. QED
        BY <1>9, <3>2, <4>1, <4>2, <4>3
    <3>3. QED
      BY <3>1, <3>2
  <2>2. QED
    BY <1>9, <1>10, <2>1 DEF Links
<1>13. Doc \in DOMAIN h \ U
  BY <1>10, <1>11, TreeFacts
<1>14. Free(f2, K, Doc)
  <2>1. f2[Doc].parent = NULL /\ f2[Doc].prev = NULL /\ f2[Doc].next = NULL
    BY <1>1, <1>9, <1>13 DEF Free
  <2>2. \A p \in DOMAIN K : \A j \in 1..Len(K[p]) : K[p][j] # Doc
    BY <1>11, TreeFacts
  <2>3. QED
    BY <2>1, <2>2 DEF Free
<1>15. Labelled(f2)
  BY <1>1, <1>9 DEF Labelled
<1>16. Heap(f2)
  BY <1>8, IsHeapHeap
<1>17. Represents(f2, K)
  BY <1>11, <1>12, <1>14, <1>15, <1>16 DEF Represents
<1>18. QED
  BY <1>3, <1>17 DEF K

\* What has no child of its own in another place is below a node in either tree.
LEMMA UnderSame ==
  ASSUME NEW kids, NEW root, IsTree(kids, root), NEW new, NEW top, IsTree(new, top),
         DOMAIN kids \cap DOMAIN new = {},
         NEW this \in DOMAIN kids, NEW i \in 1..Len(kids[this])
  PROVE  LET G == Grafted(kids, this, i + 1, new, top) IN
         /\ G[this][i] = kids[this][i] /\ i \in 1..Len(G[this]) /\ this \in DOMAIN G
         /\ i + 1 \in 1..(Len(kids[this]) + 1)
         /\ Under(Beside(kids, new), kids[this][i]) = Under(G, kids[this][i])
<1> DEFINE D == DOMAIN kids
           C == DOMAIN new
           G == Grafted(kids, this, i + 1, new, top)
           J == Beside(kids, new)
           child == kids[this][i]
<1>1. /\ Len(kids[this]) \in Nat /\ i \in Int /\ i + 1 \in 1..(Len(kids[this]) + 1)
      /\ child \in D
  BY TreeFacts
<1>2. G[this] = With(kids[this], i + 1, top) /\ this \in DOMAIN G /\ DOMAIN G = D \cup C
  BY DEF Grafted
<1>3. G[this][i] = child /\ i \in 1..Len(G[this])
  <2>1. /\ Len(With(kids[this], i + 1, top)) = Len(kids[this]) + 1
        /\ \A j \in 1..(Len(kids[this]) + 1) :
             With(kids[this], i + 1, top)[j] =
               IF j < i + 1 THEN kids[this][j] ELSE IF j = i + 1 THEN top ELSE kids[this][j - 1]
    BY <1>1, WithFacts
  <2>2. i \in 1..(Len(kids[this]) + 1) /\ i < i + 1
    BY <1>1
  <2>3. QED
    BY <1>2, <2>1, <2>2
<1>4. IsTree(G, root)
  BY <1>1, GraftTree
<1>5. DOMAIN J = D \cup C /\ \A p \in D \cup C : p # this => G[p] = J[p]
  BY DEF Grafted, Beside
<1> DEFINE U == Under(G, child)
           W == Under(J, child)
<1>6. this \notin U
  BY <1>2, <1>3, <1>4, CutTree
<1> HIDE DEF G, J, child
<1>7. /\ child \in U /\ U \subseteq D \cup C /\ Closed(G, U)
      /\ \A S \in SUBSET (D \cup C) : child \in S /\ Closed(G, S) => U \subseteq S
  BY <1>1, <1>2, <1>4, UnderFacts
<1> HIDE DEF U
<1>8. Closed(J, U)
  BY <1>5, <1>6, <1>7 DEF Closed
<1>9. W \subseteq U /\ child \in W
  BY <1>1, <1>5, <1>7, <1>8 DEF Under
<1>10. Closed(J, W)
  <2>1. SUFFICES ASSUME NEW p \in W, NEW c \in Range(J[p]) PROVE c \in W
    BY DEF Closed
  <2>2. p \in U /\ p \in D \cup C
    BY <1>7, <1>9
  <2>3. c \in D \cup C
    BY <1>7, <1>8, <2>1, <2>2 DEF Closed
  <2>4. ASSUME NEW S \in SUBSET (D \cup C), child \in S, Closed(J, S) PROVE c \in S
    <3>1. p \in S
      BY <1>5, <2>1, <2>4 DEF Under
    <3>2. QED
      BY <2>1, <2>4, <3>1 DEF Closed
  <2>5. QED
    BY <1>5, <2>3, <2>4 DEF Under
<1>11. Closed(G, W)
  <2>1. ASSUME NEW p \in W PROVE G[p] = J[p]
    BY <1>5, <1>6, <1>7, <1>9
  <2>2. QED
    BY <1>10, <2>1 DEF Closed
<1>12. U \subseteq W
  BY <1>7, <1>9, <1>11
<1>13. U = W
  BY <1>9, <1>12
<1>14. QED
  BY <1>1, <1>2, <1>3, <1>13 DEF G, J, child, U

\* A node linked in the place of another is one linked behind it, which is then unlinked.
LEMMA PlacedRepresents ==
  ASSUME NEW h, NEW kids, Represents(h, kids), NEW new, NEW top, NEW g,
         Extended(h, kids, new, top, g),
         NEW this \in DOMAIN kids, NEW i \in 1..Len(kids[this])
  PROVE  Represents(PutInPlace(g, this, kids[this][i], top),
                    Cut(Grafted(kids, this, i + 1, new, top), this, i))
<1> DEFINE D == DOMAIN kids
           old == kids[this][i]
           J == Beside(kids, new)
           G == Grafted(kids, this, i + 1, new, top)
           U == Under(G, old)
           p == g[old].prev
           x == g[old].next
           g2 == LinkAfter(g, this, old, top)
           h1 == [g EXCEPT ![top].next = x]
           h2 == [h1 EXCEPT ![top].prev = p]
           h3 == [h2 EXCEPT ![top].parent = this]
           b  == Bridge(h3, this, old, top, top)
           r  == Freed(b, U)
           T == {g[n].type : n \in DOMAIN g}
           V == {g[n].value : n \in DOMAIN g}
           A == {g[n].attrs : n \in DOMAIN g}
<1>1. /\ IsTree(kids, Doc) /\ IsTree(new, top) /\ D \cap DOMAIN new = {}
      /\ DOMAIN g = D \cup DOMAIN new /\ Heap(g)
  BY DEF Represents, Extended
<1>2. /\ Forest(J) /\ Links(g, J) /\ Sound(g) /\ top \in DOMAIN g /\ top \notin D
      /\ J[this] = kids[this] /\ DOMAIN J = DOMAIN g /\ this \in DOMAIN J
  <2>1. DOMAIN J = D \cup DOMAIN new
    BY DEF Beside
  <2>2. QED
    BY <1>1, <2>1, ExtendedFacts
<1>3. /\ G[this][i] = old /\ i \in 1..Len(G[this]) /\ this \in DOMAIN G
      /\ i + 1 \in 1..(Len(kids[this]) + 1)
      /\ Under(J, old) = U
  BY <1>1, UnderSame
<1>4. /\ old \in DOMAIN g /\ i \in Int
      /\ old = Entry(kids[this], i)
      /\ p = Entry(kids[this], i - 1) /\ x = Entry(kids[this], i + 1)
      /\ p \in DOMAIN g \cup {NULL} /\ x \in DOMAIN g \cup {NULL}
      /\ p # old /\ x # old
      /\ p = x => p = NULL
  <2>1. i \in 1..Len(J[this])
    BY <1>2
  <2>2. QED
    BY <1>2, <2>1, ChildPointers
<1>5. p # top /\ x # top /\ old # top /\ NULL \notin DOMAIN g /\ top # NULL /\ old # NULL
  <2>1. \A j \in Int : Entry(kids[this], j) \in D \cup {NULL}
    <3>1. kids[this] \in Seq(D)
      BY <1>1, TreeForest, ForestList
    <3>2. QED
      BY <3>1, EntryFacts
  <2>2. NULL \notin DOMAIN g
    BY <1>2, NodeNumbers DEF Forest
  <2>3. i - 1 \in Int /\ i + 1 \in Int
    BY <1>4
  <2>4. p \in D \cup {NULL} /\ x \in D \cup {NULL} /\ old \in D \cup {NULL}
    BY <1>4, <2>1, <2>3
  <2>5. QED
    BY <1>2, <1>4, <2>2, <2>4
<1>6. IsHeap(g, T, V, A)
  BY <1>1 DEF Heap
<1>7. DOMAIN g \subseteq Node
  BY <1>6 DEF IsHeap
<1>8. p \in Pointer /\ x \in Pointer /\ this \in Pointer /\ top \in Pointer /\ this \in DOMAIN g
  BY <1>1, <1>2, <1>4, <1>7 DEF Pointer
<1>9. Below(g, old) = U
  <2>1. \A q \in DOMAIN J : Children(g, q) = J[q]
    BY <1>2, ChildrenIs
  <2>2. QED
    BY <1>2, <1>3, <2>1, BelowIs
<1>10. PutInPlace(g, this, old, top) = r
  BY <1>9 DEF PutInPlace
<1>j. i + 1 - 1 = i
  BY <1>4
<1>q. g[old].prev = p /\ g[old].next = x
  OBVIOUS
<1> HIDE DEF T, V, A, old, p, x, U, G, J
<1>11. IsHeap(g2, T, V, A) /\ Spliced(g, g2, this, old, x, top)
  BY <1>2, <1>4, <1>5, <1>6, <1>8, <1>q, AfterSplice
<1> HIDE DEF g2
<1>12. Represents(g2, G)
  <2>1. Heap(g2)
    BY <1>11, IsHeapHeap
  <2>2. Spliced(g, g2, this, Entry(kids[this], i + 1 - 1), Entry(kids[this], i + 1), top)
    BY <1>4, <1>11, <1>j
  <2>3. QED
    BY <1>3, <2>1, <2>2, Inserted DEF G
\* The assignments.
<1>13a. NextSet(g, h1, top, x)
  BY DEF NextSet
<1> HIDE DEF h1
<1>13. /\ IsHeap(h1, T, V, A) /\ DOMAIN h1 = DOMAIN g
       /\ \A m \in DOMAIN g :
            /\ h1[m].next = (IF m = top THEN x ELSE g[m].next)
            /\ h1[m].parent = g[m].parent /\ h1[m].prev = g[m].prev
            /\ h1[m].firstChild = g[m].firstChild /\ h1[m].lastChild = g[m].lastChild
            /\ h1[m].type = g[m].type /\ h1[m].value = g[m].value /\ h1[m].attrs = g[m].attrs
  BY <1>2, <1>6, <1>8, <1>13a, SetNext
<1>14a. PrevSet(h1, h2, top, p)
  BY DEF PrevSet
<1> HIDE DEF h2
<1>14. /\ IsHeap(h2, T, V, A) /\ DOMAIN h2 = DOMAIN g
       /\ \A m \in DOMAIN g :
            /\ h2[m].prev = (IF m = top THEN p ELSE h1[m].prev)
            /\ h2[m].parent = h1[m].parent /\ h2[m].next = h1[m].next
            /\ h2[m].firstChild = h1[m].firstChild /\ h2[m].lastChild = h1[m].lastChild
            /\ h2[m].type = h1[m].type /\ h2[m].value = h1[m].value /\ h2[m].attrs = h1[m].attrs
  BY <1>2, <1>8, <1>13, <1>14a, SetPrev
<1>15a. ParentSet(h2, h3, top, this)
  BY DEF ParentSet
<1> HIDE DEF h3
<1>15. /\ IsHeap(h3, T, V, A) /\ DOMAIN h3 = DOMAIN g
       /\ \A m \in DOMAIN g :
            /\ h3[m].parent = (IF m = top THEN this ELSE h2[m].parent)
            /\ h3[m].prev = h2[m].prev /\ h3[m].next = h2[m].next
            /\ h3[m].firstChild = h2[m].firstChild /\ h3[m].lastChild = h2[m].lastChild
            /\ h3[m].type = h2[m].type /\ h3[m].value = h2[m].value /\ h3[m].attrs = h2[m].attrs
  BY <1>2, <1>8, <1>14, <1>15a, SetParent
<1>16. h3[old].prev = p /\ h3[old].next = x
  BY <1>4, <1>5, <1>13, <1>14, <1>15, <1>q
<1>17. /\ IsHeap(b, T, V, A) /\ DOMAIN b = DOMAIN g
       /\ \A m \in DOMAIN g :
            /\ b[m].parent = h3[m].parent
            /\ b[m].prev = (IF m = x THEN top ELSE h3[m].prev)
            /\ b[m].next = (IF m = p THEN top ELSE h3[m].next)
            /\ b[m].firstChild = (IF m = this /\ p = NULL THEN top ELSE h3[m].firstChild)
            /\ b[m].lastChild = (IF m = this /\ x = NULL THEN top ELSE h3[m].lastChild)
            /\ b[m].type = h3[m].type /\ b[m].value = h3[m].value /\ b[m].attrs = h3[m].attrs
  <2>1. BridgeMade(h3, b, this, old, top, top)
    BY DEF BridgeMade
  <2> HIDE DEF b
  <2>2. this \in DOMAIN h3 /\ old \in DOMAIN h3 /\ p \in DOMAIN h3 \cup {NULL}
        /\ x \in DOMAIN h3 \cup {NULL}
    BY <1>4, <1>8, <1>15
  <2>3. QED
    BY <1>4, <1>8, <1>15, <1>16, <2>1, <2>2, BridgeFields
<1>18a. FreedFrom(b, r, U)
  BY DEF FreedFrom
<1> HIDE DEF b, r
<1>18. /\ IsHeap(r, T, V, A) /\ DOMAIN r = DOMAIN g \ U
       /\ \A m \in DOMAIN g \ U : r[m] = b[m]
  <2>1. IsHeap(r, T, V, A) /\ LeftBy(b, r, U)
    BY <1>17, <1>18a, FreedHeap
  <2>2. QED
    BY <1>17, <2>1 DEF LeftBy
<1>19. /\ DOMAIN r = DOMAIN g \ U
       /\ \A m \in DOMAIN g \ U :
            /\ r[m].parent = (IF m = top THEN this ELSE g[m].parent)
            /\ r[m].prev = (IF m = x THEN top ELSE IF m = top THEN p ELSE g[m].prev)
            /\ r[m].next = (IF m = p THEN top ELSE IF m = top THEN x ELSE g[m].next)
            /\ r[m].firstChild = (IF m = this /\ p = NULL THEN top ELSE g[m].firstChild)
            /\ r[m].lastChild = (IF m = this /\ x = NULL THEN top ELSE g[m].lastChild)
            /\ r[m].type = g[m].type /\ r[m].value = g[m].value /\ r[m].attrs = g[m].attrs
  BY <1>13, <1>14, <1>15, <1>17, <1>18
<1>20. /\ DOMAIN g2 = DOMAIN g
       /\ \A m \in DOMAIN g :
            /\ g2[m].parent = (IF m = top THEN this ELSE g[m].parent)
            /\ g2[m].prev = (IF m = top THEN old ELSE IF m = x THEN top ELSE g[m].prev)
            /\ g2[m].next = (IF m = top THEN x ELSE IF m = old THEN top ELSE g[m].next)
            /\ g2[m].firstChild = g[m].firstChild
            /\ g2[m].lastChild = (IF m = this /\ x = NULL THEN top ELSE g[m].lastChild)
            /\ g2[m].type = g[m].type /\ g2[m].value = g[m].value /\ g2[m].attrs = g[m].attrs
  BY <1>5, <1>11 DEF Spliced
<1>21. g2[old].prev = p /\ g2[old].next = top
  BY <1>4, <1>5, <1>20, <1>q
<1>22. old \in U
  <2>1. IsTree(G, Doc) /\ G[this][i] \in DOMAIN G
    <3>1. IsTree(G, Doc)
      BY <1>12 DEF Represents
    <3>2. QED
      BY <1>3, <3>1, TreeFacts
  <2>2. QED
    BY <1>3, <2>1, UnderFacts DEF U
<1>23. Bridged(g2, r, this, old, U)
  <2>1. ASSUME NEW m \in DOMAIN r
        PROVE  /\ r[m].parent = g2[m].parent
               /\ r[m].prev = (IF m = top THEN p ELSE g2[m].prev)
               /\ r[m].next = (IF m = p THEN top ELSE g2[m].next)
               /\ r[m].firstChild = (IF m = this /\ p = NULL THEN top ELSE g2[m].firstChild)
               /\ r[m].lastChild = g2[m].lastChild
               /\ r[m].type = g2[m].type /\ r[m].value = g2[m].value /\ r[m].attrs = g2[m].attrs
    <3>1. m \in DOMAIN g \ U /\ m \in DOMAIN g /\ m # old
      BY <1>19, <1>22
    <3>2. QED
      BY <1>5, <1>19, <1>20, <3>1
  <2>2. QED
    BY <1>5, <1>19, <1>20, <1>21, <2>1 DEF Bridged
<1>24. Heap(r)
  BY <1>18, IsHeapHeap
<1>25. Represents(r, Cut(G, this, i))
  BY <1>3, <1>12, <1>23, <1>24, Removed DEF U
<1>26. QED
  BY <1>10, <1>25 DEF old, G

\* Two heaps of different nodes.
JoinMade(h, new, g) == g = Joined(h, new)

\* Two heaps joined are a heap.
LEMMA JoinHeap ==
  ASSUME NEW h, Heap(h), NEW new, Heap(new), DOMAIN h \cap DOMAIN new = {},
         NEW g, JoinMade(h, new, g)
  PROVE  /\ Heap(g) /\ DOMAIN g = DOMAIN h \cup DOMAIN new
         /\ \A m \in DOMAIN h : g[m] = h[m]
         /\ \A m \in DOMAIN new : g[m] = new[m]
<1>1. /\ DOMAIN g = DOMAIN h \cup DOMAIN new
      /\ \A m \in DOMAIN h : g[m] = h[m]
      /\ \A m \in DOMAIN new : g[m] = new[m]
      /\ g = [m \in DOMAIN g |-> g[m]]
  <2>1. g = [m \in DOMAIN h \cup DOMAIN new |-> IF m \in DOMAIN h THEN h[m] ELSE new[m]]
    BY DEF JoinMade, Joined
  <2>2. QED
    BY <2>1
<1> DEFINE T1(f) == {f[m].type : m \in DOMAIN f}
           V1(f) == {f[m].value : m \in DOMAIN f}
           A1(f) == {f[m].attrs : m \in DOMAIN f}
           T == T1(h) \cup T1(new)
           V == V1(h) \cup V1(new)
           A == A1(h) \cup A1(new)
<1>2. IsHeap(h, T1(h), V1(h), A1(h)) /\ IsHeap(new, T1(new), V1(new), A1(new))
  BY DEF Heap
<1> HIDE DEF T1, V1, A1
<1>3. IsHeap(h, T, V, A) /\ IsHeap(new, T, V, A)
  <2>1. /\ T1(h) \subseteq T /\ V1(h) \subseteq V /\ A1(h) \subseteq A
        /\ T1(new) \subseteq T /\ V1(new) \subseteq V /\ A1(new) \subseteq A
    OBVIOUS
  <2> HIDE DEF T, V, A
  <2>2. QED
    BY <1>2, <2>1, IsHeapMore
<1> HIDE DEF T, V, A
<1>4. IsHeap(g, T, V, A)
  <2>1. \A m \in DOMAIN h : h[m] \in Record(T, V, A)
    BY <1>3 DEF IsHeap
  <2>2. \A m \in DOMAIN new : new[m] \in Record(T, V, A)
    BY <1>3 DEF IsHeap
  <2>3. \A m \in DOMAIN g : g[m] \in Record(T, V, A)
    BY <1>1, <2>1, <2>2
  <2>4. DOMAIN g \subseteq Node
    BY <1>1, <1>3 DEF IsHeap
  <2>5. QED
    BY <1>1, <2>3, <2>4 DEF IsHeap
<1>5. QED
  BY <1>1, <1>4, IsHeapHeap

\* What a loop over a set of attributes finds is one too.
LEMMA IteratedSet ==
  ASSUME NEW attrs, IsSet(attrs)
  PROVE  IsSet(Iterated(attrs))
<1> DEFINE ends == {i \in DOMAIN attrs \ {1} : attrs[i] = <<"", <<>>>>}
           n == Len(attrs)
<1>1. attrs \in Seq(Range(attrs)) /\ n \in Nat /\ DOMAIN attrs = 1..n
  BY DEF IsSet
<1>2. CASE ends = {}
  BY <1>2 DEF Iterated
<1>3. CASE ends # {}
  <2>1. ends \in SUBSET (1..n)
    BY <1>1
  <2> DEFINE e == Min(ends)
             q == SubSeq(attrs, 1, e - 1)
  <2>2. e \in 1..n
    <3> HIDE DEF ends
    <3>1. QED
      BY <1>1, <1>3, <2>1, MinMax
  <2>3. Iterated(attrs) = q
    BY <1>3 DEF Iterated
  <2> HIDE DEF e, n
  <2>4. DOMAIN q = 1..(e - 1) /\ Len(q) = e - 1 /\ \A i \in 1..(e - 1) : q[i] = attrs[i] /\ i \in 1..n
    BY <1>1, <2>2 DEF n
  <2>5. q \in Seq(Range(q))
    <3>1. q = [i \in 1..(e - 1) |-> attrs[i]]
      BY <1>1, <2>2 DEF n
    <3> HIDE DEF q
    <3>2. e - 1 \in Nat /\ \A i \in 1..(e - 1) : q[i] \in Range(q)
      BY <1>1, <2>2, <2>4 DEF Range
    <3>3. q \in [1..(e - 1) -> Range(q)]
      BY <3>1, <3>2
    <3>4. QED
      BY <3>2, <3>3
  <2> HIDE DEF q
  <2>6. \A i, j \in DOMAIN q : q[i][1] = q[j][1] => i = j
    BY <1>1, <2>4 DEF IsSet
  <2>7. QED
    BY <2>3, <2>5, <2>6 DEF IsSet
<1>4. QED
  BY <1>2, <1>3

\* A heap with another tree, whose labels are not those of a document.
LEMMA ExtendedIntro ==
  ASSUME NEW h, NEW kids, Represents(h, kids), NEW new, NEW top, IsTree(new, top),
         DOMAIN kids \cap DOMAIN new = {},
         NEW l, Heap(l), Links(l, new), Free(l, new, top),
         \A m \in DOMAIN new : l[m].type # "document" /\ IsSet(l[m].attrs),
         NEW g, JoinMade(h, l, g)
  PROVE  Extended(h, kids, new, top, g)
<1>1. DOMAIN h = DOMAIN kids /\ DOMAIN l = DOMAIN new /\ Heap(h)
  BY DEF Represents, Links
<1>2. /\ Heap(g) /\ DOMAIN g = DOMAIN kids \cup DOMAIN new
      /\ \A m \in DOMAIN kids : g[m] = h[m]
      /\ \A m \in DOMAIN new : g[m] = l[m]
  <2>1. DOMAIN h \cap DOMAIN l = {}
    BY <1>1
  <2>2. QED
    BY <1>1, <2>1, JoinHeap
<1>3. top \in DOMAIN new /\ \A p \in DOMAIN new : \A i \in 1..Len(new[p]) : new[p][i] \in DOMAIN new
  <2>1. top \in DOMAIN new
    BY TreeFacts
  <2>2. \A p \in DOMAIN new : \A i \in 1..Len(new[p]) : new[p][i] \in DOMAIN new
    BY TreeFacts
  <2>3. QED
    BY <2>1, <2>2
<1>4. \A m \in DOMAIN new : g[m].type # "document" /\ IsSet(g[m].attrs)
  BY <1>2
<1>5. \A m \in DOMAIN new : /\ g[m].firstChild = Entry(new[m], 1)
                            /\ g[m].lastChild = Entry(new[m], Len(new[m]))
  BY <1>2 DEF Links
<1>6. \A p \in DOMAIN new : \A i \in 1..Len(new[p]) :
        /\ g[new[p][i]].parent = p
        /\ g[new[p][i]].prev = Entry(new[p], i - 1)
        /\ g[new[p][i]].next = Entry(new[p], i + 1)
  BY <1>2, <1>3 DEF Links
<1>7. g[top].parent = NULL /\ g[top].prev = NULL /\ g[top].next = NULL
  BY <1>2, <1>3 DEF Free
<1>8. QED
  BY <1>2, <1>4, <1>5, <1>6, <1>7 DEF Extended

\* Clone.
LEMMA CloneExtends ==
  ASSUME NEW h, NEW kids, Represents(h, kids), NEW n \in DOMAIN h, n # Doc, Copies(h, n) # {}
  PROVE  \E new : Extended(h, kids, new, Clone(h, n).node, Clone(h, n).heap)
<1> DEFINE U    == Under(kids, n)
           copy == CHOOSE c \in Copies(h, n) : TRUE
           Original(c) == CHOOSE m \in DOMAIN copy : copy[m] = c
           label == [c \in Range(copy) |-> CopiedLabel(h[Original(c)])]
           new  == [c \in Range(copy) |->
                      LET list == Children(h, Original(c)) IN [i \in DOMAIN list |-> copy[list[i]]]]
           l    == Linked(label, new)
           g    == Joined(h, l)
           K    == Branch(kids, n)
           T    == {label[c].type : c \in Range(copy)}
           V    == {label[c].value : c \in Range(copy)}
           A    == {label[c].attrs : c \in Range(copy)}
<1>1. Clone(h, n) = [heap |-> g, node |-> copy[n]]
  BY Zenon DEF Clone
<1>2. /\ IsTree(kids, Doc) /\ Labelled(h) /\ DOMAIN h = DOMAIN kids
      /\ \A p \in DOMAIN kids : Children(h, p) = kids[p]
      /\ n \in DOMAIN kids /\ DOMAIN h \subseteq Node
  BY RepresentsFacts DEF Represents
<1>3. Below(h, n) = U
  BY <1>2, BelowIs
<1>4. n \in U /\ U \subseteq DOMAIN kids /\ (Doc \in U => n = Doc)
  BY <1>2, UnderFacts
<1>5. /\ copy \in [U -> Node \ DOMAIN h] /\ DOMAIN copy = U
      /\ \A p, q \in U : copy[p] = copy[q] => p = q
  <2>1. copy \in Injection(U, Node \ DOMAIN h)
    BY <1>3 DEF Copies
  <2> HIDE DEF copy
  <2>2. QED
    BY <2>1 DEF Injection, IsInjective
<1> HIDE DEF copy, U
<1>6. /\ Range(copy) = {copy[m] : m \in U} /\ Range(copy) \cap DOMAIN kids = {}
      /\ \A m \in U : Original(copy[m]) = m /\ copy[m] \in Range(copy)
  <2>1. Range(copy) = {copy[m] : m \in U}
    BY <1>5 DEF Range
  <2>2. ASSUME NEW m \in U PROVE Original(copy[m]) = m
    <3>1. \E k \in DOMAIN copy : copy[k] = copy[m]
      BY <1>5
    <3>2. Original(copy[m]) \in U /\ copy[Original(copy[m])] = copy[m]
      BY <1>5, <3>1
    <3> HIDE DEF Original
    <3>3. QED
      BY <1>5, <3>2
  <2>3. QED
    BY <1>2, <1>5, <2>1, <2>2
<1> HIDE DEF Original
<1>7. /\ DOMAIN new = {copy[m] : m \in U}
      /\ \A m \in U : new[copy[m]] = [i \in DOMAIN kids[m] |-> copy[kids[m][i]]]
  <2>1. ASSUME NEW m \in U PROVE new[copy[m]] = [i \in DOMAIN kids[m] |-> copy[kids[m][i]]]
    BY <1>2, <1>4, <1>6
  <2>2. QED
    BY <1>6, <2>1
<1>8. DOMAIN label = DOMAIN new /\ \A m \in U : label[copy[m]] = CopiedLabel(h[m])
  BY <1>6
<1>9. DOMAIN K = U /\ \A m \in U : K[m] = kids[m]
  BY DEF Branch, U
<1>10. IsTree(K, n)
  BY <1>2, BranchTree
<1>11. LabelsIn(label, new, T, V, A)
  BY DEF LabelsIn
<1> HIDE DEF new, label, K, T, V, A
<1>l. LinkedMade(label, new, l)
  BY DEF LinkedMade
<1>12. IsTree(new, copy[n])
  <2>1. copy \in [DOMAIN K -> Node]
    BY <1>5, <1>9
  <2>2. \A m \in DOMAIN K : new[copy[m]] = [i \in DOMAIN K[m] |-> copy[K[m][i]]]
    BY <1>7, <1>9
  <2>3. DOMAIN new = {copy[m] : m \in DOMAIN K}
    BY <1>7, <1>9
  <2>4. \A p, q \in DOMAIN K : copy[p] = copy[q] => p = q
    BY <1>5, <1>9
  <2>5. QED
    BY <1>10, <2>1, <2>2, <2>3, <2>4, CopyTree
<1>13. IsHeap(l, T, V, A) /\ Links(l, new) /\ LinkedAs(label, new, l)
  <2>1. Forest(new)
    BY <1>12, TreeForest
  <2> HIDE DEF l
  <2>2. QED
    BY <1>11, <1>l, <2>1, LinkedLinks
<1>14. Free(l, new, copy[n])
  <2>1. copy[n] \in DOMAIN new
    BY <1>12, TreeFacts
  <2>2. \A p \in DOMAIN new : \A i \in 1..Len(new[p]) : new[p][i] # copy[n]
    BY <1>12, TreeFacts
  <2> HIDE DEF l
  <2>3. QED
    BY <1>13, <2>1, <2>2 DEF LinkedAs
<1>15. ASSUME NEW c \in DOMAIN new PROVE l[c].type # "document" /\ IsSet(l[c].attrs)
  <2>1. PICK m \in U : c = copy[m]
    BY <1>7
  <2>2. m # Doc /\ m \in DOMAIN h
    BY <1>2, <1>4, <2>1
  <2>3. h[m].type # "document" /\ IsSet(h[m].attrs)
    BY <1>2, <2>2 DEF Labelled
  <2>4. label[c].type # "document" /\ IsSet(label[c].attrs)
    <3>1. label[c] = CopiedLabel(h[m])
      BY <1>8, <2>1
    <3>2. label[c].type = h[m].type /\ label[c].attrs = Iterated(h[m].attrs)
      BY <3>1 DEF CopiedLabel
    <3>3. IsSet(Iterated(h[m].attrs))
      BY <2>3, IteratedSet
    <3>4. QED
      BY <2>3, <3>2, <3>3
  <2> HIDE DEF l
  <2>5. QED
    BY <1>13, <2>4 DEF LinkedAs
<1>16. DOMAIN kids \cap DOMAIN new = {}
  BY <1>6, <1>7
<1>17. Heap(l)
  BY <1>13, IsHeapHeap
<1>18. JoinMade(h, l, g)
  BY DEF JoinMade
<1> HIDE DEF l, g
<1>19. Extended(h, kids, new, copy[n], g)
  BY <1>12, <1>14, <1>15, <1>16, <1>17, <1>13, <1>18, ExtendedIntro
<1>20. QED
  BY <1>1, <1>19

\* A node that has just been created.
LEMMA SingleTree ==
  ASSUME NEW n \in Node, NEW kids, kids = [m \in {n} |-> <<>>]
  PROVE  IsTree(kids, n) /\ DOMAIN kids = {n} /\ kids[n] = <<>> /\ Len(kids[n]) = 0
<1>1. DOMAIN kids = {n} /\ kids[n] = <<>> /\ Len(kids[n]) = 0
  OBVIOUS
<1>2. kids[n] = [i \in 1..Len(kids[n]) |-> kids[n][i]]
  BY <1>1
<1>3. TreeParts(kids, n)
  BY <1>1, <1>2 DEF TreeParts
<1>4. QED
  BY <1>1, <1>3, TreeIntro

\* The heap of one new node.
NewMade(n, t, l) == l = [m \in {n} |-> NewNode(t)]

\* A new node is linked as a tree of one.
LEMMA NewLinks ==
  ASSUME NEW n \in Node, NEW t, NEW l, NewMade(n, t, l), NEW kids, DOMAIN kids = {n}, kids[n] = <<>>
  PROVE  /\ Heap(l) /\ Links(l, kids) /\ Free(l, kids, n)
         /\ l[n].type = t.type /\ l[n].attrs = t.attrs
<1>1. DOMAIN l = {n} /\ l[n] = NewNode(t) /\ l = [m \in {n} |-> l[m]]
  BY DEF NewMade
<1>2. l[n] = [type |-> t.type, value |-> t.value, attrs |-> t.attrs, parent |-> NULL,
              firstChild |-> NULL, lastChild |-> NULL, prev |-> NULL, next |-> NULL]
  BY <1>1 DEF NewNode
<1>3. IsHeap(l, {t.type}, {t.value}, {t.attrs})
  <2>1. l[n] \in Record({t.type}, {t.value}, {t.attrs})
    BY <1>2 DEF Record, Pointer
  <2>2. QED
    BY <1>1, <2>1 DEF IsHeap
<1>4. Heap(l)
  BY <1>3, IsHeapHeap
<1>5. Len(kids[n]) = 0 /\ \A i : Entry(kids[n], i) = NULL
  BY DEF Entry
<1>6. Links(l, kids)
  BY <1>1, <1>2, <1>5 DEF Links
<1>7. Free(l, kids, n)
  BY <1>2, <1>5 DEF Free
<1>8. QED
  BY <1>2, <1>4, <1>6, <1>7

\* A new node extends the heap by a tree of one.
LEMMA NewExtends ==
  ASSUME NEW h, NEW kids, Represents(h, kids), NEW n \in Node \ DOMAIN h,
         NEW t, t.type # "document", IsSet(t.attrs), NEW l, NewMade(n, t, l),
         NEW g, JoinMade(h, l, g)
  PROVE  \E new : Extended(h, kids, new, n, g)
<1> DEFINE new == [m \in {n} |-> <<>>]
<1>1. IsTree(new, n) /\ DOMAIN new = {n} /\ new[n] = <<>>
  BY SingleTree
<1> HIDE DEF new
<1>2. /\ Heap(l) /\ Links(l, new) /\ Free(l, new, n)
      /\ l[n].type = t.type /\ l[n].attrs = t.attrs
  BY <1>1, NewLinks
<1>3. DOMAIN kids \cap DOMAIN new = {}
  BY <1>1, RepresentsFacts
<1>4. \A m \in DOMAIN new : l[m].type # "document" /\ IsSet(l[m].attrs)
  BY <1>1, <1>2
<1>5. Extended(h, kids, new, n, g)
  BY <1>1, <1>2, <1>3, <1>4, ExtendedIntro
<1>6. QED
  BY <1>5

\* What is needed to link a new node between two children.
LEMMA ExtendedEntries ==
  ASSUME NEW h, NEW kids, Represents(h, kids), NEW new, NEW top, NEW g,
         Extended(h, kids, new, top, g), NEW this \in DOMAIN kids
  PROVE  /\ Heap(g) /\ this \in DOMAIN g /\ top \in DOMAIN g /\ DOMAIN kids \subseteq DOMAIN g
         /\ \A j \in Int : /\ Entry(kids[this], j) \in DOMAIN g \cup {NULL}
                           /\ Entry(kids[this], j) # top
         /\ g[this].lastChild = Entry(kids[this], Len(kids[this]))
         /\ \A i \in 1..Len(kids[this]) :
              /\ kids[this][i] \in DOMAIN g /\ kids[this][i] # top
              /\ kids[this][i] = Entry(kids[this], i)
              /\ g[kids[this][i]].prev = Entry(kids[this], i - 1)
              /\ g[kids[this][i]].next = Entry(kids[this], i + 1)
         /\ Len(kids[this]) \in Nat
<1>1. /\ Heap(g) /\ DOMAIN g = DOMAIN kids \cup DOMAIN new /\ IsTree(kids, Doc)
      /\ \A m \in DOMAIN kids : g[m] = h[m]
  BY DEF Extended, Represents
<1>2. top \in DOMAIN g /\ top \notin DOMAIN kids
  BY ExtendedFacts
<1>3. NULL \notin DOMAIN g
  BY <1>1, NodeNumbers DEF Heap, IsHeap
<1>4. kids[this] \in Seq(DOMAIN kids) /\ Len(kids[this]) \in Nat
  BY <1>1, TreeForest, ForestList
<1>5. \A j \in Int : /\ Entry(kids[this], j) \in DOMAIN g \cup {NULL}
                     /\ Entry(kids[this], j) # top
  <2>1. \A j \in Int : Entry(kids[this], j) \in DOMAIN kids \cup {NULL}
    BY <1>4, EntryFacts
  <2>2. QED
    BY <1>1, <1>2, <1>3, <2>1
<1>6. g[this].lastChild = Entry(kids[this], Len(kids[this]))
  BY <1>1 DEF Represents, Links
<1>7. ASSUME NEW i \in 1..Len(kids[this])
      PROVE  /\ kids[this][i] \in DOMAIN g /\ kids[this][i] # top
             /\ kids[this][i] = Entry(kids[this], i)
             /\ g[kids[this][i]].prev = Entry(kids[this], i - 1)
             /\ g[kids[this][i]].next = Entry(kids[this], i + 1)
  <2>1. kids[this][i] \in DOMAIN kids /\ kids[this][i] = Entry(kids[this], i)
    <3>1. i \in Int
      BY <1>4
    <3>2. Entry(kids[this], i) = kids[this][i] /\ Entry(kids[this], i) \in DOMAIN kids
      BY <1>4, <3>1, EntryFacts
    <3>3. QED
      BY <3>2
  <2>2. h[kids[this][i]].prev = Entry(kids[this], i - 1) /\ h[kids[this][i]].next = Entry(kids[this], i + 1)
    BY DEF Represents, Links
  <2>3. QED
    BY <1>1, <1>2, <2>1, <2>2
<1>8. QED
  BY <1>1, <1>2, <1>4, <1>5, <1>6, <1>7

\* LinkEndChild.
LEMMA EndRepresents ==
  ASSUME NEW h, NEW kids, Represents(h, kids), NEW new, NEW top, NEW g,
         Extended(h, kids, new, top, g), NEW this \in DOMAIN kids
  PROVE  \E k : Represents(LinkEndChild(g, this, top), k)
<1> DEFINE T == {g[n].type : n \in DOMAIN g}
           V == {g[n].value : n \in DOMAIN g}
           A == {g[n].attrs : n \in DOMAIN g}
           last == Entry(kids[this], Len(kids[this]))
           g2 == LinkEndChild(g, this, top)
<1>1. /\ Heap(g) /\ this \in DOMAIN g /\ top \in DOMAIN g /\ Len(kids[this]) \in Nat
      /\ last \in DOMAIN g \cup {NULL} /\ last # top /\ g[this].lastChild = last
  BY ExtendedEntries
<1>2. IsHeap(g, T, V, A)
  BY <1>1 DEF Heap
<1> HIDE DEF T, V, A, last
<1>3. IsHeap(g2, T, V, A) /\ Spliced(g, g2, this, last, NULL, top)
  BY <1>1, <1>2, EndSplice
<1> HIDE DEF g2
<1>4. Heap(g2)
  BY <1>3, IsHeapHeap
<1> DEFINE i == Len(kids[this]) + 1
<1>5. /\ i \in 1..(Len(kids[this]) + 1) /\ i - 1 = Len(kids[this])
      /\ Entry(kids[this], i) = NULL
  <2>1. i \in Int /\ i \notin 1..Len(kids[this])
    BY <1>1
  <2>2. kids[this] \in Seq(DOMAIN kids)
    BY TreeForest, ForestList DEF Represents
  <2> HIDE DEF i
  <2>3. Entry(kids[this], i) = NULL
    BY <2>1, <2>2, EntryFacts
  <2>4. QED
    BY <1>1, <2>3 DEF i
<1>6. Spliced(g, g2, this, Entry(kids[this], i - 1), Entry(kids[this], i), top)
  BY <1>3, <1>5 DEF last
<1> HIDE DEF i
<1>7. Represents(g2, Grafted(kids, this, i, new, top))
  BY <1>4, <1>5, <1>6, Inserted
<1>8. QED
  BY <1>7 DEF g2

\* LinkBefore.
LEMMA BeforeRepresents ==
  ASSUME NEW h, NEW kids, Represents(h, kids), NEW new, NEW top, NEW g,
         Extended(h, kids, new, top, g), NEW this \in DOMAIN kids, NEW i \in 1..Len(kids[this])
  PROVE  \E k : Represents(LinkBefore(g, this, kids[this][i], top), k)
<1> DEFINE T == {g[n].type : n \in DOMAIN g}
           V == {g[n].value : n \in DOMAIN g}
           A == {g[n].attrs : n \in DOMAIN g}
           at == kids[this][i]
           before == Entry(kids[this], i - 1)
           g2 == LinkBefore(g, this, at, top)
<1>1. /\ Heap(g) /\ this \in DOMAIN g /\ top \in DOMAIN g /\ Len(kids[this]) \in Nat
      /\ at \in DOMAIN g /\ at # top /\ at = Entry(kids[this], i) /\ g[at].prev = before
  BY ExtendedEntries
<1>2. before \in DOMAIN g \cup {NULL} /\ before # top /\ i \in 1..(Len(kids[this]) + 1)
  <2>1. i - 1 \in Int /\ i \in 1..(Len(kids[this]) + 1)
    BY <1>1
  <2>2. QED
    BY <2>1, ExtendedEntries
<1>3. IsHeap(g, T, V, A)
  BY <1>1 DEF Heap
<1> HIDE DEF T, V, A, before, at
<1>4. IsHeap(g2, T, V, A) /\ Spliced(g, g2, this, before, at, top)
  BY <1>1, <1>2, <1>3, BeforeSplice
<1> HIDE DEF g2
<1>5. Heap(g2)
  BY <1>4, IsHeapHeap
<1>6. Spliced(g, g2, this, Entry(kids[this], i - 1), Entry(kids[this], i), top)
  BY <1>1, <1>4 DEF before
<1>7. Represents(g2, Grafted(kids, this, i, new, top))
  BY <1>2, <1>5, <1>6, Inserted
<1>8. QED
  BY <1>7 DEF g2, at

\* LinkAfter.
LEMMA AfterRepresents ==
  ASSUME NEW h, NEW kids, Represents(h, kids), NEW new, NEW top, NEW g,
         Extended(h, kids, new, top, g), NEW this \in DOMAIN kids, NEW i \in 1..Len(kids[this])
  PROVE  \E k : Represents(LinkAfter(g, this, kids[this][i], top), k)
<1> DEFINE T == {g[n].type : n \in DOMAIN g}
           V == {g[n].value : n \in DOMAIN g}
           A == {g[n].attrs : n \in DOMAIN g}
           at == kids[this][i]
           after == Entry(kids[this], i + 1)
           g2 == LinkAfter(g, this, at, top)
<1>1. /\ Heap(g) /\ this \in DOMAIN g /\ top \in DOMAIN g /\ Len(kids[this]) \in Nat
      /\ at \in DOMAIN g /\ at # top /\ at = Entry(kids[this], i) /\ g[at].next = after
  BY ExtendedEntries
<1>2. /\ after \in DOMAIN g \cup {NULL} /\ after # top
      /\ i + 1 \in 1..(Len(kids[this]) + 1) /\ i + 1 - 1 = i
  <2>1. i + 1 \in Int /\ i + 1 \in 1..(Len(kids[this]) + 1) /\ i + 1 - 1 = i
    BY <1>1
  <2>2. QED
    BY <2>1, ExtendedEntries
<1>3. IsHeap(g, T, V, A)
  BY <1>1 DEF Heap
<1> HIDE DEF T, V, A, after, at
<1>4. IsHeap(g2, T, V, A) /\ Spliced(g, g2, this, at, after, top)
  BY <1>1, <1>2, <1>3, AfterSplice
<1> HIDE DEF g2
<1>5. Heap(g2)
  BY <1>4, IsHeapHeap
<1> DEFINE j == i + 1
<1>6. Spliced(g, g2, this, Entry(kids[this], j - 1), Entry(kids[this], j), top)
  BY <1>1, <1>2, <1>4 DEF after
<1>7. j \in 1..(Len(kids[this]) + 1)
  BY <1>2
<1> HIDE DEF j
<1>8. Represents(g2, Grafted(kids, this, j, new, top))
  BY <1>5, <1>6, <1>7, Inserted
<1>9. QED
  BY <1>8 DEF g2, at

\* An assignment to a node's attributes.
LEMMA AttributesRepresent ==
  ASSUME NEW h, NEW kids, Represents(h, kids), NEW n \in DOMAIN h, NEW attrs, IsSet(attrs)
  PROVE  Represents([h EXCEPT ![n].attrs = attrs], kids)
<1> DEFINE g == [h EXCEPT ![n].attrs = attrs]
           T == {h[m].type : m \in DOMAIN h}
           V == {h[m].value : m \in DOMAIN h}
           A == {h[m].attrs : m \in DOMAIN h}
           B == A \cup {attrs}
<1>1. IsHeap(h, T, V, A)
  BY DEF Represents, Heap
<1>2. IsHeap(h, T, V, B)
  <2>1. A \subseteq B
    OBVIOUS
  <2> HIDE DEF T, V, A, B
  <2>2. QED
    BY <1>1, <2>1, IsHeapMore
<1>3. attrs \in B
  OBVIOUS
<1> HIDE DEF T, V, A, B
<1>4. /\ IsHeap(g, T, V, B) /\ DOMAIN g = DOMAIN h
      /\ \A m \in DOMAIN h :
           /\ g[m].attrs = (IF m = n THEN attrs ELSE h[m].attrs)
           /\ g[m].parent = h[m].parent /\ g[m].prev = h[m].prev /\ g[m].next = h[m].next
           /\ g[m].firstChild = h[m].firstChild /\ g[m].lastChild = h[m].lastChild
           /\ g[m].type = h[m].type
  BY <1>2, <1>3 DEF IsHeap, Record
<1> HIDE DEF g
<1>5. Heap(g)
  BY <1>4, IsHeapHeap
<1>6. IsTree(kids, Doc) /\ Doc \in DOMAIN h /\ DOMAIN h = DOMAIN kids /\ Forest(kids)
  BY RepresentsFacts DEF Represents
<1>7. Links(g, kids)
  <2>1. \A p \in DOMAIN kids : \A i \in 1..Len(kids[p]) : kids[p][i] \in DOMAIN h
    BY <1>6 DEF Forest
  <2>2. QED
    BY <1>4, <1>6, <2>1 DEF Links, Represents
<1>8. Free(g, kids, Doc)
  BY <1>4, <1>6 DEF Free, Represents
<1>9. Labelled(g)
  BY <1>4 DEF Labelled, Represents
<1>10. Represents(g, kids)
  BY <1>5, <1>6, <1>7, <1>8, <1>9 DEF Represents
<1>11. QED
  BY <1>10 DEF g

-----------------------------------------------------------------------------
(* Sets of attributes                                                      *)

\* A sequence without two entries of the same name is a set.
LEMMA SetIntro ==
  ASSUME NEW n \in Nat, NEW l, DOMAIN l = 1..n, l = [i \in 1..n |-> l[i]],
         \A i, j \in 1..n : l[i][1] = l[j][1] => i = j
  PROVE  IsSet(l)
<1>1. \A i \in 1..n : l[i] \in Range(l)
  BY DEF Range
<1>2. l \in [1..n -> Range(l)]
  BY <1>1
<1>3. l \in Seq(Range(l))
  BY <1>2
<1>4. QED
  BY <1>3 DEF IsSet

\* A set of attributes is a sequence, with no name twice.
LEMMA SetFacts ==
  ASSUME NEW attrs, IsSet(attrs)
  PROVE  /\ Len(attrs) \in Nat /\ DOMAIN attrs = 1..Len(attrs)
         /\ attrs = [i \in 1..Len(attrs) |-> attrs[i]]
         /\ \A i, j \in 1..Len(attrs) : attrs[i][1] = attrs[j][1] => i = j
<1>1. attrs \in Seq(Range(attrs))
  BY DEF IsSet
<1>2. Len(attrs) \in Nat /\ DOMAIN attrs = 1..Len(attrs) /\ attrs = [i \in 1..Len(attrs) |-> attrs[i]]
  BY <1>1
<1>3. QED
  BY <1>2 DEF IsSet

\* An attribute is found under its name, and under no other.
LEMMA FindFacts ==
  ASSUME NEW attrs, IsSet(attrs), NEW name
  PROVE  /\ \A i \in 1..Len(attrs) : attrs[i][1] = name => Find(attrs, name) = i
         /\ Find(attrs, name) # NULL =>
              Find(attrs, name) \in 1..Len(attrs) /\ attrs[Find(attrs, name)][1] = name
<1> DEFINE at == {i \in DOMAIN attrs : attrs[i][1] = name}
<1>1. /\ Len(attrs) \in Nat /\ DOMAIN attrs = 1..Len(attrs)
      /\ \A i, j \in 1..Len(attrs) : attrs[i][1] = attrs[j][1] => i = j
  BY SetFacts
<1>2. at \in SUBSET (1..Len(attrs)) /\ \A i \in 1..Len(attrs) : i \in at <=> attrs[i][1] = name
  BY <1>1
<1>3. Find(attrs, name) = IF at = {} THEN NULL ELSE Min(at)
  BY DEF Find
<1> HIDE DEF at
<1>4. CASE at = {}
  BY <1>2, <1>3, <1>4
<1>5. CASE at # {}
  <2>1. Min(at) \in at
    BY <1>1, <1>2, <1>5, MinMax
  <2>2. QED
    BY <1>1, <1>2, <1>3, <1>5, <2>1
<1>6. QED
  BY <1>4, <1>5

\* An attribute that replaces one of the same name.
LEMMA SetReplaced ==
  ASSUME NEW attrs, IsSet(attrs), NEW k \in 1..Len(attrs), NEW a, a[1] = attrs[k][1]
  PROVE  IsSet([attrs EXCEPT ![k] = a])
<1> DEFINE n == Len(attrs)
           l == [attrs EXCEPT ![k] = a]
<1>1. /\ n \in Nat /\ DOMAIN attrs = 1..n
      /\ \A i, j \in 1..n : attrs[i][1] = attrs[j][1] => i = j
  BY SetFacts
<1> HIDE DEF n
<1>2. DOMAIN l = 1..n /\ l = [i \in 1..n |-> l[i]] /\ \A i \in 1..n : l[i] = IF i = k THEN a ELSE attrs[i]
  BY <1>1
<1>3. \A i, j \in 1..n : l[i][1] = l[j][1] => i = j
  BY <1>1, <1>2
<1> HIDE DEF l
<1>4. IsSet(l)
  BY <1>1, <1>2, <1>3, SetIntro
<1>5. QED
  BY <1>4 DEF l

\* FindOrCreate.
LEMMA SetCreated ==
  ASSUME NEW attrs, IsSet(attrs), NEW name
  PROVE  LET l == FindOrCreate(attrs, name) IN
         /\ IsSet(l) /\ Find(l, name) \in 1..Len(l) /\ l[Find(l, name)][1] = name
<1>1. CASE Find(attrs, name) # NULL
  BY <1>1, FindFacts DEF FindOrCreate
<1>2. CASE Find(attrs, name) = NULL
  <2> DEFINE n == Len(attrs)
             s == Append(attrs, <<"", <<>>>>)
             l == [s EXCEPT ![n + 1] = <<name, <<>>>>]
  <2>1. FindOrCreate(attrs, name) = l
    BY <1>2 DEF FindOrCreate, AddToSet
  <2>2. /\ n \in Nat /\ DOMAIN attrs = 1..n /\ attrs = [i \in 1..n |-> attrs[i]]
        /\ \A i, j \in 1..n : attrs[i][1] = attrs[j][1] => i = j
    BY SetFacts
  <2>3. \A i \in 1..n : attrs[i][1] # name
    <3>1. \A i \in 1..n : i # NULL
      BY <2>2 DEF NULL
    <3>2. QED
      BY <1>2, <3>1, FindFacts
  <2>4. DOMAIN s = 1..(n + 1) /\ Len(s) = n + 1 /\ \A i \in 1..n : s[i] = attrs[i]
    <3> DEFINE e == <<"", <<>>>>
               S == Range(attrs) \cup {e}
    <3>1. e \in S /\ \A i \in 1..n : attrs[i] \in S
      BY <2>2 DEF Range
    <3> HIDE DEF e, S
    <3>2. attrs \in Seq(S)
      BY <2>2, <3>1
    <3>3. s = Append(attrs, e)
      BY DEF e
    <3> HIDE DEF s
    <3>4. QED
      BY <2>2, <3>1, <3>2, <3>3, AppendProperties
  <2> HIDE DEF n, s
  <2>5. /\ DOMAIN l = 1..(n + 1) /\ l = [i \in 1..(n + 1) |-> l[i]]
        /\ l[n + 1] = <<name, <<>>>> /\ \A i \in 1..n : l[i] = attrs[i]
        /\ \A i \in 1..(n + 1) : i \in 1..n \/ i = n + 1
        /\ n + 1 \in Nat /\ n + 1 \in 1..(n + 1)
    <3>1. n + 1 \in DOMAIN s /\ \A i \in 1..n : i # n + 1 /\ i \in DOMAIN s
      BY <2>2, <2>4
    <3>2. l[n + 1] = <<name, <<>>>> /\ \A i \in 1..n : l[i] = s[i]
      BY <3>1
    <3>3. DOMAIN l = 1..(n + 1) /\ l = [i \in 1..(n + 1) |-> l[i]]
      BY <2>4
    <3>4. QED
      BY <2>2, <2>4, <3>2, <3>3
  <2> HIDE DEF l
  <2>6. l[n + 1][1] = name
    BY <2>5
  <2>7. \A i, j \in 1..(n + 1) : l[i][1] = l[j][1] => i = j
    BY <2>2, <2>3, <2>5, <2>6
  <2>8. IsSet(l)
    BY <2>5, <2>7, SetIntro
  <2>9. Find(l, name) = n + 1 /\ Len(l) = n + 1
    <3>1. Len(l) \in Nat /\ DOMAIN l = 1..Len(l)
      BY <2>8, SetFacts
    <3>2. Len(l) = n + 1
      BY <2>5, <3>1
    <3>3. QED
      BY <2>5, <2>6, <2>8, <3>2, FindFacts
  <2>10. QED
    BY <2>1, <2>5, <2>6, <2>8, <2>9
<1>3. QED
  BY <1>1, <1>2

\* Remove.
LEMMA SetRemoved ==
  ASSUME NEW attrs, IsSet(attrs), NEW k \in 1..Len(attrs)
  PROVE  IsSet(RemoveFromSet(attrs, k))
<1> DEFINE n == Len(attrs)
           p == SubSeq(attrs, 1, k - 1)
           q == SubSeq(attrs, k + 1, n)
           l == p \o q
<1>1. /\ n \in Nat /\ DOMAIN attrs = 1..n /\ attrs \in Seq(Range(attrs))
      /\ \A i, j \in 1..n : attrs[i][1] = attrs[j][1] => i = j
  BY SetFacts DEF IsSet
<1>2. RemoveFromSet(attrs, k) = l
  BY DEF RemoveFromSet, RemoveAt
<1>k. k \in Int /\ 1 <= k /\ k <= n
  OBVIOUS
<1> DEFINE S == Range(attrs)
<1> HIDE DEF S
<1>s. attrs \in Seq(S) /\ n = Len(attrs)
  BY <1>1 DEF S
<1>3. Len(p) = k - 1 /\ p \in Seq(S) /\ \A i \in 1..(k - 1) : p[i] = attrs[i]
  <2>2. Len(p) = k - 1 /\ p \in Seq(S) /\ \A i \in 1..(k - 1) : p[i] = attrs[1 + i - 1]
    BY <1>1, <1>k, <1>s, SubSeqProperties
  <2>3. \A i \in 1..(k - 1) : 1 + i - 1 = i
    OBVIOUS
  <2>4. QED
    BY <2>2, <2>3
<1>4. Len(q) = n - k /\ q \in Seq(S) /\ \A i \in 1..(n - k) : q[i] = attrs[k + i]
  <2>1. /\ k + 1 \in Int /\ n \in Int /\ n - (k + 1) + 1 = n - k
        /\ (IF k + 1 <= n THEN n - (k + 1) + 1 ELSE 0) = n - k
        /\ \A i \in (k + 1)..n : attrs[i] \in S
    <3>1. \A i \in 1..n : attrs[i] \in S
      BY <1>1, <1>s
    <3>2. \A i \in (k + 1)..n : attrs[i] \in S
      <4>1. \A i \in (k + 1)..n : i \in 1..n
        BY <1>1, <1>k
      <4>2. QED
        BY <3>1, <4>1
    <3>3. k + 1 \in Int /\ n \in Int /\ n - (k + 1) + 1 = n - k
      BY <1>1, <1>k
    <3>4. ~(k + 1 <= n) => n - k = 0
      <4>1. n \in Int
        BY <1>1
      <4>2. n = k \/ k + 1 <= n
        BY <1>k, <4>1
      <4>3. QED
        BY <1>k, <4>1, <4>2
    <3>5. QED
      BY <3>2, <3>3, <3>4
  <2> DEFINE k1 == k + 1
  <2>k. /\ k1 \in Int /\ n \in Int /\ (IF k1 <= n THEN n - k1 + 1 ELSE 0) = n - k
        /\ n - k1 + 1 = n - k /\ (\A i \in k1..n : attrs[i] \in S) /\ q = SubSeq(attrs, k1, n)
    BY <2>1 DEF q
  <2> HIDE DEF k1
  <2>p. /\ q \in Seq(S) /\ Len(q) = n - k /\ \A i \in 1..(n - k) : q[i] = attrs[k1 + i - 1]
    BY <2>k, SubSeqProperties
  <2>2. Len(q) = n - k /\ q \in Seq(S) /\ \A i \in 1..(n - k) : q[i] = attrs[k + 1 + i - 1]
    BY <2>p DEF k1
  <2>3. \A i \in 1..(n - k) : k + 1 + i - 1 = k + i
    BY <1>k
  <2>4. QED
    BY <2>2, <2>3
<1> HIDE DEF p, q, n
<1>5. /\ Len(l) = n - 1 /\ l \in Seq(S)
      /\ \A i \in 1..(n - 1) : l[i] = IF i < k THEN attrs[i] ELSE attrs[i + 1]
  <2>1. Len(l) = n - 1 /\ l \in Seq(S)
    BY <1>1, <1>3, <1>4, <1>k, ConcatProperties
  <2>2. ASSUME NEW i \in 1..(n - 1) PROVE l[i] = IF i < k THEN attrs[i] ELSE attrs[i + 1]
    <3>1. CASE i < k
      <4>1. i \in 1..(k - 1) /\ i \in 1..Len(p)
        BY <1>1, <1>3, <3>1 DEF n
      <4>2. QED
        BY <1>3, <1>4, <3>1, <4>1
    <3>2. CASE ~(i < k)
      <4>1. i - (k - 1) \in 1..(n - k) /\ k + (i - (k - 1)) = i + 1 /\ ~(i <= Len(p))
        BY <1>1, <1>3, <3>2 DEF n
      <4>2. l[i] = q[i - (k - 1)]
        BY <1>1, <1>3, <1>4, <4>1 DEF n
      <4>3. q[i - (k - 1)] = attrs[k + (i - (k - 1))]
        BY <1>4, <4>1
      <4>4. QED
        BY <3>2, <4>1, <4>2, <4>3
    <3>3. QED
      BY <3>1, <3>2
  <2>3. QED
    BY <2>1, <2>2
<1> HIDE DEF l
<1>6. n - 1 \in Nat /\ DOMAIN l = 1..(n - 1) /\ l = [i \in 1..(n - 1) |-> l[i]]
  BY <1>1, <1>5 DEF n
<1>7. \A i, j \in 1..(n - 1) : l[i][1] = l[j][1] => i = j
  <2>1. ASSUME NEW i \in 1..(n - 1), NEW j \in 1..(n - 1), l[i][1] = l[j][1] PROVE i = j
    <3>1. PICK x \in 1..n : l[i] = attrs[x] /\ x = (IF i < k THEN i ELSE i + 1)
      BY <1>1, <1>5
    <3>2. PICK y \in 1..n : l[j] = attrs[y] /\ y = (IF j < k THEN j ELSE j + 1)
      BY <1>1, <1>5
    <3>3. x = y
      BY <1>1, <2>1, <3>1, <3>2
    <3>4. k \in Int /\ i \in Int /\ j \in Int
      BY <1>1 DEF n
    <3>5. QED
      BY <3>1, <3>2, <3>3, <3>4
  <2>2. QED
    BY <2>1
<1>8. IsSet(l)
  BY <1>6, <1>7, SetIntro
<1>9. QED
  BY <1>2, <1>8

-----------------------------------------------------------------------------
(* The invariant                                                           *)

\* The lists that walks find.
Lists(h) == [n \in DOMAIN h |-> Children(h, n)]

\* The nodes are a tree, linked as its lists say.
LinkedTree == Represents(heap, Lists(heap))

\* The lists of a heap that represents a tree are those that walks find.
LEMMA RepresentsLists ==
  ASSUME NEW h, NEW kids, Represents(h, kids)
  PROVE  Represents(h, Lists(h))
<1>1. /\ DOMAIN h = DOMAIN kids /\ \A p \in DOMAIN kids : Children(h, p) = kids[p]
      /\ IsTree(kids, Doc) /\ Links(h, kids) /\ Free(h, kids, Doc)
      /\ Heap(h) /\ Labelled(h)
  BY RepresentsFacts DEF Represents
<1> DEFINE L == Lists(h)
<1>2. DOMAIN L = DOMAIN kids /\ \A p \in DOMAIN kids : L[p] = kids[p]
  BY <1>1 DEF Lists
<1> HIDE DEF L
<1>3. IsTree(L, Doc)
  BY <1>1, <1>2 DEF IsTree
<1>4. Links(h, L)
  BY <1>1, <1>2 DEF Links
<1>5. Free(h, L, Doc)
  BY <1>1, <1>2 DEF Free
<1>6. Represents(h, L)
  BY <1>1, <1>3, <1>4, <1>5 DEF Represents
<1>7. QED
  BY <1>6 DEF L

\* A document that has just been created, or loaded.
LEMMA LoadedRepresents ==
  ASSUME NEW label, NEW kids, IsDocument(label, kids)
  PROVE  Represents(Linked(label, kids), kids)
<1> DEFINE h == Linked(label, kids)
           T == {label[n].type : n \in DOMAIN label}
           V == {label[n].value : n \in DOMAIN label}
           A == {label[n].attrs : n \in DOMAIN label}
<1>1. /\ IsTree(kids, Doc) /\ DOMAIN label = DOMAIN kids
      /\ \A n \in DOMAIN label : (label[n].type = "document" <=> n = Doc) /\ IsSet(label[n].attrs)
  BY DEF IsDocument
<1>2. Forest(kids)
  BY <1>1, TreeForest
<1>3. LabelsIn(label, kids, T, V, A)
  BY <1>1 DEF LabelsIn
<1>l. LinkedMade(label, kids, h)
  BY DEF LinkedMade
<1> HIDE DEF T, V, A, h
<1>4. IsHeap(h, T, V, A) /\ Links(h, kids) /\ LinkedAs(label, kids, h)
  BY <1>2, <1>3, <1>l, LinkedLinks
<1>5. Free(h, kids, Doc)
  <2>1. Doc \in DOMAIN kids
    BY <1>1, TreeFacts
  <2>2. \A p \in DOMAIN kids : \A i \in 1..Len(kids[p]) : kids[p][i] # Doc
    BY <1>1, TreeFacts
  <2>3. QED
    BY <1>4, <2>1, <2>2 DEF LinkedAs
<1>6. Labelled(h)
  BY <1>1, <1>4 DEF Labelled, Links, LinkedAs
<1>7. Heap(h)
  BY <1>4, IsHeapHeap
<1>8. Represents(h, kids)
  BY <1>1, <1>4, <1>5, <1>6, <1>7 DEF Represents
<1>9. QED
  BY <1>8 DEF h

\* The new document is a tree of one.
LEMMA InitRepresents ==
  ASSUME NodesInit
  PROVE  LinkedTree
<1> DEFINE t == [type |-> "document", value |-> <<>>, attrs |-> <<>>]
           kids == [m \in {Doc} |-> <<>>]
<1>1. NewMade(Doc, t, heap) /\ t.type = "document" /\ t.attrs = <<>>
  BY DEF NodesInit, NewMade
<1>2. IsTree(kids, Doc) /\ DOMAIN kids = {Doc} /\ kids[Doc] = <<>>
  BY DocIsNode, SingleTree
<1> HIDE DEF t, kids
<1>3. /\ Heap(heap) /\ Links(heap, kids) /\ Free(heap, kids, Doc)
      /\ heap[Doc].type = t.type /\ heap[Doc].attrs = t.attrs
  BY <1>1, <1>2, DocIsNode, NewLinks
<1>4. DOMAIN heap = {Doc}
  BY <1>2, <1>3 DEF Links
<1>5. IsSet(<<>>)
  BY DEF IsSet
<1>6. Labelled(heap)
  BY <1>1, <1>3, <1>4, <1>5 DEF Labelled
<1>7. Represents(heap, kids)
  BY <1>2, <1>3, <1>6 DEF Represents
<1>8. QED
  BY <1>7, RepresentsLists DEF LinkedTree

\* LinkNew.
LEMMA NewStep ==
  ASSUME NEW kids, Represents(heap, kids), NEW this \in DOMAIN heap, NEW t \in Leaves,
         LinkNew(this, t)
  PROVE  \E k : Represents(heap', k)
<1> DEFINE n == Min(Node \ DOMAIN heap)
           l == [m \in {n} |-> NewNode(t)]
           g == Joined(heap, l)
<1>1. DOMAIN heap \subseteq Node /\ DOMAIN heap = DOMAIN kids
  BY RepresentsFacts
<1>2. heap' = LinkEndChild(g, this, n) /\ Node \ DOMAIN heap # {}
  BY <1>1 DEF LinkNew
<1>3. n \in Node \ DOMAIN heap
  <2>1. Node \ DOMAIN heap \in SUBSET (1..MaxNodes) /\ MaxNodes \in Nat
    BY NodeNumbers
  <2>2. QED
    BY <1>2, <2>1, MinMax
<1>4. NewMade(n, t, l) /\ JoinMade(heap, l, g)
  BY DEF NewMade, JoinMade
<1> HIDE DEF n, l, g
<1>5. t.type # "document" /\ IsSet(t.attrs)
  BY NodesAssumption
<1>6. PICK new : Extended(heap, kids, new, n, g)
  BY <1>3, <1>4, <1>5, NewExtends
<1>7. \E k : Represents(LinkEndChild(g, this, n), k)
  BY <1>1, <1>6, EndRepresents
<1>8. QED
  BY <1>2, <1>7

\* Nothing but a document is cloned, and its clone is then linked.
LEMMA InsertingStep ==
  ASSUME NEW kids, Represents(heap, kids), NEW addThis \in DOMAIN heap,
         NEW linked, Inserting(addThis, linked),
         \A new : Extended(heap, kids, new, Clone(heap, addThis).node, Clone(heap, addThis).heap) =>
           \E k : Represents(linked, k)
  PROVE  \E k : Represents(heap', k)
<1>1. CASE heap[addThis].type = "document"
  <2>1. heap' = heap
    BY <1>1 DEF Inserting
  <2>2. QED
    BY <2>1
<1>2. CASE heap[addThis].type # "document"
  <2>1. heap' = linked /\ Copies(heap, addThis) # {}
    BY <1>2 DEF Inserting
  <2>2. addThis # Doc
    BY <1>2 DEF Represents, Labelled
  <2>3. PICK new : Extended(heap, kids, new, Clone(heap, addThis).node, Clone(heap, addThis).heap)
    BY <2>1, <2>2, CloneExtends
  <2>4. QED
    BY <2>1, <2>3
<1>3. QED
  BY <1>1, <1>2

\* InsertEndChild keeps the invariant: the clone comes at the end of the list.
LEMMA InsertEndStep ==
  ASSUME NEW kids, Represents(heap, kids), NEW this \in DOMAIN heap, NEW addThis \in DOMAIN heap,
         InsertEndChild(this, addThis)
  PROVE  \E k : Represents(heap', k)
<1> DEFINE b == Clone(heap, addThis)
           linked == LinkEndChild(b.heap, this, b.node)
<1>1. Inserting(addThis, linked)
  BY DEF InsertEndChild
<1>2. ASSUME NEW new, Extended(heap, kids, new, b.node, b.heap)
      PROVE  \E k : Represents(linked, k)
  <2> HIDE DEF b
  <2>1. this \in DOMAIN kids
    BY RepresentsFacts
  <2>2. QED
    BY <1>2, <2>1, EndRepresents
<1> HIDE DEF linked
<1>3. QED
  BY <1>1, <1>2, InsertingStep

\* InsertBeforeChild keeps it: the clone comes before the child.
LEMMA InsertBeforeStep ==
  ASSUME NEW kids, Represents(heap, kids), NEW this \in DOMAIN heap, NEW beforeThis \in DOMAIN heap,
         NEW addThis \in DOMAIN heap, InsertBeforeChild(this, beforeThis, addThis)
  PROVE  \E k : Represents(heap', k)
<1> DEFINE b == Clone(heap, addThis)
           linked == LinkBefore(b.heap, this, beforeThis, b.node)
<1>1. Inserting(addThis, linked) /\ heap[beforeThis].parent = this
  BY DEF InsertBeforeChild
<1>2. ASSUME NEW new, Extended(heap, kids, new, b.node, b.heap)
      PROVE  \E k : Represents(linked, k)
  <2> HIDE DEF b
  <2>1. this \in DOMAIN kids
    BY RepresentsFacts
  <2>2. PICK i \in 1..Len(kids[this]) : kids[this][i] = beforeThis
    BY <1>1, ChildPlace
  <2>3. \E k : Represents(LinkBefore(b.heap, this, kids[this][i], b.node), k)
    BY <1>2, <2>1, BeforeRepresents
  <2>4. QED
    BY <2>2, <2>3
<1> HIDE DEF linked
<1>3. QED
  BY <1>1, <1>2, InsertingStep

\* InsertAfterChild keeps it: the clone comes behind the child.
LEMMA InsertAfterStep ==
  ASSUME NEW kids, Represents(heap, kids), NEW this \in DOMAIN heap, NEW afterThis \in DOMAIN heap,
         NEW addThis \in DOMAIN heap, InsertAfterChild(this, afterThis, addThis)
  PROVE  \E k : Represents(heap', k)
<1> DEFINE b == Clone(heap, addThis)
           linked == LinkAfter(b.heap, this, afterThis, b.node)
<1>1. Inserting(addThis, linked) /\ heap[afterThis].parent = this
  BY DEF InsertAfterChild
<1>2. ASSUME NEW new, Extended(heap, kids, new, b.node, b.heap)
      PROVE  \E k : Represents(linked, k)
  <2> HIDE DEF b
  <2>1. this \in DOMAIN kids
    BY RepresentsFacts
  <2>2. PICK i \in 1..Len(kids[this]) : kids[this][i] = afterThis
    BY <1>1, ChildPlace
  <2>3. \E k : Represents(LinkAfter(b.heap, this, kids[this][i], b.node), k)
    BY <1>2, <2>1, AfterRepresents
  <2>4. QED
    BY <2>2, <2>3
<1> HIDE DEF linked
<1>3. QED
  BY <1>1, <1>2, InsertingStep

\* ReplaceChild keeps it: the clone comes in place of the child and all below it.
LEMMA ReplaceStep ==
  ASSUME NEW kids, Represents(heap, kids), NEW this \in DOMAIN heap, NEW replaceThis \in DOMAIN heap,
         NEW withThis \in DOMAIN heap, ReplaceChild(this, replaceThis, withThis)
  PROVE  \E k : Represents(heap', k)
<1> DEFINE b == Clone(heap, withThis)
           linked == PutInPlace(b.heap, this, replaceThis, b.node)
<1>1. Inserting(withThis, linked) /\ heap[replaceThis].parent = this
  BY DEF ReplaceChild
<1>2. ASSUME NEW new, Extended(heap, kids, new, b.node, b.heap)
      PROVE  \E k : Represents(linked, k)
  <2> HIDE DEF b
  <2>1. this \in DOMAIN kids
    BY RepresentsFacts
  <2>2. PICK i \in 1..Len(kids[this]) : kids[this][i] = replaceThis
    BY <1>1, ChildPlace
  <2>3. \E k : Represents(PutInPlace(b.heap, this, kids[this][i], b.node), k)
    BY <1>2, <2>1, PlacedRepresents
  <2>4. QED
    BY <2>2, <2>3
<1> HIDE DEF linked
<1>3. QED
  BY <1>1, <1>2, InsertingStep

\* RemoveChild keeps it: the child goes with all below it.
LEMMA RemoveStep ==
  ASSUME NEW kids, Represents(heap, kids), NEW this \in DOMAIN heap, NEW removeThis \in DOMAIN heap,
         RemoveChild(this, removeThis)
  PROVE  \E k : Represents(heap', k)
<1>1. heap[removeThis].parent = this /\ heap' = Unlink(heap, this, removeThis)
  BY DEF RemoveChild
<1>2. this \in DOMAIN kids
  BY RepresentsFacts
<1>3. PICK i \in 1..Len(kids[this]) : kids[this][i] = removeThis
  BY <1>1, ChildPlace
<1>4. \E k : Represents(Unlink(heap, this, kids[this][i]), k)
  BY <1>2, UnlinkRepresents
<1>5. QED
  BY <1>1, <1>3, <1>4

\* SetAttribute and RemoveAttribute keep it: no name comes twice.
LEMMA AttributeStep ==
  ASSUME NEW kids, Represents(heap, kids), NEW this \in DOMAIN heap, NEW a,
         SetAttribute(this, a) \/ RemoveAttribute(this, a[1])
  PROVE  \E k : Represents(heap', k)
<1>1. IsSet(heap[this].attrs)
  BY DEF Represents, Labelled
<1>2. CASE SetAttribute(this, a)
  <2> DEFINE attrs == FindOrCreate(heap[this].attrs, a[1])
             k == Find(attrs, a[1])
             set == [attrs EXCEPT ![k] = a]
  <2>1. heap' = [heap EXCEPT ![this].attrs = set]
    BY <1>2 DEF SetAttribute
  <2>2. IsSet(attrs) /\ k \in 1..Len(attrs) /\ attrs[k][1] = a[1]
    BY <1>1, SetCreated
  <2> HIDE DEF attrs, k
  <2>3. IsSet(set)
    BY <2>2, SetReplaced
  <2> HIDE DEF set
  <2>4. Represents([heap EXCEPT ![this].attrs = set], kids)
    BY <2>3, AttributesRepresent
  <2>5. QED
    BY <2>1, <2>4
<1>3. CASE RemoveAttribute(this, a[1])
  <2> DEFINE k == Find(heap[this].attrs, a[1])
             set == RemoveFromSet(heap[this].attrs, k)
  <2>1. heap' = [heap EXCEPT ![this].attrs = set] /\ k # NULL
    BY <1>3 DEF RemoveAttribute
  <2>2. k \in 1..Len(heap[this].attrs)
    BY <1>1, <2>1, FindFacts
  <2> HIDE DEF k
  <2>3. IsSet(set)
    BY <1>1, <2>2, SetRemoved
  <2> HIDE DEF set
  <2>4. Represents([heap EXCEPT ![this].attrs = set], kids)
    BY <2>3, AttributesRepresent
  <2>5. QED
    BY <2>1, <2>4
<1>4. QED
  BY <1>2, <1>3

\* Every operation of the DOM leaves a linked tree.
LEMMA EditStep ==
  ASSUME LinkedTree, Edit
  PROVE  LinkedTree'
<1> DEFINE kids == Lists(heap)
<1>1. Represents(heap, kids)
  BY DEF LinkedTree
<1> HIDE DEF kids
<1>2. SUFFICES \E k : Represents(heap', k)
  <2>1. SUFFICES ASSUME NEW k, Represents(heap', k) PROVE LinkedTree'
    BY <1>2
  <2>2. Represents(heap', Lists(heap'))
    BY <2>1, RepresentsLists
  <2>3. QED
    BY <2>2 DEF LinkedTree
<1>3. CASE \E this \in Parents, t \in Leaves : LinkNew(this, t)
  <2>1. PICK this \in Parents, t \in Leaves : LinkNew(this, t)
    BY <1>3
  <2>2. this \in DOMAIN heap
    BY DEF Parents
  <2>3. QED
    BY <1>1, <2>1, <2>2, NewStep
<1>4. CASE \E this \in Parents : Clear(this)
  <2>1. PICK this \in Parents : Clear(this)
    BY <1>4
  <2>2. this \in DOMAIN heap /\ this \in DOMAIN kids
    BY <1>1, RepresentsFacts DEF Parents
  <2>3. heap' = Cleared(heap, this)
    BY <2>1 DEF Clear
  <2>4. Represents(Cleared(heap, this), Pruned(kids, this))
    BY <1>1, <2>2, ClearRepresents
  <2>5. QED
    BY <2>3, <2>4
<1>5. CASE \E this \in Parents, n \in DOMAIN heap : RemoveChild(this, n)
  <2>1. PICK this \in Parents, n \in DOMAIN heap : RemoveChild(this, n)
    BY <1>5
  <2>2. this \in DOMAIN heap
    BY DEF Parents
  <2>3. QED
    BY <1>1, <2>1, <2>2, RemoveStep
<1>6. CASE \E this \in Parents, addThis \in DOMAIN heap : InsertEndChild(this, addThis)
  <2>1. PICK this \in Parents, addThis \in DOMAIN heap : InsertEndChild(this, addThis)
    BY <1>6
  <2>2. this \in DOMAIN heap
    BY DEF Parents
  <2>3. QED
    BY <1>1, <2>1, <2>2, InsertEndStep
<1>7. CASE \E this \in Parents, addThis \in DOMAIN heap, n \in DOMAIN heap :
             \/ InsertBeforeChild(this, n, addThis)
             \/ InsertAfterChild(this, n, addThis)
             \/ ReplaceChild(this, n, addThis)
  <2>1. PICK this \in Parents, addThis \in DOMAIN heap, n \in DOMAIN heap :
             \/ InsertBeforeChild(this, n, addThis)
             \/ InsertAfterChild(this, n, addThis)
             \/ ReplaceChild(this, n, addThis)
    BY <1>7
  <2>2. this \in DOMAIN heap
    BY DEF Parents
  <2>3. QED
    BY <1>1, <2>1, <2>2, InsertBeforeStep, InsertAfterStep, ReplaceStep
<1>8. CASE \E this \in ElementsOf(heap), a \in Attributes :
             SetAttribute(this, a) \/ RemoveAttribute(this, a[1])
  <2>1. PICK this \in ElementsOf(heap), a \in Attributes :
             SetAttribute(this, a) \/ RemoveAttribute(this, a[1])
    BY <1>8
  <2>2. this \in DOMAIN heap
    BY DEF ElementsOf
  <2>3. QED
    BY <1>1, <2>1, <2>2, AttributeStep
<1>9. QED
  BY <1>3, <1>4, <1>5, <1>6, <1>7, <1>8 DEF Edit

\* Whatever is loaded or edited, the pointers are those of a tree's lists of children.
THEOREM NodesLinkedTree == NodesSpec => []LinkedTree
<1>1. NodesInit => LinkedTree
  BY InitRepresents
<1>2. LinkedTree /\ [NodesNext]_nodeVars => LinkedTree'
  <2> SUFFICES ASSUME LinkedTree, [NodesNext]_nodeVars PROVE LinkedTree'
    OBVIOUS
  <2>1. CASE Edit
    BY <2>1, EditStep
  <2>2. CASE \E label, kids, e : IsDocument(label, kids) /\ LoadDocument(label, kids, e)
    <3>1. PICK label, kids, e : IsDocument(label, kids) /\ LoadDocument(label, kids, e)
      BY <2>2
    <3>2. heap' = Linked(label, kids)
      BY <3>1 DEF LoadDocument
    <3>3. Represents(Linked(label, kids), kids)
      BY <3>1, LoadedRepresents
    <3>4. Represents(heap', kids)
      BY <3>2, <3>3
    <3>5. Represents(heap', Lists(heap'))
      BY <3>4, RepresentsLists
    <3>6. QED
      BY <3>5 DEF LinkedTree
  <2>3. CASE UNCHANGED nodeVars
    <3>1. heap' = heap
      BY <2>3 DEF nodeVars
    <3>2. QED
      BY <3>1 DEF LinkedTree
  <2>4. QED
    BY <2>1, <2>2, <2>3 DEF NodesNext
<1>3. QED
  BY <1>1, <1>2, PTL DEF NodesSpec

-----------------------------------------------------------------------------
(* What a walk finds                                                       *)

\* The least and the greatest index are the only ones that are so.
LEMMA MinMaxIs ==
  ASSUME NEW n \in Nat, NEW T \in SUBSET (1..n), NEW k \in T
  PROVE  /\ (\A i \in T : k <= i) => Min(T) = k
         /\ (\A i \in T : k >= i) => Max(T) = k
<1>1. /\ Min(T) \in T /\ \A i \in T : Min(T) <= i
      /\ Max(T) \in T /\ \A i \in T : Max(T) >= i
  BY MinMax
<1>2. \A i \in T : i \in Int
  OBVIOUS
<1>3. (\A i \in T : k <= i) => Min(T) <= k /\ k <= Min(T) /\ Min(T) \in Int /\ k \in Int
  BY <1>1, <1>2
<1>4. (\A i \in T : k >= i) => Max(T) >= k /\ k >= Max(T) /\ Max(T) \in Int /\ k \in Int
  BY <1>1, <1>2
<1>5. QED
  BY <1>3, <1>4

\* Where entries in S are.
Places(q, S, i, j) == {k \in i..j : q[k] \in S}

\* The first in S from an index on.
LEMMA FirstFrom ==
  ASSUME NEW X, NEW q \in Seq(X), NEW i \in 1..(Len(q) + 1), NEW S
  PROVE  FirstOf(SubSeq(q, i, Len(q)), S) =
           IF Places(q, S, i, Len(q)) = {} THEN NULL ELSE q[Min(Places(q, S, i, Len(q)))]
<1> DEFINE n   == Len(q)
           at  == Places(q, S, i, n)
           sub == SubSeq(q, i, n)
           sat == {k \in DOMAIN sub : sub[k] \in S}
<1>1. n \in Nat /\ i \in Int /\ 1 <= i /\ i <= n + 1 /\ \A j \in 1..n : q[j] \in X
  OBVIOUS
<1> HIDE DEF n
<1>2. /\ DOMAIN sub = 1..(n - i + 1) /\ n - i + 1 \in Nat
      /\ \A k \in 1..(n - i + 1) : sub[k] = q[i + k - 1] /\ i + k - 1 \in i..n
  <2>1. \A j \in i..n : q[j] \in X
    BY <1>1
  <2>2. /\ sub \in Seq(X) /\ Len(sub) = (IF i <= n THEN n - i + 1 ELSE 0)
        /\ \A k \in 1..(n - i + 1) : sub[k] = q[i + k - 1]
    BY <1>1, <2>1, SubSeqProperties
  <2>3. (IF i <= n THEN n - i + 1 ELSE 0) = n - i + 1
    BY <1>1
  <2> HIDE DEF sub
  <2>4. DOMAIN sub = 1..(n - i + 1)
    BY <2>2, <2>3
  <2>5. n - i + 1 \in Nat /\ \A k \in 1..(n - i + 1) : i + k - 1 \in i..n
    BY <1>1
  <2>6. QED
    BY <2>2, <2>4, <2>5
<1>3. FirstOf(sub, S) = IF sat = {} THEN NULL ELSE sub[Min(sat)]
  BY DEF FirstOf
<1> HIDE DEF sub
<1>p. at = {j \in i..n : q[j] \in S}
  BY DEF Places
<1> HIDE DEF at
<1>4. /\ \A k \in sat : k \in 1..(n - i + 1) /\ i + k - 1 \in at /\ sub[k] = q[i + k - 1]
      /\ \A j \in at : j - i + 1 \in sat
  <2>1. ASSUME NEW k \in sat
        PROVE  k \in 1..(n - i + 1) /\ i + k - 1 \in at /\ sub[k] = q[i + k - 1]
    BY <1>2, <1>p
  <2>2. ASSUME NEW j \in at PROVE j - i + 1 \in sat
    <3>1. PICK k \in 1..(n - i + 1) : k = j - i + 1 /\ i + k - 1 = j
      BY <1>1, <1>p
    <3>2. sub[k] = q[j]
      BY <1>2, <3>1
    <3>3. QED
      BY <1>2, <1>p, <3>1, <3>2
  <2>3. QED
    BY <2>1, <2>2
<1>5. at \in SUBSET (1..n) /\ sat \in SUBSET (1..(n - i + 1))
  BY <1>1, <1>2, <1>p
<1> HIDE DEF sat
<1>6. CASE sat = {}
  <2>1. at = {}
    BY <1>4, <1>6
  <2>2. QED
    BY <1>3, <1>6, <2>1 DEF at, sub, n
<1>7. CASE sat # {}
  <2>1. Min(sat) \in sat /\ \A k \in sat : Min(sat) <= k
    BY <1>2, <1>5, <1>7, MinMax
  <2> DEFINE m == Min(sat)
             j == i + m - 1
  <2>m. m \in sat
    BY <2>1
  <2>2. j \in at /\ m \in Int /\ sub[m] = q[j]
    <3> HIDE DEF m
    <3>1. QED
      BY <1>4, <1>5, <2>m
  <2>3. ASSUME NEW k \in at PROVE j <= k
    <3>1. k - i + 1 \in sat /\ k \in Int
      BY <1>4, <1>5
    <3>2. m <= k - i + 1
      BY <2>1, <3>1
    <3> HIDE DEF m
    <3>3. QED
      BY <1>1, <2>2, <3>1, <3>2
  <2> HIDE DEF j, m
  <2>4. Min(at) = j
    BY <1>1, <1>5, <2>2, <2>3, MinMaxIs
  <2>5. at # {} /\ FirstOf(sub, S) = sub[m]
    BY <1>3, <1>7, <2>2 DEF m
  <2>6. QED
    BY <2>2, <2>4, <2>5 DEF at, sub, n
<1>8. QED
  BY <1>6, <1>7

\* The first in S backwards from an index.
LEMMA FirstBack ==
  ASSUME NEW X, NEW q \in Seq(X), NEW i \in 0..Len(q), NEW S
  PROVE  FirstOf(SubSeq(Reverse(q), Len(q) + 1 - i, Len(q)), S) =
           IF Places(q, S, 1, i) = {} THEN NULL ELSE q[Max(Places(q, S, 1, i))]
<1> DEFINE n   == Len(q)
           r   == Reverse(q)
           at  == Places(q, S, 1, i)
           f   == n + 1 - i
           rat == Places(r, S, f, n)
<1>1. n \in Nat /\ i \in Int /\ 0 <= i /\ i <= n /\ \A j \in 1..n : q[j] \in X
  OBVIOUS
<1> HIDE DEF n
<1>2. /\ r \in Seq(X) /\ Len(r) = n
      /\ \A j \in 1..n : r[j] = q[n - j + 1]
  <2>1. r = [j \in 1..n |-> q[n - j + 1]]
    BY DEF Reverse, n
  <2> HIDE DEF r
  <2>2. \A j \in 1..n : n - j + 1 \in 1..n
    BY <1>1
  <2>3. \A j \in 1..n : q[n - j + 1] \in X
    BY <1>1, <2>2
  <2>4. r \in [1..n -> X]
    BY <2>1, <2>3
  <2>5. QED
    BY <1>1, <2>1, <2>4
<1>3. f \in 1..(n + 1) /\ f \in Int
  BY <1>1
<1> HIDE DEF r
<1>4. FirstOf(SubSeq(r, f, n), S) = IF rat = {} THEN NULL ELSE r[Min(rat)]
  <2> HIDE DEF f
  <2>1. f \in 1..(Len(r) + 1) /\ Len(r) = n
    BY <1>2, <1>3
  <2>2. FirstOf(SubSeq(r, f, Len(r)), S) =
          IF Places(r, S, f, Len(r)) = {} THEN NULL ELSE r[Min(Places(r, S, f, Len(r)))]
    BY <1>2, <2>1, FirstFrom
  <2>3. QED
    BY <2>1, <2>2
<1>p. at = {j \in 1..i : q[j] \in S} /\ rat = {j \in f..n : r[j] \in S}
  BY DEF Places
<1> HIDE DEF at, rat
<1>5. /\ \A k \in rat : n - k + 1 \in at /\ r[k] = q[n - k + 1] /\ k \in 1..n
      /\ \A j \in at : n - j + 1 \in rat
  <2>1. ASSUME NEW k \in rat PROVE n - k + 1 \in at /\ r[k] = q[n - k + 1] /\ k \in 1..n
    <3>1. k \in 1..n /\ n - k + 1 \in 1..i
      BY <1>1, <1>p
    <3>2. QED
      BY <1>2, <1>p, <3>1
  <2>2. ASSUME NEW j \in at PROVE n - j + 1 \in rat
    <3>1. PICK k \in 1..n : k = n - j + 1 /\ n - k + 1 = j /\ k \in f..n
      BY <1>1, <1>p
    <3>2. r[k] = q[j]
      BY <1>2, <1>p, <3>1
    <3>3. QED
      BY <1>p, <3>1, <3>2
  <2>3. QED
    BY <2>1, <2>2
<1>6. at \in SUBSET (1..n) /\ rat \in SUBSET (1..n)
  BY <1>1, <1>5, <1>p
<1> HIDE DEF f
<1>7. CASE rat = {}
  <2>1. at = {}
    BY <1>5, <1>7
  <2>2. QED
    BY <1>4, <1>7, <2>1 DEF at, r, n, f
<1>8. CASE rat # {}
  <2>1. Min(rat) \in rat /\ \A k \in rat : Min(rat) <= k
    BY <1>1, <1>6, <1>8, MinMax
  <2> DEFINE m == Min(rat)
             j == n - m + 1
  <2>m. m \in rat
    BY <2>1
  <2>2. j \in at /\ m \in Int /\ r[m] = q[j]
    <3> HIDE DEF m
    <3>1. QED
      BY <1>5, <1>6, <2>m
  <2>3. ASSUME NEW k \in at PROVE j >= k
    <3>1. n - k + 1 \in rat /\ k \in Int
      BY <1>5, <1>6
    <3>2. m <= n - k + 1
      BY <2>1, <3>1
    <3> HIDE DEF m
    <3>3. QED
      BY <1>1, <2>2, <3>1, <3>2
  <2> HIDE DEF j, m
  <2>4. Max(at) = j
    BY <1>1, <1>6, <2>2, <2>3, MinMaxIs
  <2>5. at # {} /\ FirstOf(SubSeq(r, f, n), S) = r[m]
    BY <1>4, <1>8, <2>2 DEF m
  <2>6. QED
    BY <2>2, <2>4, <2>5 DEF at, r, n, f
<1>9. QED
  BY <1>7, <1>8

-----------------------------------------------------------------------------
(* Counting                                                                *)

\* How many come before the next in a set, and before its end.
LEMMA CountFacts ==
  ASSUME NEW n \in Nat, NEW T \in SUBSET (1..n)
  PROVE  /\ IsFiniteSet(T) /\ Cardinality(T) \in Nat
         /\ Cardinality(T) = 0 <=> T = {}
         /\ T # {} => Cardinality(T) = Cardinality({j \in T : j < Max(T)}) + 1
<1>1. IsFiniteSet(T)
  <2>1. IsFiniteSet(1..n)
    BY FS_Interval
  <2>2. QED
    BY <2>1, FS_Subset
<1>2. Cardinality(T) \in Nat /\ (Cardinality(T) = 0 <=> T = {})
  BY <1>1, FS_CardinalityType, FS_EmptySet
<1>3. ASSUME T # {} PROVE Cardinality(T) = Cardinality({j \in T : j < Max(T)}) + 1
  <2> DEFINE m == Max(T)
             U == {j \in T : j < m}
  <2>1. m \in T /\ \A i \in T : m >= i
    BY <1>3, MinMax
  <2> HIDE DEF m
  <2>2. U = T \ {m}
    <3>1. ASSUME NEW j \in T PROVE j < m <=> j # m
      <4>1. j \in Int /\ m \in Int /\ m >= j
        BY <2>1
      <4>2. QED
        BY <4>1
    <3>2. QED
      BY <3>1
  <2>3. Cardinality(T \ {m}) = Cardinality(T) - 1
    BY <1>1, <2>1, FS_RemoveElement
  <2>4. Cardinality(U) = Cardinality(T) - 1
    BY <2>2, <2>3
  <2> HIDE DEF U
  <2>5. Cardinality(T) = Cardinality(U) + 1
    BY <1>2, <2>4
  <2>6. QED
    BY <2>5 DEF U, m
<1>4. QED
  BY <1>1, <1>2, <1>3

\* A walk by S from the head of a list, or from behind a child.
LEMMA ForwardsFinds ==
  ASSUME NEW h, NEW kids, Represents(h, kids), NEW p \in DOMAIN kids,
         NEW i \in 1..(Len(kids[p]) + 1), NEW S
  PROVE  FirstOf(Forwards(h, Entry(kids[p], i)), S) =
           IF Places(kids[p], S, i, Len(kids[p])) = {} THEN NULL
           ELSE kids[p][Min(Places(kids[p], S, i, Len(kids[p])))]
<1>1. Sound(h) /\ Forest(kids) /\ Links(h, kids)
  BY RepresentsFacts DEF Represents
<1>2. kids[p] \in Seq(DOMAIN kids)
  BY <1>1, ForestList
<1>3. Forwards(h, Entry(kids[p], i)) = SubSeq(kids[p], i, Len(kids[p]))
  BY <1>1, ForwardsIs
<1>4. QED
  BY <1>2, <1>3, FirstFrom

\* The same backwards.
LEMMA BackwardsFinds ==
  ASSUME NEW h, NEW kids, Represents(h, kids), NEW p \in DOMAIN kids,
         NEW i \in 0..Len(kids[p]), NEW S
  PROVE  FirstOf(Backwards(h, Entry(kids[p], i)), S) =
           IF Places(kids[p], S, 1, i) = {} THEN NULL ELSE kids[p][Max(Places(kids[p], S, 1, i))]
<1>1. Sound(h) /\ Forest(kids) /\ Links(h, kids)
  BY RepresentsFacts DEF Represents
<1>2. kids[p] \in Seq(DOMAIN kids)
  BY <1>1, ForestList
<1>3. Backwards(h, Entry(kids[p], i)) = SubSeq(Reverse(kids[p]), Len(kids[p]) + 1 - i, Len(kids[p]))
  BY <1>1, BackwardsIs
<1>4. QED
  BY <1>2, <1>3, FirstBack

\* The loop of a handle.
LEMMA StepsIs ==
  ASSUME NEW h, NEW n, NEW S, NEW count \in Nat, NEW X, NULL \in X, DOMAIN h \subseteq X,
         NEW first \in X, FirstOf(Children(h, n), S) = first,
         NEW F \in [X -> X],
         \A m \in X : F[m] = IF m = NULL THEN NULL ELSE FirstOf(Forwards(h, h[m].next), S),
         X = DOMAIN h \cup {NULL}
  PROVE  \E at \in [0..count -> X] :
           /\ at[0] = first /\ \A k \in 0..count : k # 0 => at[k] = F[at[k - 1]]
           /\ Steps(h, n, S, count) = at[count]
<1> DEFINE further == [m \in DOMAIN h |-> FirstOf(Forwards(h, h[m].next), S)]
           P(f) == f = [k \in 0..count |-> IF k = 0 THEN FirstOf(Children(h, n), S)
                          ELSE LET m == f[k - 1] IN IF m = NULL THEN NULL ELSE further[m]]
           at == CHOOSE f : P(f)
<1>1. Steps(h, n, S, count) = at[count]
  BY Zenon DEF Steps
<1>i. PICK f \in [0..count -> X] : Iterates(f, count, first, F)
  BY IterateExists
<1>2. \A k \in 0..count : f[k] = IF k = 0 THEN first ELSE F[f[k - 1]]
  BY <1>i DEF Iterates
<1>3. \A m \in X : F[m] = IF m = NULL THEN NULL ELSE further[m]
  OBVIOUS
<1> HIDE DEF further
<1>4. P(f)
  <2>1. ASSUME NEW k \in 0..count
        PROVE  f[k] = IF k = 0 THEN FirstOf(Children(h, n), S)
                      ELSE LET m == f[k - 1] IN IF m = NULL THEN NULL ELSE further[m]
    <3>1. CASE k = 0
      BY <1>2, <3>1
    <3>2. CASE k # 0
      <4>1. k - 1 \in 0..count
        BY <3>2
      <4>2. f[k - 1] \in X
        BY <1>2, <4>1
      <4>3. QED
        BY <1>2, <1>3, <3>2, <4>2
    <3>3. QED
      BY <3>1, <3>2
  <2>2. f = [k \in 0..count |-> f[k]]
    BY <1>2
  <2>3. QED
    BY <2>1, <2>2
<1>5. P(at)
  <2> HIDE DEF P
  <2>1. QED
    BY <1>4
<1> HIDE DEF at
\* The two are the same, step by step.
<1> DEFINE T == {k \in Nat : k <= count => at[k] = f[k]}
<1>6. \A k \in 0..count : at[k] = IF k = 0 THEN FirstOf(Children(h, n), S)
                          ELSE IF at[k - 1] = NULL THEN NULL ELSE further[at[k - 1]]
  BY <1>5
<1> HIDE DEF P
<1>7. 0 \in T
  BY <1>2, <1>6
<1>8. ASSUME NEW k \in T PROVE k + 1 \in T
  <2>1. SUFFICES ASSUME k + 1 <= count PROVE at[k + 1] = f[k + 1]
    BY <1>8
  <2>2. k + 1 \in 0..count /\ k \in 0..count /\ k + 1 - 1 = k /\ k + 1 # 0
    BY <1>8, <2>1
  <2>3. at[k] = f[k] /\ f[k] \in X
    BY <1>2, <1>8, <2>2
  <2> DEFINE k1 == k + 1
  <2>4. k1 \in 0..count /\ k1 - 1 = k /\ k1 # 0
    BY <2>2
  <2> HIDE DEF k1
  <2>5. at[k1] = (IF at[k] = NULL THEN NULL ELSE further[at[k]]) /\ f[k1] = F[f[k]]
    BY <1>2, <1>6, <2>4
  <2>6. at[k1] = f[k1]
    BY <1>3, <2>3, <2>5
  <2>7. QED
    BY <2>6 DEF k1
<1>9. T = Nat
  <2>1. T \in SUBSET Nat
    OBVIOUS
  <2> HIDE DEF T
  <2>2. QED
    BY <1>7, <1>8, <2>1, Induct
<1>10. count \in T /\ count <= count
  BY <1>9
<1>11. at[count] = f[count]
  BY <1>10
<1>12. f[0] = first /\ \A k \in 0..count : k # 0 => f[k] = F[f[k - 1]]
  <2>1. 0 \in 0..count
    OBVIOUS
  <2>2. QED
    BY <1>2, <2>1
<1>13. Steps(h, n, S, count) = f[count]
  BY <1>1, <1>11
<1>14. QED
  BY <1>12, <1>13

\* A handle finds the children in S by the number of those before them.
LEMMA StepsFind ==
  ASSUME NEW h, NEW kids, Represents(h, kids), NEW p \in DOMAIN kids, NEW S
  PROVE  LET list == kids[p]
             like == {i \in 1..Len(list) : list[i] \in S}
         IN  /\ Cardinality(like) \in Nat /\ Steps(h, p, S, Cardinality(like)) = NULL
             /\ \A i \in like : Steps(h, p, S, Cardinality({j \in like : j < i})) = list[i]
<1> DEFINE list == kids[p]
           n    == Len(list)
           like == {i \in 1..n : list[i] \in S}
           X    == DOMAIN h \cup {NULL}
           Before(i) == {j \in like : j < i}
           After(i)  == {j \in like : j > i}
           Next1(m) == IF m = NULL THEN NULL ELSE FirstOf(Forwards(h, h[m].next), S)
           F == [m \in X |-> Next1(m)]
           first == FirstOf(Children(h, p), S)
<1>1. /\ Sound(h) /\ Forest(kids) /\ Links(h, kids) /\ DOMAIN h = DOMAIN kids
      /\ \A m \in DOMAIN kids : Children(h, m) = kids[m]
      /\ IsTree(kids, Doc) /\ Free(h, kids, Doc) /\ Doc \in DOMAIN h
  BY RepresentsFacts DEF Represents
<1>2. /\ list \in Seq(DOMAIN kids) /\ n \in Nat /\ DOMAIN list = 1..n
      /\ \A i \in 1..n : list[i] \in DOMAIN kids
  BY <1>1, ForestList
<1>3. NULL \notin DOMAIN h
  BY <1>1, NodeNumbers DEF Forest
\* The first, and the next.
<1>4. ASSUME NEW q \in DOMAIN kids, NEW i \in 1..(Len(kids[q]) + 1)
      PROVE  FirstOf(Forwards(h, Entry(kids[q], i)), S) \in X
  <2> DEFINE at == Places(kids[q], S, i, Len(kids[q]))
  <2>1. FirstOf(Forwards(h, Entry(kids[q], i)), S) = IF at = {} THEN NULL ELSE kids[q][Min(at)]
    BY ForwardsFinds
  <2>2. Len(kids[q]) \in Nat /\ \A j \in 1..Len(kids[q]) : kids[q][j] \in DOMAIN h
    BY <1>1 DEF Forest
  <2>3. at \in SUBSET (1..Len(kids[q]))
    BY <2>2 DEF Places
  <2> HIDE DEF at
  <2>4. at # {} => Min(at) \in 1..Len(kids[q])
    BY <2>2, <2>3, MinMax
  <2>5. QED
    BY <2>1, <2>2, <2>4
<1>5. first = (IF like = {} THEN NULL ELSE list[Min(like)]) /\ first \in X
  <2>1. h[p].firstChild = Entry(list, 1) /\ 1 \in 1..(n + 1)
    BY <1>1, <1>2 DEF Links
  <2>2. first = FirstOf(Forwards(h, Entry(list, 1)), S)
    BY <2>1 DEF Children
  <2> HIDE DEF first
  <2>p. like = Places(list, S, 1, n)
    BY DEF Places
  <2> HIDE DEF like
  <2>3. first = (IF like = {} THEN NULL ELSE list[Min(like)])
    BY <2>1, <2>2, <2>p, ForwardsFinds
  <2>4. first \in X
    BY <1>4, <2>1, <2>2
  <2>5. QED
    BY <2>3, <2>4
<1>6. ASSUME NEW i \in 1..n
      PROVE  Next1(list[i]) = IF After(i) = {} THEN NULL ELSE list[Min(After(i))]
  <2>1. h[list[i]].next = Entry(list, i + 1) /\ i + 1 \in 1..(n + 1) /\ list[i] # NULL
    BY <1>1, <1>2, <1>3 DEF Links
  <2> DEFINE i1 == i + 1
  <2>2. Places(list, S, i1, n) = After(i)
    BY <1>2 DEF Places
  <2>3. i1 \in 1..(n + 1) /\ h[list[i]].next = Entry(list, i1)
    BY <2>1
  <2> HIDE DEF i1, After
  <2>4. FirstOf(Forwards(h, Entry(list, i1)), S) = IF After(i) = {} THEN NULL ELSE list[Min(After(i))]
    BY <2>2, <2>3, ForwardsFinds
  <2>5. QED
    BY <2>1, <2>3, <2>4
<1>7. F \in [X -> X] /\ \A m \in X : F[m] = Next1(m)
  <2>1. ASSUME NEW m \in DOMAIN h PROVE FirstOf(Forwards(h, h[m].next), S) \in X
    <3>1. CASE m = Doc
      <4>1. h[m].next = Entry(kids[Doc], Len(kids[Doc]) + 1)
        <5>1. Len(kids[Doc]) \in Nat /\ kids[Doc] \in Seq(DOMAIN kids)
          BY <1>1, ForestList
        <5>2. h[m].next = NULL
          BY <1>1, <3>1 DEF Free
        <5>3. Entry(kids[Doc], Len(kids[Doc]) + 1) = NULL
          BY <5>1 DEF Entry
        <5>4. QED
          BY <5>2, <5>3
      <4>2. Len(kids[Doc]) + 1 \in 1..(Len(kids[Doc]) + 1)
        BY <1>1, ForestList
      <4>3. QED
        BY <1>1, <1>4, <4>1, <4>2
    <3>2. CASE m # Doc
      <4>1. PICK q \in DOMAIN kids : \E i \in 1..Len(kids[q]) : kids[q][i] = m
        BY <3>2, RepresentsFacts
      <4>2. PICK i \in 1..Len(kids[q]) : kids[q][i] = m
        BY <4>1
      <4>3. h[m].next = Entry(kids[q], i + 1)
        BY <1>1, <4>2 DEF Links
      <4>4. i + 1 \in 1..(Len(kids[q]) + 1)
        BY <1>1, ForestList
      <4>5. QED
        BY <1>4, <4>3, <4>4
    <3>3. QED
      BY <3>1, <3>2
  <2>2. \A m \in X : Next1(m) \in X
    BY <2>1
  <2> HIDE DEF X, Next1
  <2>3. QED
    BY <2>2
<1>8. like \in SUBSET (1..n)
  OBVIOUS
\* Before and after a child in S.
<1>b. ASSUME NEW i
      PROVE  /\ Before(i) \in SUBSET (1..n) /\ Cardinality(Before(i)) \in Nat
             /\ Cardinality(Before(i)) = 0 <=> Before(i) = {}
             /\ Before(i) # {} => /\ Max(Before(i)) \in Before(i)
                                  /\ \A j \in Before(i) : Max(Before(i)) >= j
                                  /\ Cardinality(Before(i)) =
                                       Cardinality({j \in Before(i) : j < Max(Before(i))}) + 1
  <2> DEFINE T == Before(i)
  <2>1. T \in SUBSET (1..n)
    BY <1>8
  <2> HIDE DEF T, Before
  <2>2. /\ Cardinality(T) \in Nat /\ (Cardinality(T) = 0 <=> T = {})
        /\ T # {} => Cardinality(T) = Cardinality({j \in T : j < Max(T)}) + 1
    BY <1>2, <2>1, CountFacts
  <2>3. T # {} => Max(T) \in T /\ \A j \in T : Max(T) >= j
    BY <1>2, <2>1, MinMax
  <2>4. QED
    BY <2>1, <2>2, <2>3 DEF T
<1> HIDE DEF first, F, Next1, list, n
\* What the loop has found after k steps.
<1>9. ASSUME NEW count \in Nat, NEW at \in [0..count -> X],
             at[0] = first, \A k \in 0..count : k # 0 => at[k] = F[at[k - 1]]
      PROVE  /\ \A i \in like : Cardinality(Before(i)) = count => at[count] = list[i]
             /\ Cardinality(like) <= count => at[count] = NULL
  <2> DEFINE Found(k) == /\ \A i \in like : Cardinality(Before(i)) = k => at[k] = list[i]
                         /\ Cardinality(like) <= k => at[k] = NULL
             T == {k \in Nat : k <= count => Found(k)}
  <2>c. /\ Cardinality(like) \in Nat /\ (Cardinality(like) = 0 <=> like = {})
        /\ like # {} => /\ Cardinality(like) = Cardinality(Before(Max(like))) + 1
                        /\ Max(like) \in like /\ \A j \in like : Max(like) >= j
    <3> HIDE DEF like
    <3>1. /\ Cardinality(like) \in Nat /\ (Cardinality(like) = 0 <=> like = {})
          /\ like # {} => Cardinality(like) = Cardinality({j \in like : j < Max(like)}) + 1
      BY <1>2, <1>8, CountFacts
    <3>2. like # {} => Max(like) \in like /\ \A j \in like : Max(like) >= j
      BY <1>2, <1>8, MinMax
    <3>3. QED
      BY <3>1, <3>2
  <2>1. Found(0)
    <3>1. ASSUME NEW i \in like, Cardinality(Before(i)) = 0 PROVE at[0] = list[i]
      <4>1. Before(i) = {}
        BY <1>b, <3>1
      <4>2. \A j \in like : i <= j
        BY <1>2, <1>8, <4>1
      <4> HIDE DEF like
      <4>3. Min(like) = i
        BY <1>2, <1>8, <4>2, MinMaxIs
      <4>4. QED
        BY <1>5, <1>9, <4>3
    <3>2. ASSUME Cardinality(like) <= 0 PROVE at[0] = NULL
      <4>1. Cardinality(like) = 0
        BY <2>c, <3>2
      <4>2. like = {}
        BY <2>c, <4>1
      <4> HIDE DEF like
      <4>3. QED
        BY <1>5, <1>9, <4>2
    <3>3. QED
      BY <3>1, <3>2
  <2>2. ASSUME NEW k \in T PROVE k + 1 \in T
    <3>1. SUFFICES ASSUME k + 1 <= count PROVE Found(k + 1)
      BY <2>2
    <3> DEFINE k1 == k + 1
    <3>2. k \in Nat /\ k1 \in 0..count /\ k1 - 1 = k /\ k1 # 0 /\ k \in 0..count
      BY <2>2, <3>1
    <3>3. Found(k)
      BY <2>2, <3>2
    <3>a. k1 = k + 1
      OBVIOUS
    <3> HIDE DEF k1
    <3>4. at[k1] = F[at[k]]
      BY <1>9, <3>2
    <3>5. ASSUME NEW i \in like, Cardinality(Before(i)) = k1 PROVE at[k1] = list[i]
      <4> DEFINE m == Max(Before(i))
      <4>1. Before(i) # {}
        BY <1>b, <3>2, <3>5
      <4>2. /\ m \in Before(i) /\ (\A j \in Before(i) : m >= j)
            /\ Cardinality(Before(i)) = Cardinality({j \in Before(i) : j < m}) + 1
        <5> HIDE DEF Before
        <5>1. QED
          BY <1>b, <4>1
      <4> HIDE DEF m
      <4>3. m \in like /\ m < i /\ m \in 1..n /\ i \in 1..n
        BY <1>8, <4>2
      <4>4. {j \in Before(i) : j < m} = Before(m)
        <5>1. ASSUME NEW j \in like, j < m PROVE j < i
          <6>1. j \in Int /\ m \in Int /\ i \in Int
            BY <1>2, <1>8, <4>3
          <6>2. QED
            BY <4>3, <5>1, <6>1
        <5>2. QED
          BY <5>1
      <4>5. Cardinality(Before(m)) = k
        <5> DEFINE U == {j \in Before(i) : j < m}
        <5>1. U = Before(m)
          BY <4>4
        <5>2. Cardinality(Before(i)) = Cardinality(U) + 1
          BY <4>2
        <5> HIDE DEF U, Before
        <5>3. Cardinality(Before(i)) = Cardinality(Before(m)) + 1 /\ Cardinality(Before(m)) \in Nat
          BY <1>b, <5>1, <5>2
        <5>4. QED
          BY <3>2, <3>5, <3>a, <5>3
      <4>6. at[k] = list[m]
        BY <3>3, <4>3, <4>5
      <4>7. i \in After(m) /\ After(m) \in SUBSET (1..n) /\ \A j \in After(m) : i <= j
        <5>1. i \in Int /\ m \in Int /\ \A j \in like : j \in Int
          BY <1>2, <1>8, <4>3
        <5>2. ASSUME NEW j \in like, j > m PROVE i <= j
          <6>1. j \in Int
            BY <5>1
          <6>2. CASE j < i
            <7>1. m >= j
              BY <4>2, <6>2
            <7>2. QED
              BY <5>1, <5>2, <6>1, <7>1
          <6>3. QED
            BY <5>1, <6>1, <6>2
        <5>3. i > m
          BY <4>3, <5>1
        <5>4. QED
          BY <1>8, <5>2, <5>3
      <4> HIDE DEF After, Before
      <4>8. Min(After(m)) = i
        BY <1>2, <4>7, MinMaxIs
      <4>9. Next1(list[m]) = list[i]
        BY <1>6, <4>3, <4>7, <4>8
      <4>10. list[m] \in X
        BY <1>1, <1>2, <4>3
      <4>11. QED
        BY <1>7, <3>4, <4>6, <4>9, <4>10
    <3>6. ASSUME Cardinality(like) <= k1 PROVE at[k1] = NULL
      <4>1. CASE Cardinality(like) <= k
        <5>1. at[k] = NULL
          BY <3>3, <4>1
        <5>2. QED
          BY <1>7, <3>4, <5>1 DEF Next1
      <4>2. CASE ~(Cardinality(like) <= k)
        <5>1. Cardinality(like) = k1 /\ Cardinality(like) # 0
          BY <2>c, <3>2, <3>6, <3>a, <4>2
        <5> DEFINE m == Max(like)
        <5>2. /\ m \in like /\ (\A j \in like : m >= j)
              /\ Cardinality(like) = Cardinality(Before(m)) + 1
          <6> HIDE DEF Before, like
          <6>1. QED
            BY <2>c, <5>1
        <5> HIDE DEF m
        <5>3. Cardinality(Before(m)) = k
          <6> HIDE DEF Before, like
          <6>1. Cardinality(Before(m)) \in Nat
            BY <1>b
          <6>2. QED
            BY <3>2, <3>a, <5>1, <5>2, <6>1
        <5>4. at[k] = list[m] /\ m \in 1..n
          BY <1>8, <3>3, <5>2, <5>3
        <5>5. After(m) = {}
          <6>1. ASSUME NEW j \in like, j > m PROVE FALSE
            <7>1. j \in Int /\ m \in Int /\ m >= j
              BY <1>2, <1>8, <5>2
            <7>2. QED
              BY <6>1, <7>1
          <6>2. QED
            BY <6>1
        <5> HIDE DEF After
        <5>6. Next1(list[m]) = NULL
          BY <1>6, <5>4, <5>5
        <5>7. list[m] \in X
          BY <1>1, <1>2, <5>4
        <5>8. QED
          BY <1>7, <3>4, <5>4, <5>6, <5>7
      <4>3. QED
        BY <4>1, <4>2
    <3>7. Found(k1)
      BY <3>5, <3>6
    <3>8. QED
      BY <3>7 DEF k1
  <2>3. T = Nat
    <3>1. T \in SUBSET Nat
      OBVIOUS
    <3>2. 0 \in T
      BY <2>1
    <3> HIDE DEF T
    <3>3. QED
      BY <2>2, <3>1, <3>2, Induct
  <2>4. count \in T /\ count <= count
    BY <2>3
  <2> HIDE DEF Found
  <2>5. Found(count)
    BY <2>4
  <2>6. QED
    BY <2>5 DEF Found
<1>10. ASSUME NEW count \in Nat
       PROVE  /\ \A i \in like : Cardinality(Before(i)) = count => Steps(h, p, S, count) = list[i]
              /\ Cardinality(like) <= count => Steps(h, p, S, count) = NULL
  <2>1. \A m \in X : F[m] = IF m = NULL THEN NULL ELSE FirstOf(Forwards(h, h[m].next), S)
    BY <1>7 DEF Next1
  <2>2. NULL \in X /\ DOMAIN h \subseteq X /\ X = DOMAIN h \cup {NULL}
    OBVIOUS
  <2>3. FirstOf(Children(h, p), S) = first
    BY DEF first
  <2> HIDE DEF X, like, Before, After
  <2>4. PICK at \in [0..count -> X] :
           /\ at[0] = first /\ \A k \in 0..count : k # 0 => at[k] = F[at[k - 1]]
           /\ Steps(h, p, S, count) = at[count]
    BY <1>5, <1>7, <2>1, <2>2, <2>3, StepsIs
  <2>5. /\ \A i \in like : Cardinality(Before(i)) = count => at[count] = list[i]
        /\ Cardinality(like) <= count => at[count] = NULL
    BY <1>9, <2>4
  <2>6. QED
    BY <2>4, <2>5
<1>11. Cardinality(like) \in Nat
  <2> HIDE DEF like
  <2>1. QED
    BY <1>2, <1>8, CountFacts
<1>12. Steps(h, p, S, Cardinality(like)) = NULL
  <2> HIDE DEF like
  <2>1. Cardinality(like) <= Cardinality(like)
    BY <1>11
  <2>2. QED
    BY <1>10, <1>11, <2>1
<1>13. ASSUME NEW i \in like PROVE Steps(h, p, S, Cardinality(Before(i))) = list[i]
  <2> HIDE DEF Before
  <2>1. QED
    BY <1>10, <1>b
<1>14. QED
  BY <1>11, <1>12, <1>13 DEF list, n

-----------------------------------------------------------------------------
(* The walks agree                                                         *)

\* What the invariant says of a node and its list of children.
LEMMA ListFacts ==
  ASSUME LinkedTree, NEW n \in DOMAIN heap
  PROVE  LET list == Children(heap, n) IN
         /\ list = Lists(heap)[n] /\ DOMAIN Lists(heap) = DOMAIN heap
         /\ Len(list) \in Nat /\ DOMAIN list = 1..Len(list) /\ list \in Seq(DOMAIN heap)
         /\ \A i \in 1..Len(list) : /\ list[i] \in DOMAIN heap /\ heap[list[i]].parent = n
                                    /\ heap[list[i]].prev = Entry(list, i - 1)
                                    /\ heap[list[i]].next = Entry(list, i + 1)
         /\ heap[n].firstChild = Entry(list, 1) /\ heap[n].lastChild = Entry(list, Len(list))
<1> DEFINE K == Lists(heap)
<1>1. Represents(heap, K)
  BY DEF LinkedTree
<1>2. DOMAIN K = DOMAIN heap /\ K[n] = Children(heap, n)
  BY DEF Lists
<1> HIDE DEF K
<1>3. Forest(K) /\ Links(heap, K)
  BY <1>1, RepresentsFacts DEF Represents
<1>4. K[n] \in Seq(DOMAIN K) /\ Len(K[n]) \in Nat /\ DOMAIN K[n] = 1..Len(K[n])
  BY <1>2, <1>3, ForestList
<1>5. \A i \in 1..Len(K[n]) : /\ K[n][i] \in DOMAIN heap /\ heap[K[n][i]].parent = n
                              /\ heap[K[n][i]].prev = Entry(K[n], i - 1)
                              /\ heap[K[n][i]].next = Entry(K[n], i + 1)
  BY <1>2, <1>3 DEF Links, Forest
<1>6. heap[n].firstChild = Entry(K[n], 1) /\ heap[n].lastChild = Entry(K[n], Len(K[n]))
  BY <1>2, <1>3 DEF Links
<1>7. QED
  BY <1>2, <1>4, <1>5, <1>6 DEF K

\* Backwards the children are met in the reverse order.
LEMMA ListReversed ==
  ASSUME LinkedTree, NEW n \in DOMAIN heap
  PROVE  Backwards(heap, heap[n].lastChild) = Reverse(Children(heap, n))
<1> DEFINE K == Lists(heap)
           list == Children(heap, n)
           N == Len(list)
<1>1. Represents(heap, K)
  BY DEF LinkedTree
<1>2. /\ list = K[n] /\ DOMAIN K = DOMAIN heap /\ N \in Nat /\ list \in Seq(DOMAIN heap)
      /\ heap[n].lastChild = Entry(list, N)
  BY ListFacts
<1> HIDE DEF K, list
<1>3. Sound(heap) /\ Forest(K) /\ Links(heap, K)
  BY <1>1, RepresentsFacts DEF Represents
<1>4. Len(K[n]) \in 0..Len(K[n])
  BY <1>2
<1>5. Backwards(heap, Entry(K[n], Len(K[n]))) =
        SubSeq(Reverse(K[n]), Len(K[n]) + 1 - Len(K[n]), Len(K[n]))
  <2> DEFINE m == Len(K[n])
  <2>1. n \in DOMAIN K /\ m \in 0..Len(K[n])
    BY <1>2, <1>4
  <2> HIDE DEF m
  <2>2. Backwards(heap, Entry(K[n], m)) = SubSeq(Reverse(K[n]), Len(K[n]) + 1 - m, Len(K[n]))
    BY <1>3, <2>1, BackwardsIs
  <2>3. QED
    BY <2>2 DEF m
<1>6. N + 1 - N = 1
  BY <1>2
<1>7. SubSeq(Reverse(list), 1, N) = Reverse(list)
  <2> DEFINE r == Reverse(list)
  <2>1. r = [j \in 1..N |-> list[N - j + 1]]
    BY DEF Reverse
  <2> HIDE DEF r
  <2>2. \A j \in 1..N : N - j + 1 \in 1..N
    BY <1>2
  <2>3. r \in [1..N -> DOMAIN heap]
    BY <1>2, <2>1, <2>2
  <2>4. r \in Seq(DOMAIN heap) /\ Len(r) = N
    BY <1>2, <2>3
  <2>5. SubSeq(r, 1, N) = r
    BY <1>2, <2>4
  <2>6. QED
    BY <2>5 DEF r
<1>8. QED
  BY <1>2, <1>5, <1>6, <1>7 DEF list

\* A handle counts the children in any set.
LEMMA CountsHold ==
  ASSUME LinkedTree, NEW n \in DOMAIN heap, NEW S
  PROVE  StepsCount(n, S)
<1> DEFINE K == Lists(heap)
           list == Children(heap, n)
<1>1. Represents(heap, K)
  BY DEF LinkedTree
<1>2. list = K[n] /\ DOMAIN K = DOMAIN heap /\ DOMAIN list = 1..Len(list)
  BY ListFacts
<1> HIDE DEF K
<1>3. LET like == {i \in 1..Len(K[n]) : K[n][i] \in S}
      IN  /\ Cardinality(like) \in Nat /\ Steps(heap, n, S, Cardinality(like)) = NULL
          /\ \A i \in like : Steps(heap, n, S, Cardinality({j \in like : j < i})) = K[n][i]
  BY <1>1, <1>2, StepsFind
<1>4. QED
  BY <1>2, <1>3, Zenon DEF StepsCount

\* Walks by value find the nearest child that has it.
LEMMA ByValueHolds ==
  ASSUME LinkedTree, NEW n \in DOMAIN heap, NEW i \in 1..Len(Children(heap, n))
  PROVE  ByValue(n, i)
<1> DEFINE K == Lists(heap)
           list == Children(heap, n)
           N == Len(list)
           v == heap[list[i]].value
           S == WithValue(heap, v)
           like == {j \in DOMAIN list : heap[list[j]].value = v}
           after == {j \in like : j > i}
           before == {j \in like : j < i}
           i1 == i + 1
           i0 == i - 1
<1>1. Represents(heap, K)
  BY DEF LinkedTree
<1>2. /\ list = K[n] /\ DOMAIN K = DOMAIN heap /\ DOMAIN list = 1..N /\ N \in Nat
      /\ heap[n].firstChild = Entry(list, 1) /\ heap[n].lastChild = Entry(list, N)
      /\ heap[list[i]].prev = Entry(list, i0) /\ heap[list[i]].next = Entry(list, i1)
      /\ \A j \in 1..N : list[j] \in DOMAIN heap
  BY ListFacts
<1>3. /\ 1 \in 1..(N + 1) /\ N \in 0..N /\ i1 \in 1..(N + 1) /\ i0 \in 0..N /\ i \in Int
      /\ \A j \in 1..N : (j > i <=> j \in i1..N) /\ (j < i <=> j \in 1..i0)
      /\ \A j \in i1..N : j \in 1..N
      /\ \A j \in 1..i0 : j \in 1..N
  BY <1>2
<1>v. v = heap[list[i]].value
  OBVIOUS
<1> HIDE DEF K, v, i1, i0
<1>4. \A j \in 1..N : list[j] \in S <=> heap[list[j]].value = v
  BY <1>2 DEF WithValue
<1> HIDE DEF S
<1>5. like = Places(list, S, 1, N) /\ like # {}
  BY <1>2, <1>4, <1>v DEF Places
<1>6. after = Places(list, S, i1, N)
  BY <1>2, <1>3, <1>4 DEF Places
<1>7. before = Places(list, S, 1, i0)
  BY <1>2, <1>3, <1>4 DEF Places
<1> HIDE DEF like, after, before
<1>8. FirstOf(Forwards(heap, heap[n].firstChild), S) = list[Min(like)]
  <2> HIDE DEF list
  <2>1. QED
    BY <1>1, <1>2, <1>3, <1>5, ForwardsFinds
<1>9. FirstOf(Backwards(heap, heap[n].lastChild), S) = list[Max(like)]
  <2> HIDE DEF list
  <2>1. QED
    BY <1>1, <1>2, <1>3, <1>5, BackwardsFinds
<1>10. FirstOf(Forwards(heap, heap[list[i]].next), S) = IF after = {} THEN NULL ELSE list[Min(after)]
  <2> HIDE DEF list
  <2>1. QED
    BY <1>1, <1>2, <1>3, <1>6, ForwardsFinds
<1>11. FirstOf(Backwards(heap, heap[list[i]].prev), S) = IF before = {} THEN NULL ELSE list[Max(before)]
  <2> HIDE DEF list
  <2>1. QED
    BY <1>1, <1>2, <1>3, <1>7, BackwardsFinds
<1>12. FirstChild(heap, n, v) = list[Min(like)] /\ LastChild(heap, n, v) = list[Max(like)]
  BY <1>8, <1>9 DEF FirstChild, LastChild, Children, S
<1>13. /\ NextSibling(heap, list[i], v) = (IF after = {} THEN NULL ELSE list[Min(after)])
       /\ PreviousSibling(heap, list[i], v) = (IF before = {} THEN NULL ELSE list[Max(before)])
  BY <1>10, <1>11 DEF NextSibling, PreviousSibling, S
<1>14. StepsCount(n, WithValue(heap, v)) /\ StepsCount(n, ElementsOf(heap) \cap WithValue(heap, v))
  BY CountsHold
<1> HIDE DEF list
<1>15. QED
  BY <1>12, <1>13, <1>14, Zenon DEF ByValue, list, like, after, before, v

\* In a linked tree the walks agree.
LEMMA TreeWalksAgree == ASSUME LinkedTree PROVE WalksAgree
<1> SUFFICES ASSUME NEW n \in DOMAIN heap
             PROVE  LET list == Children(heap, n) IN
                    /\ Backwards(heap, heap[n].lastChild) = Reverse(list)
                    /\ \A i \in DOMAIN list : heap[list[i]].parent = n /\ ByValue(n, i)
                    /\ StepsCount(n, DOMAIN heap) /\ StepsCount(n, ElementsOf(heap))
                    /\ \A i \in DOMAIN heap[n].attrs : Find(heap[n].attrs, heap[n].attrs[i][1]) = i
  BY DEF WalksAgree
<1>1. \A i \in DOMAIN Children(heap, n) : heap[Children(heap, n)[i]].parent = n /\ ByValue(n, i)
  <2>1. /\ DOMAIN Children(heap, n) = 1..Len(Children(heap, n))
        /\ \A i \in 1..Len(Children(heap, n)) : heap[Children(heap, n)[i]].parent = n
    BY ListFacts
  <2>2. \A i \in 1..Len(Children(heap, n)) : ByValue(n, i)
    BY ByValueHolds
  <2>3. QED
    BY <2>1, <2>2
<1>2. \A i \in DOMAIN heap[n].attrs : Find(heap[n].attrs, heap[n].attrs[i][1]) = i
  <2>1. IsSet(heap[n].attrs)
    BY DEF LinkedTree, Represents, Labelled
  <2>2. DOMAIN heap[n].attrs = 1..Len(heap[n].attrs)
    BY <2>1, SetFacts
  <2>3. QED
    BY <2>1, <2>2, FindFacts
<1>3. QED
  BY <1>1, <1>2, ListReversed, CountsHold

\* Every node's pointers are to nodes that exist.
THEOREM NodesTypeHolds == NodesSpec => []NodesTypeOK
<1>1. LinkedTree => NodesTypeOK
  BY RepresentsFacts DEF LinkedTree, NodesTypeOK, Sound
<1>2. QED
  BY <1>1, NodesLinkedTree, PTL

\* From every node the list of its children is the same forwards and backwards, they know
\* their parent, and walks by value, handles and names of attributes find what they should.
THEOREM NodesWalksAgree == NodesSpec => []WalksAgree
<1>1. LinkedTree => WalksAgree
  BY TreeWalksAgree
<1>2. QED
  BY <1>1, NodesLinkedTree, PTL

-----------------------------------------------------------------------------
(* Nothing leaks                                                           *)

\* The way up from a node: it ends at the document, and meets no node twice.
WayUp(h, n, q) ==
  /\ Chain([m \in DOMAIN h |-> h[m].parent], q)
  /\ Len(q) \in Nat \ {0} /\ q[1] = n /\ q[Len(q)] = Doc
  /\ \A i, j \in 1..Len(q) : q[i] = q[j] => i = j

\* One behind the other, with a node in front: a child's way up is it, then its parent's,
\* unless the child is met there.  Then the way up from there is shorter.
LEMMA ShorterWay ==
  ASSUME NEW h, NEW n, NEW q, WayUp(h, n, q), NEW k \in 1..Len(q)
  PROVE  \E r : WayUp(h, q[k], r)
<1> DEFINE link == [m \in DOMAIN h |-> h[m].parent]
           N == Len(q)
           r == SubSeq(q, k, N)
           M == N - k + 1
<1>1. /\ q \in Seq(DOMAIN link) /\ (\A i \in 1..N : link[q[i]] = Entry(q, i + 1))
      /\ N \in Nat /\ q[N] = Doc /\ \A i, j \in 1..N : q[i] = q[j] => i = j
  BY DEF WayUp, Chain
<1>k. k \in Int /\ 1 <= k /\ k <= N
  BY <1>1
<1> HIDE DEF link, N
<1>2. /\ r \in Seq(DOMAIN link) /\ Len(r) = M /\ \A i \in 1..M : r[i] = q[k + i - 1]
  <2>1. \A i \in k..N : q[i] \in DOMAIN link
    <3>1. \A i \in 1..N : q[i] \in DOMAIN link
      BY <1>1 DEF N
    <3>2. \A i \in k..N : i \in 1..N
      BY <1>1, <1>k
    <3>3. QED
      BY <3>1, <3>2
  <2>2. /\ r \in Seq(DOMAIN link) /\ Len(r) = (IF k <= N THEN N - k + 1 ELSE 0)
        /\ \A i \in 1..(N - k + 1) : r[i] = q[k + i - 1]
    BY <1>1, <1>k, <2>1, SubSeqProperties
  <2>3. QED
    BY <1>k, <2>2
<1> HIDE DEF r
<1>3. M \in Nat \ {0} /\ M \in Int /\ \A i \in 1..M : k + i - 1 \in 1..N /\ k + i - 1 \in Int
  BY <1>1, <1>k
<1>4. r[1] = q[k]
  <2>1. 1 \in 1..M /\ k + 1 - 1 = k
    BY <1>3, <1>k
  <2>2. QED
    BY <1>2, <2>1
<1>5. r[M] = Doc
  <2>1. M \in 1..M /\ k + M - 1 = N
    BY <1>1, <1>3, <1>k
  <2> DEFINE m == M
  <2>2. m \in 1..M /\ k + m - 1 = N
    BY <2>1
  <2> HIDE DEF m
  <2>3. r[m] = q[N]
    BY <1>2, <2>2
  <2>4. QED
    BY <1>1, <2>3 DEF m
<1>6. ASSUME NEW i \in 1..M, NEW j \in 1..M, r[i] = r[j] PROVE i = j
  <2>1. q[k + i - 1] = q[k + j - 1]
    BY <1>2, <1>6
  <2>2. k + i - 1 = k + j - 1
    BY <1>1, <1>3, <2>1
  <2>3. i \in Int /\ j \in Int
    BY <1>3
  <2>4. QED
    BY <1>k, <2>2, <2>3
<1>7. ASSUME NEW i \in 1..M PROVE link[r[i]] = Entry(r, i + 1)
  <2>1. PICK a \in 1..N : a = k + i - 1 /\ r[i] = q[a]
    BY <1>2, <1>3
  <2>2. link[r[i]] = Entry(q, a + 1)
    BY <1>1, <2>1
  <2>3. i \in Int /\ i >= 1 /\ i <= M /\ i + 1 \in Int /\ a + 1 \in Int
    BY <1>3, <2>1
  <2>4. CASE i = M
    <3>1. a = N /\ a + 1 \notin 1..N /\ i + 1 \notin 1..M
      <4>1. a = k + M - 1 /\ N \in Int
        BY <1>1, <2>1, <2>4
      <4>2. k + M - 1 = N
        BY <1>k, <4>1
      <4>3. a = N
        BY <4>1, <4>2
      <4>4. QED
        BY <1>3, <2>3, <2>4, <4>1, <4>3
    <3> DEFINE a1 == a + 1
               b1 == i + 1
    <3>2. a1 \notin 1..N /\ a1 \in Int /\ b1 \notin 1..M /\ b1 \in Int
      BY <2>3, <3>1
    <3> HIDE DEF a1, b1
    <3>3. Entry(q, a1) = NULL /\ Entry(r, b1) = NULL
      BY <1>1, <1>2, <3>2, EntryFacts DEF N
    <3>4. QED
      BY <2>2, <3>3 DEF a1, b1
  <2>5. CASE i # M
    <3>1. i + 1 \in 1..M /\ a + 1 \in 1..N /\ k + (i + 1) - 1 = a + 1
      BY <1>1, <1>3, <1>k, <2>1, <2>3, <2>5
    <3> DEFINE a1 == a + 1
               b1 == i + 1
    <3>2. a1 \in 1..N /\ a1 \in Int /\ b1 \in 1..M /\ b1 \in Int /\ k + b1 - 1 = a1
      BY <2>3, <3>1
    <3> HIDE DEF a1, b1
    <3>3. Entry(q, a1) = q[a1] /\ Entry(r, b1) = r[b1]
      BY <1>1, <1>2, <3>2, EntryFacts DEF N
    <3>4. r[b1] = q[a1]
      BY <1>2, <3>2
    <3>5. QED
      BY <2>2, <3>3, <3>4 DEF a1, b1
  <2>6. QED
    BY <2>4, <2>5
<1> HIDE DEF M
<1>8. Chain(link, r) /\ Len(r) \in Nat \ {0} /\ r[Len(r)] = Doc
  BY <1>2, <1>3, <1>5, <1>7 DEF Chain
<1>9. WayUp(h, q[k], r)
  BY <1>2, <1>4, <1>6, <1>8 DEF WayUp, link
<1>10. QED
  BY <1>9

\* A child has a way up when its parent has.
LEMMA WayOn ==
  ASSUME NEW h, NEW c \in DOMAIN h, NEW p, h[c].parent = p, NEW q, WayUp(h, p, q)
  PROVE  \E r : WayUp(h, c, r)
<1> DEFINE link == [m \in DOMAIN h |-> h[m].parent]
           N == Len(q)
           r == <<c>> \o q
           M == N + 1
<1>1. /\ q \in Seq(DOMAIN link) /\ (\A i \in 1..N : link[q[i]] = Entry(q, i + 1))
      /\ N \in Nat \ {0} /\ q[1] = p /\ q[N] = Doc /\ \A i, j \in 1..N : q[i] = q[j] => i = j
  BY DEF WayUp, Chain
<1>c. c \in DOMAIN link /\ link[c] = p
  OBVIOUS
<1> HIDE DEF link
<1>2. CASE \E k \in 1..N : q[k] = c
  <2>1. PICK k \in 1..Len(q) : q[k] = c
    BY <1>2
  <2>2. QED
    BY <2>1, ShorterWay
<1>3. CASE \A k \in 1..N : q[k] # c
  <2>1. /\ r \in Seq(DOMAIN link) /\ Len(r) = M /\ r[1] = c
        /\ \A i \in 1..N : r[i + 1] = q[i]
    <3>1. <<c>> \in Seq(DOMAIN link) /\ Len(<<c>>) = 1 /\ <<c>>[1] = c
      BY <1>c
    <3> DEFINE s == <<c>>
    <3>2. s \in Seq(DOMAIN link) /\ Len(s) = 1 /\ s[1] = c
      BY <3>1
    <3> HIDE DEF s
    <3> DEFINE X == DOMAIN link
    <3>x. s \in Seq(X) /\ q \in Seq(X)
      BY <1>1, <3>2
    <3> HIDE DEF X
    <3>y. /\ s \o q \in Seq(X) /\ Len(s \o q) = Len(s) + Len(q)
          /\ \A i \in 1..(Len(s) + Len(q)) :
               (s \o q)[i] = IF i <= Len(s) THEN s[i] ELSE q[i - Len(s)]
      BY <3>x, ConcatProperties
    <3>3. /\ s \o q \in Seq(DOMAIN link) /\ Len(s \o q) = Len(s) + Len(q)
          /\ \A i \in 1..(Len(s) + Len(q)) :
               (s \o q)[i] = IF i <= Len(s) THEN s[i] ELSE q[i - Len(s)]
      BY <3>y DEF X
    <3>4. N = Len(q) /\ 1 \in 1..(1 + N) /\ 1 <= 1
          /\ \A i \in 1..N : i + 1 \in 1..(1 + N) /\ ~(i + 1 <= 1) /\ i + 1 - 1 = i
      BY <1>1
    <3>5. (s \o q)[1] = c
      BY <3>2, <3>3, <3>4
    <3>6. \A i \in 1..N : (s \o q)[i + 1] = q[i]
      BY <3>2, <3>3, <3>4
    <3>7. QED
      BY <1>1, <3>2, <3>3, <3>5, <3>6 DEF s
  <2> HIDE DEF r
  <2>2. /\ M \in Nat \ {0} /\ N \in Int
        /\ \A i \in 1..M : i = 1 \/ \E k \in 1..N : i = k + 1
    <3>1. ASSUME NEW i \in 1..M, i # 1 PROVE \E k \in 1..N : i = k + 1
      <4>1. i - 1 \in 1..N /\ i = (i - 1) + 1
        BY <1>1, <3>1
      <4>2. QED
        BY <4>1
    <3>2. QED
      BY <1>1, <3>1
  <2>3. r[M] = Doc
    <3> DEFINE n == N
    <3>1. n \in 1..N /\ M = n + 1
      BY <1>1
    <3> HIDE DEF n
    <3>2. r[n + 1] = q[n]
      BY <2>1, <3>1
    <3>3. QED
      BY <1>1, <3>1, <3>2 DEF n
  <2>4. ASSUME NEW i \in 1..M, NEW j \in 1..M, r[i] = r[j] PROVE i = j
    <3>1. CASE i = 1 /\ j = 1
      BY <3>1
    <3>2. CASE i = 1 /\ j # 1
      <4>1. PICK k \in 1..N : j = k + 1
        BY <2>2, <3>2
      <4>2. QED
        BY <1>3, <2>1, <2>4, <3>2, <4>1
    <3>3. CASE i # 1 /\ j = 1
      <4>1. PICK k \in 1..N : i = k + 1
        BY <2>2, <3>3
      <4>2. QED
        BY <1>3, <2>1, <2>4, <3>3, <4>1
    <3>4. CASE i # 1 /\ j # 1
      <4>1. PICK k \in 1..N : i = k + 1
        BY <2>2, <3>4
      <4>2. PICK l \in 1..N : j = l + 1
        BY <2>2, <3>4
      <4>3. q[k] = q[l]
        BY <2>1, <2>4, <4>1, <4>2
      <4>4. QED
        BY <1>1, <4>1, <4>2, <4>3
    <3>5. QED
      BY <3>1, <3>2, <3>3, <3>4
  <2>5. ASSUME NEW i \in 0..N
        PROVE  Entry(r, i + 2) = Entry(q, i + 1)
    <3>1. i + 2 \in Int /\ i + 1 \in Int /\ (i + 2 \in 1..M <=> i + 1 \in 1..N)
          /\ (i + 1) + 1 = i + 2
      BY <1>1
    <3> DEFINE a == i + 1
               b == i + 2
    <3>2. a \in Int /\ b \in Int /\ (b \in 1..M <=> a \in 1..N) /\ a + 1 = b
      BY <3>1
    <3> HIDE DEF a, b
    <3>3. CASE a \in 1..N
      <4>1. Entry(r, b) = r[b] /\ Entry(q, a) = q[a]
        BY <1>1, <2>1, <3>2, <3>3, EntryFacts
      <4>2. r[a + 1] = q[a]
        BY <2>1, <3>3
      <4>3. QED
        BY <3>2, <4>1, <4>2 DEF a, b
    <3>4. CASE a \notin 1..N
      <4>1. Entry(r, b) = NULL /\ Entry(q, a) = NULL
        BY <1>1, <2>1, <3>2, <3>4, EntryFacts
      <4>2. QED
        BY <4>1 DEF a, b
    <3>5. QED
      BY <3>3, <3>4
  <2>6. ASSUME NEW i \in 1..M PROVE link[r[i]] = Entry(r, i + 1)
    <3>1. CASE i = 1
      <4>1. 0 \in 0..N /\ 0 + 2 = i + 1 /\ 0 + 1 = 1 /\ 1 \in 1..N /\ 1 \in Int
        BY <1>1, <3>1
      <4>2. Entry(r, i + 1) = Entry(q, 1)
        BY <2>5, <4>1
      <4>3. Entry(q, 1) = p
        BY <1>1, <4>1, EntryFacts
      <4>4. QED
        BY <1>c, <2>1, <3>1, <4>2, <4>3
    <3>2. CASE i # 1
      <4>1. PICK k \in 1..N : i = k + 1
        BY <2>2, <3>2
      <4>2. k \in 0..N /\ k + 2 = i + 1
        BY <1>1, <4>1
      <4>3. Entry(r, i + 1) = Entry(q, k + 1)
        BY <2>5, <4>2
      <4>4. r[i] = q[k]
        BY <2>1, <4>1
      <4>5. QED
        BY <1>1, <4>3, <4>4
    <3>3. QED
      BY <3>1, <3>2
  <2> HIDE DEF M
  <2>7. Chain(link, r) /\ Len(r) \in Nat \ {0} /\ r[Len(r)] = Doc
    BY <2>1, <2>2, <2>3, <2>6 DEF Chain
  <2>8. WayUp(h, c, r)
    BY <2>1, <2>4, <2>7 DEF WayUp, link
  <2>9. QED
    BY <2>8
<1>4. QED
  BY <1>2, <1>3

\* From every node of a tree there is a way up.
LEMMA WaysUp ==
  ASSUME NEW h, NEW kids, Represents(h, kids), NEW n \in DOMAIN h
  PROVE  \E q : WayUp(h, n, q)
<1> DEFINE T == {m \in DOMAIN kids : \E q : WayUp(h, m, q)}
<1>1. /\ DOMAIN h = DOMAIN kids /\ Doc \in DOMAIN h /\ IsTree(kids, Doc)
      /\ Links(h, kids) /\ Free(h, kids, Doc)
  BY RepresentsFacts DEF Represents
<1>2. Doc \in T
  <2> DEFINE q == <<Doc>>
  <2>1. /\ q \in Seq(DOMAIN h) /\ Len(q) = 1 /\ q[1] = Doc
    BY <1>1
  <2> HIDE DEF q
  <2>2. Entry(q, 2) = NULL
    BY <2>1, EntryFacts
  <2>3. \A i \in 1..Len(q) : i = 1 /\ i + 1 = 2
    BY <2>1
  <2> DEFINE link == [m \in DOMAIN h |-> h[m].parent]
  <2>4. DOMAIN link = DOMAIN h /\ link[Doc] = NULL
    BY <1>1 DEF Free
  <2> HIDE DEF link
  <2>5. Chain(link, q)
    BY <2>1, <2>2, <2>3, <2>4 DEF Chain
  <2>6. WayUp(h, Doc, q)
    BY <2>1, <2>3, <2>5 DEF WayUp, link
  <2>7. QED
    BY <1>1, <2>6
<1>3. Closed(kids, T)
  <2> SUFFICES ASSUME NEW p \in T, NEW c \in Range(kids[p]) PROVE c \in T
    BY DEF Closed
  <2>1. p \in DOMAIN kids /\ \E q : WayUp(h, p, q)
    OBVIOUS
  <2>2. PICK i \in 1..Len(kids[p]) : c = kids[p][i]
    BY <1>1, <2>1, TreeFacts
  <2>3. c \in DOMAIN h /\ h[c].parent = p
    BY <1>1, <2>1, <2>2, TreeFacts DEF Links
  <2>4. \E q : WayUp(h, c, q)
    BY <2>1, <2>3, WayOn
  <2>5. QED
    BY <1>1, <2>3, <2>4
<1>4. T = DOMAIN kids
  <2>1. T \in SUBSET DOMAIN kids
    OBVIOUS
  <2> HIDE DEF T
  <2>2. QED
    BY <1>1, <1>2, <1>3, <2>1, TreeFacts
<1>5. QED
  BY <1>1, <1>4

\* From every node of a tree its document is found.
LEMMA DocumentFound ==
  ASSUME NEW h, NEW kids, Represents(h, kids), NEW n \in DOMAIN h
  PROVE  GetDocument(h, n) = Doc
<1> DEFINE link == [m \in DOMAIN h |-> h[m].parent]
           D == {m \in DOMAIN h : h[m].type = "document"}
<1>1. Doc \in DOMAIN h /\ DOMAIN h \subseteq Node /\ Sound(h) /\ Labelled(h)
  BY RepresentsFacts DEF Represents
<1>2. D = {Doc}
  BY <1>1 DEF Labelled
<1>3. PICK q : WayUp(h, n, q)
  BY WaysUp
<1> DEFINE N == Len(q)
<1>4. /\ Chain(link, q) /\ q \in Seq(DOMAIN link) /\ N \in Nat \ {0} /\ q[1] = n /\ q[N] = Doc
      /\ \A i, j \in 1..N : q[i] = q[j] => i = j
  BY <1>3 DEF WayUp, Chain
<1>5. /\ NULL \notin DOMAIN link /\ link \in [DOMAIN link -> DOMAIN link \cup {NULL}]
      /\ DOMAIN link = DOMAIN h
  <2>1. NULL \notin DOMAIN h
    BY <1>1, NodeNumbers
  <2>2. \A m \in DOMAIN h : h[m].parent \in DOMAIN h \cup {NULL}
    BY <1>1 DEF Sound
  <2>3. QED
    BY <2>1, <2>2
<1>6. GetDocument(h, n) = FirstOf(Walk(link, n), D)
  BY DEF GetDocument
<1> HIDE DEF link, D
<1>7. N <= MaxNodes
  <2> HIDE DEF N
  <2>1. q \in [1..N -> Node]
    BY <1>1, <1>4, <1>5 DEF N
  <2>2. QED
    BY <1>4, <2>1, ShortList
<1>8. Walk(link, n) = q
  <2>1. 1 \in 1..(N + 1) /\ 1 \in 1..N /\ 1 \in Int
    BY <1>4
  <2>2. Walk(link, Entry(q, 1)) = SubSeq(q, 1, N)
    BY <1>4, <1>5, <1>7, <2>1, WalkIs
  <2>3. Entry(q, 1) = n
    BY <1>4, <2>1, EntryFacts
  <2>4. SubSeq(q, 1, N) = q
    BY <1>4
  <2>5. QED
    BY <2>2, <2>3, <2>4
<1>9. FirstOf(q, D) = Doc
  <2> DEFINE at == {i \in DOMAIN q : q[i] \in D}
  <2>1. FirstOf(q, D) = IF at = {} THEN NULL ELSE q[Min(at)]
    BY DEF FirstOf
  <2>2. DOMAIN q = 1..N /\ N \in 1..N /\ N \in Nat
    BY <1>4
  <2>3. N \in at
    BY <1>2, <1>4, <2>2
  <2>4. at \in SUBSET (1..N) /\ \A i \in at : q[i] = Doc
    BY <1>2, <2>2
  <2> HIDE DEF at
  <2>5. Min(at) \in at
    BY <2>2, <2>3, <2>4, MinMax
  <2>6. QED
    BY <2>1, <2>3, <2>4, <2>5
<1>10. QED
  BY <1>6, <1>8, <1>9

\* In a linked tree nothing is lost.
LEMMA TreeHasAll == ASSUME LinkedTree PROVE NothingLeaks
<1> DEFINE K == Lists(heap)
<1>1. Represents(heap, K)
  BY DEF LinkedTree
<1>2. K = [n \in DOMAIN heap |-> Children(heap, n)]
  BY DEF Lists
<1> HIDE DEF K
<1>3. /\ DOMAIN heap = DOMAIN K /\ Doc \in DOMAIN heap /\ IsTree(K, Doc)
      /\ \A p \in DOMAIN K : Children(heap, p) = K[p]
  BY <1>1, RepresentsFacts DEF Represents
<1>4. Below(heap, Doc) = DOMAIN heap
  <2>1. Below(heap, Doc) = Under(K, Doc)
    BY <1>3, BelowIs
  <2> DEFINE U == Under(K, Doc)
  <2>2. Doc \in U /\ U \subseteq DOMAIN K /\ Closed(K, U)
    BY <1>3, UnderFacts
  <2> HIDE DEF U
  <2>3. U = DOMAIN K
    BY <1>3, <2>2, TreeFacts
  <2>4. QED
    BY <1>3, <2>1, <2>3 DEF U
<1>5. \A n \in DOMAIN heap : GetDocument(heap, n) = Doc
  BY <1>1, DocumentFound
<1>6. QED
  BY <1>2, <1>3, <1>4, <1>5 DEF NothingLeaks

\* No node is lost, none is in two lists, and from each its document is found: each is
\* deleted once.
THEOREM NodesNothingLeaks == NodesSpec => []NothingLeaks
<1>1. LinkedTree => NothingLeaks
  BY TreeHasAll
<1>2. QED
  BY <1>1, NodesLinkedTree, PTL
=============================================================================
