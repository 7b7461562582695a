---------------------- MODULE CommunityReplicasProofs -----------------------
(***************************************************************************)
(* Proofs about CommunityReplicas, for any number of devices, operations   *)
(* and limits: no device ever meets a malformed log, authors never fork,   *)
(* a join intent is recorded by at most one operation, removals and        *)
(* demotions win on every device, every model is well formed, and an edit  *)
(* does what it says on the device that makes it, and nothing else.        *)
(***************************************************************************)
EXTENDS CommunityReplicas, FiniteSetTheorems, WellFoundedInduction, TLAPS

(***************************************************************************)
(* The inductive invariant.                                                *)
(***************************************************************************)

\* One log: well-formed ids, valid operations, one origin, and a past that is
\* closed under ancestry and strictly older.
SoundLog(l) ==
    /\ DOMAIN l \subseteq Ids
    /\ \A i \in DOMAIN l : ValidOperation(l, i)
    /\ \A i \in DOMAIN l : l[i].kind = "create" <=> i = RootId
    /\ DOMAIN l # {} => RootId \in DOMAIN l
    /\ \A i \in DOMAIN l : l[i].parents \subseteq l[i].past
    /\ \A i \in DOMAIN l : \A j \in l[i].past :
          /\ j \in DOMAIN l
          /\ Clock(j) < Clock(i)
          /\ l[j].past \subseteq l[i].past

\* The log is finite: its clocks have a bound.
BoundedLog(l) == \E n \in Nat : \A i \in DOMAIN l : Clock(i) <= n

\* So it is on every device.
SoundLogs == \A p \in Peers : SoundLog(log[p])

\* Two devices that hold an id hold the same operation under it.
Agreement ==
    \A p, q \in Peers : \A i \in DOMAIN log[p] : i \in DOMAIN log[q] => log[p][i] = log[q][i]

\* A device holds every operation that it made.
AuthorsHoldTheirOwn ==
    \A p \in Peers : \A i \in DOMAIN log[p] :
        log[p][i].author \in Peers /\ i \in DOMAIN log[log[p][i].author]

\* An admission is made by the host that its intent names.
HostsAdmit ==
    \A p \in Peers : \A i \in DOMAIN log[p] :
        log[p][i].kind = "admit" => log[p][i].author = log[p][i].data.host

\* The logs are finite: their clocks have a common bound.
Bounded(n) == \A p \in Peers : \A i \in DOMAIN log[p] : Clock(i) <= n

\* The bound is some number.
ClocksBounded == \E n \in Nat : Bounded(n)

\* The invariant of the logs.
IInv ==
    /\ DOMAIN log = Peers
    /\ SoundLogs
    /\ Agreement
    /\ AuthorsHoldTheirOwn
    /\ HostsAdmit
    /\ ClocksBounded
    /\ AuthorsNeverFork
    /\ IntentsAdmitOnce

(***************************************************************************)
(* The maximum of a bounded set of naturals.                               *)
(***************************************************************************)
LEMMA MaxOfBounded ==
    ASSUME NEW S \in SUBSET Nat, S # {}, NEW n \in Nat, \A s \in S : s <= n
    PROVE  Max(S) \in S /\ \A s \in S : s <= Max(S)
<1> DEFINE T == {k \in Nat : \A s \in S : s <= k}
<1>1. T \subseteq Nat /\ T # {}
  OBVIOUS
<1>2. IsWellFoundedOn(OpToRel(<, Nat), Nat)
  BY NatLessThanWellFounded
<1>3. PICK k \in T : \A y \in T : ~ (<<y, k>> \in OpToRel(<, Nat))
  <2> HIDE DEF T
  <2> QED BY <1>1, <1>2, WFMin
<1>4. \A y \in T : ~ (y < k)
  BY <1>3 DEF OpToRel
<1>5. k \in S
  <2> SUFFICES ASSUME k \notin S PROVE FALSE
    OBVIOUS
  <2>1. \A s \in S : s <= k /\ s # k
    BY <1>3
  <2>2. PICK s0 \in S : TRUE
    OBVIOUS
  <2>3. k - 1 \in Nat /\ k - 1 < k
    BY <2>1, <2>2
  <2>4. k - 1 \in T
    BY <2>1, <2>3
  <2> QED BY <2>3, <2>4, <1>4
<1> QED BY <1>5, <1>3 DEF Max

(***************************************************************************)
(* A log has a latest operation, which is a head.                          *)
(***************************************************************************)
LEMMA LatestIsHead ==
    ASSUME NEW l, SoundLog(l), DOMAIN l # {},
           NEW n \in Nat, \A i \in DOMAIN l : Clock(i) <= n
    PROVE  /\ LogClock(l) \in Nat
           /\ \A i \in DOMAIN l : Clock(i) <= LogClock(l)
           /\ \E i \in Heads(l) : Clock(i) = LogClock(l)
<1> DEFINE S == {Clock(i) : i \in DOMAIN l}
<1>1. S \in SUBSET Nat /\ S # {} /\ \A s \in S : s <= n
  BY DEF SoundLog, Ids, Clock
<1>2. Max(S) \in S /\ \A s \in S : s <= Max(S)
  <2> HIDE DEF S
  <2> QED BY <1>1, MaxOfBounded
<1>3. LogClock(l) \in S /\ \A i \in DOMAIN l : Clock(i) <= LogClock(l)
  BY <1>2 DEF LogClock
<1>4. PICK h \in DOMAIN l : Clock(h) = LogClock(l)
  BY <1>3
<1>5. \A j \in DOMAIN l : h \notin l[j].parents
  <2> SUFFICES ASSUME NEW j \in DOMAIN l, h \in l[j].parents PROVE FALSE
    OBVIOUS
  <2>1. Clock(h) < Clock(j)
    BY DEF SoundLog
  <2>2. Clock(j) <= Clock(h) /\ Clock(h) \in Nat /\ Clock(j) \in Nat
    BY <1>3, <1>4, <1>1
  <2> QED BY <2>1, <2>2
<1> QED BY <1>1, <1>3, <1>4, <1>5 DEF Heads

(***************************************************************************)
(* The heads of a log, with their pasts, are the whole log: the operation  *)
(* appended next has everything its author holds in its past.              *)
(***************************************************************************)
LEMMA HeadsCoverLog ==
    ASSUME NEW l, SoundLog(l), NEW n \in Nat, \A i \in DOMAIN l : Clock(i) <= n
    PROVE  Heads(l) \cup UNION {l[h].past : h \in Heads(l)} = DOMAIN l
<1> DEFINE C == Heads(l) \cup UNION {l[h].past : h \in Heads(l)}
           U == DOMAIN l \ C
           S == {Clock(i) : i \in U}
<1>1. C \subseteq DOMAIN l
  BY DEF Heads, SoundLog
<1>2. U = {}
  <2> SUFFICES ASSUME U # {} PROVE FALSE
    OBVIOUS
  <2>1. S \in SUBSET Nat /\ S # {} /\ \A s \in S : s <= n
    BY DEF SoundLog, Ids, Clock
  <2>2. Max(S) \in S /\ \A s \in S : s <= Max(S)
    <3> HIDE DEF S
    <3> QED BY <2>1, MaxOfBounded
  <2>3. PICK i \in U : \A j \in U : Clock(j) <= Clock(i)
    BY <2>2
  <2>4. PICK j \in DOMAIN l : i \in l[j].parents
    BY DEF Heads
  <2>5. i \in l[j].past /\ Clock(i) < Clock(j)
    BY <2>4 DEF SoundLog
  <2>6. Clock(i) \in Nat /\ Clock(j) \in Nat
    BY DEF SoundLog, Ids, Clock
  <2>7. j \in C
    BY <2>3, <2>5, <2>6
  <2>8. CASE j \in Heads(l)
    BY <2>5, <2>8
  <2>9. CASE j \notin Heads(l)
    <3>1. PICK h \in Heads(l) : j \in l[h].past
      BY <2>7, <2>9
    <3>2. h \in DOMAIN l
      BY DEF Heads
    <3>3. l[j].past \subseteq l[h].past
      BY <3>1, <3>2 DEF SoundLog
    <3> QED BY <2>5, <3>1, <3>3
  <2> QED BY <2>8, <2>9
<1> QED BY <1>1, <1>2

(***************************************************************************)
(* Sound logs are what rebuild requires, alone and merged.                 *)
(***************************************************************************)
LEMMA SoundIsValid ==
    ASSUME NEW l, SoundLog(l), DOMAIN l # {}
    PROVE  ValidLog(l)
BY DEF SoundLog, ValidLog

\* The union of two sound logs that agree where they overlap is sound.
LEMMA SoundUnion ==
    ASSUME NEW f, NEW g, SoundLog(f), SoundLog(g),
           \A i \in DOMAIN f : i \in DOMAIN g => f[i] = g[i]
    PROVE  SoundLog(Joined(f, g))
<1> DEFINE u == Joined(f, g)
<1>1. /\ DOMAIN u = DOMAIN f \cup DOMAIN g
      /\ \A i \in DOMAIN f : u[i] = f[i]
      /\ \A i \in DOMAIN g : u[i] = g[i]
  BY DEF Joined
<1> HIDE DEF u
<1>2. \A i \in DOMAIN u : ValidOperation(u, i)
  <2> SUFFICES ASSUME NEW i \in DOMAIN u PROVE ValidOperation(u, i)
    OBVIOUS
  <2>1. CASE i \in DOMAIN f
    <3>1. ValidOperation(f, i)
      BY <2>1 DEF SoundLog
    <3> QED BY <1>1, <2>1, <3>1 DEF ValidOperation
  <2>2. CASE i \in DOMAIN g
    <3>1. ValidOperation(g, i)
      BY <2>2 DEF SoundLog
    <3> QED BY <1>1, <2>2, <3>1 DEF ValidOperation
  <2> QED BY <1>1, <2>1, <2>2
<1>3. \A i \in DOMAIN u : \A j \in u[i].past :
         j \in DOMAIN u /\ Clock(j) < Clock(i) /\ u[j].past \subseteq u[i].past
  <2> SUFFICES ASSUME NEW i \in DOMAIN u, NEW j \in u[i].past
               PROVE  j \in DOMAIN u /\ Clock(j) < Clock(i) /\ u[j].past \subseteq u[i].past
    OBVIOUS
  <2>1. CASE i \in DOMAIN f
    BY <1>1, <2>1 DEF SoundLog
  <2>2. CASE i \in DOMAIN g
    BY <1>1, <2>2 DEF SoundLog
  <2> QED BY <1>1, <2>1, <2>2
<1>4. /\ DOMAIN u \subseteq Ids
      /\ \A i \in DOMAIN u : u[i].kind = "create" <=> i = RootId
      /\ DOMAIN u # {} => RootId \in DOMAIN u
      /\ \A i \in DOMAIN u : u[i].parents \subseteq u[i].past
  BY <1>1 DEF SoundLog
<1> QED BY <1>2, <1>3, <1>4 DEF u, SoundLog

(***************************************************************************)
(* A device can always extend its log: the new operation is valid and has  *)
(* all that the device holds in its past.                                  *)
(***************************************************************************)
LEMMA SoundExtension ==
    ASSUME NEW l, SoundLog(l), DOMAIN l # {}, BoundedLog(l),
           NEW m, NEW p, NEW kind, kind # "create", NEW data,
           NEW d \in Nat
    PROVE  LET id   == <<LogClock(l) + 1, d>>
               next == Insert(l, id, SignedOperation(l, m, p, kind, data))
           IN  /\ id \notin DOMAIN l
               /\ DOMAIN next = DOMAIN l \cup {id}
               /\ \A i \in DOMAIN l : next[i] = l[i]
               /\ next[id].past = DOMAIN l
               /\ next[id].author = p /\ next[id].kind = kind /\ next[id].data = data
               /\ SoundLog(next)
<1> DEFINE id == <<LogClock(l) + 1, d>>
           op == SignedOperation(l, m, p, kind, data)
           next == Insert(l, id, op)
<1>0. PICK n \in Nat : \A i \in DOMAIN l : Clock(i) <= n
  BY DEF BoundedLog
<1>1. /\ LogClock(l) \in Nat
      /\ \A i \in DOMAIN l : Clock(i) <= LogClock(l)
      /\ \E i \in Heads(l) : Clock(i) = LogClock(l)
  BY <1>0, LatestIsHead
<1>2. id \in Ids /\ Clock(id) = LogClock(l) + 1
  BY <1>1 DEF Ids, Clock
<1>3. id \notin DOMAIN l
  BY <1>1, <1>2
<1>4. /\ op.parents = Heads(l)
      /\ op.past = DOMAIN l
      /\ op.author = p /\ op.kind = kind /\ op.data = data
  BY <1>0, HeadsCoverLog DEF SignedOperation, Operation
<1>5. /\ DOMAIN next = DOMAIN l \cup {id}
      /\ \A i \in DOMAIN l : next[i] = l[i]
      /\ next[id] = op
  BY <1>3 DEF Insert
<1> HIDE DEF id, op, next
<1>6. ValidOperation(next, id)
  <2>1. next[id].kind # "create" /\ next[id].parents = Heads(l)
    BY <1>4, <1>5
  <2>2. \A h \in Heads(l) : h \in DOMAIN next /\ Clock(h) < Clock(id)
    <3> SUFFICES ASSUME NEW h \in Heads(l) PROVE h \in DOMAIN next /\ Clock(h) < Clock(id)
      OBVIOUS
    <3>1. h \in DOMAIN l
      BY DEF Heads
    <3>2. Clock(h) \in Nat
      BY <3>1 DEF SoundLog, Ids, Clock
    <3> QED BY <1>1, <1>2, <1>5, <3>1, <3>2
  <2> QED BY <1>1, <1>2, <2>1, <2>2 DEF ValidOperation
<1>7. \A i \in DOMAIN next : ValidOperation(next, i)
  <2> SUFFICES ASSUME NEW i \in DOMAIN l PROVE ValidOperation(next, i)
    BY <1>5, <1>6
  <2>1. ValidOperation(l, i)
    BY DEF SoundLog
  <2> QED BY <1>5, <2>1 DEF ValidOperation
<1>8. \A i \in DOMAIN next : \A j \in next[i].past :
         j \in DOMAIN next /\ Clock(j) < Clock(i) /\ next[j].past \subseteq next[i].past
  <2>1. ASSUME NEW i \in DOMAIN l, NEW j \in next[i].past
        PROVE  j \in DOMAIN next /\ Clock(j) < Clock(i) /\ next[j].past \subseteq next[i].past
    BY <1>5 DEF SoundLog
  <2>2. ASSUME NEW j \in next[id].past
        PROVE  j \in DOMAIN next /\ Clock(j) < Clock(id) /\ next[j].past \subseteq next[id].past
    <3>1. j \in DOMAIN l
      BY <1>4, <1>5
    <3>2. Clock(j) \in Nat
      BY <3>1 DEF SoundLog, Ids, Clock
    <3>3. l[j].past \subseteq DOMAIN l
      BY <3>1 DEF SoundLog
    <3> QED BY <1>1, <1>2, <1>4, <1>5, <3>1, <3>2, <3>3
  <2> QED BY <1>5, <2>1, <2>2
<1>9. /\ DOMAIN next \subseteq Ids
      /\ \A i \in DOMAIN next : next[i].kind = "create" <=> i = RootId
      /\ RootId \in DOMAIN next
      /\ \A i \in DOMAIN next : next[i].parents \subseteq next[i].past
  <2>1. id # RootId /\ RootId \in DOMAIN l
    BY <1>3 DEF SoundLog
  <2>2. Heads(l) \subseteq DOMAIN l
    BY DEF Heads
  <2> QED BY <1>2, <1>4, <1>5, <2>1, <2>2 DEF SoundLog
<1>10. SoundLog(next)
  BY <1>7, <1>8, <1>9 DEF SoundLog
<1> QED BY <1>3, <1>4, <1>5, <1>10 DEF id, op, next

(***************************************************************************)
(* Initial states and the two kinds of step.                               *)
(***************************************************************************)
LEMMA InitEstablishes == Init => IInv
<1> SUFFICES ASSUME Init PROVE IInv
  OBVIOUS
<1>1. /\ DOMAIN Founded = {RootId} /\ Founded[RootId] = Origin
      /\ RootId \in Ids /\ Clock(RootId) = 0
  BY DEF Founded, RootId, Ids, Clock
<1>2. /\ DOMAIN log = Peers
      /\ \A p \in Peers : p = Owner => log[p] = Founded
      /\ \A p \in Peers : p # Owner => DOMAIN log[p] = {}
  BY DEF Init
<1>3. \A p \in Peers : \A i \in DOMAIN log[p] : p = Owner /\ i = RootId /\ log[p][i] = Origin
  BY <1>1, <1>2
<1>4. /\ Origin.author = Owner /\ Origin.kind = "create"
      /\ Origin.parents = {} /\ Origin.past = {}
  BY DEF Origin, Operation
<1>5. SoundLogs
  <2> SUFFICES ASSUME NEW p \in Peers PROVE SoundLog(log[p])
    BY DEF SoundLogs
  <2>1. CASE p = Owner
    <3>1. log[p] = Founded
      BY <1>2, <2>1
    <3> QED BY <1>1, <1>4, <3>1 DEF SoundLog, ValidOperation
  <2>2. CASE p # Owner
    BY <1>2, <2>2 DEF SoundLog
  <2> QED BY <2>1, <2>2
<1>6. Agreement /\ HostsAdmit /\ AuthorsNeverFork /\ IntentsAdmitOnce
  BY <1>3, <1>4 DEF Agreement, HostsAdmit, AuthorsNeverFork, IntentsAdmitOnce, Ancestor
<1>7. AuthorsHoldTheirOwn
  BY <1>2, <1>3, <1>4, ModelAssumption DEF AuthorsHoldTheirOwn
<1>8. ClocksBounded
  <2>1. Bounded(0)
    BY <1>1, <1>3 DEF Bounded
  <2> QED BY <2>1 DEF ClocksBounded
<1> QED BY <1>2, <1>5, <1>6, <1>7, <1>8 DEF IInv

\* A local edit or an admission keeps the invariant.
LEMMA AppendPreserves ==
    ASSUME IInv, NEW p \in Peers, NEW kind, kind # "create", NEW data, Holds(p),
           kind = "admit" => data.host = p /\ Replays(log[p], data) = {},
           AppendOperation(p, kind, data)
    PROVE  IInv'
<1> USE DEF IInv
<1>1. PICK n \in Nat : Bounded(n)
  BY DEF ClocksBounded
<1>2. PICK d \in Digests(LogClock(log[p]) + 1) :
        LET id   == <<LogClock(log[p]) + 1, d>>
            next == Insert(log[p], id, SignedOperation(log[p], model[p], p, kind, data))
        IN  log' = [log EXCEPT ![p] = next]
  BY DEF AppendOperation
<1> DEFINE id   == <<LogClock(log[p]) + 1, d>>
           next == Insert(log[p], id, SignedOperation(log[p], model[p], p, kind, data))
<1>3. d \in Nat /\ d \notin DigestsAt(LogClock(log[p]) + 1)
  BY ReplicaAssumption DEF Digests, FreshDigest
<1>4. /\ SoundLog(log[p]) /\ DOMAIN log[p] # {}
      /\ \A i \in DOMAIN log[p] : Clock(i) <= n
      /\ BoundedLog(log[p])
  BY <1>1 DEF SoundLogs, Holds, Bounded, BoundedLog
<1>5. /\ id \notin DOMAIN log[p]
      /\ DOMAIN next = DOMAIN log[p] \cup {id}
      /\ \A i \in DOMAIN log[p] : next[i] = log[p][i]
      /\ next[id].past = DOMAIN log[p]
      /\ next[id].author = p /\ next[id].kind = kind /\ next[id].data = data
      /\ SoundLog(next)
  <2> HIDE DEF IInv
  <2> QED BY <1>3, <1>4, SoundExtension
<1>6. id \notin AllIds
  <2>1. id[1] = LogClock(log[p]) + 1 /\ id[2] = d
    OBVIOUS
  <2> HIDE DEF id
  <2> QED BY <1>3, <2>1 DEF DigestsAt
<1>7. LogClock(log[p]) \in Nat /\ Clock(id) = LogClock(log[p]) + 1
  BY <1>4, LatestIsHead DEF Clock
<1>8. /\ DOMAIN log' = Peers
      /\ log'[p] = next
      /\ \A q \in Peers : q # p => log'[q] = log[q]
  BY <1>2
<1> HIDE DEF id, next, IInv
<1>9. \A q \in Peers : id \notin DOMAIN log[q]
  BY <1>6 DEF AllIds
<1>10. SoundLogs'
  BY <1>5, <1>8 DEF SoundLogs, IInv
<1>11. Agreement'
  BY <1>5, <1>8, <1>9 DEF Agreement, IInv
<1>12. AuthorsHoldTheirOwn'
  BY <1>5, <1>8 DEF AuthorsHoldTheirOwn, IInv
<1>13. HostsAdmit'
  BY <1>5, <1>8 DEF HostsAdmit, IInv
<1>14. ClocksBounded'
  <2>1. PICK k \in Nat : n <= k /\ Clock(id) <= k
    BY <1>7
  <2>2. \A q \in Peers : \A i \in DOMAIN log'[q] : Clock(i) <= k
    <3> SUFFICES ASSUME NEW q \in Peers, NEW i \in DOMAIN log'[q] PROVE Clock(i) <= k
      OBVIOUS
    <3>1. CASE i = id
      BY <2>1, <3>1
    <3>2. CASE i # id
      <4>1. i \in DOMAIN log[q]
        BY <1>5, <1>8, <3>2
      <4>2. Clock(i) \in Nat /\ Clock(i) <= n
        BY <1>1, <4>1 DEF IInv, SoundLogs, SoundLog, Ids, Clock, Bounded
      <4> QED BY <2>1, <4>2
    <3> QED BY <3>1, <3>2
  <2> QED BY <2>2 DEF ClocksBounded, Bounded
<1>15. AuthorsNeverFork'
  <2> SUFFICES ASSUME NEW q \in Peers, NEW i \in DOMAIN log'[q], NEW j \in DOMAIN log'[q],
                      log'[q][i].author = log'[q][j].author
               PROVE  Ancestor(log'[q], i, j) \/ Ancestor(log'[q], j, i)
    BY DEF AuthorsNeverFork
  <2>1. CASE i \in DOMAIN log[q] /\ j \in DOMAIN log[q]
    <3>1. log'[q][i] = log[q][i] /\ log'[q][j] = log[q][j]
      BY <1>5, <1>8, <2>1
    <3> QED BY <2>1, <3>1 DEF AuthorsNeverFork, Ancestor, IInv
  <2>2. CASE q = p /\ j = id
    BY <1>5, <1>8, <2>2 DEF Ancestor
  <2>3. CASE q = p /\ i = id
    BY <1>5, <1>8, <2>3 DEF Ancestor
  <2> QED BY <1>5, <1>8, <2>1, <2>2, <2>3
<1>16. IntentsAdmitOnce'
  <2> SUFFICES ASSUME NEW q \in Peers, NEW i \in DOMAIN log'[q], NEW j \in DOMAIN log'[q],
                      log'[q][i].kind = "admit", log'[q][j].kind = "admit",
                      log'[q][i].data = log'[q][j].data
               PROVE  i = j
    BY DEF IntentsAdmitOnce
  <2>1. CASE i \in DOMAIN log[q] /\ j \in DOMAIN log[q]
    <3>1. log'[q][i] = log[q][i] /\ log'[q][j] = log[q][j]
      BY <1>5, <1>8, <2>1
    <3> QED BY <2>1, <3>1 DEF IntentsAdmitOnce, IInv
  <2>2. ASSUME kind = "admit", NEW x \in DOMAIN log[p],
               log[p][x].kind = "admit", log[p][x].data = data
        PROVE  FALSE
    BY <2>2 DEF Replays
  <2> QED BY <1>5, <1>8, <2>1, <2>2
<1> QED BY <1>8, <1>10, <1>11, <1>12, <1>13, <1>14, <1>15, <1>16 DEF IInv

\* Merging the snapshot of another device keeps the invariant.
LEMMA ReceivePreserves ==
    ASSUME IInv, NEW p \in Peers, NEW q \in Peers, Receive(p, q)
    PROVE  IInv'
<1> DEFINE merged == Joined(log[p], log[q])
<1>1. /\ DOMAIN log' = Peers
      /\ log'[p] = merged
      /\ \A r \in Peers : r # p => log'[r] = log[r]
  BY DEF Receive, IInv
<1>2. \A i \in DOMAIN log[p] : i \in DOMAIN log[q] => log[p][i] = log[q][i]
  BY DEF IInv, Agreement
<1>3. /\ DOMAIN merged = DOMAIN log[p] \cup DOMAIN log[q]
      /\ \A i \in DOMAIN log[p] : merged[i] = log[p][i]
      /\ \A i \in DOMAIN log[q] : merged[i] = log[q][i]
  BY <1>2 DEF Joined
<1>4. SoundLog(merged)
  BY <1>2, SoundUnion DEF IInv, SoundLogs
<1> HIDE DEF merged
\* Whatever a log holds now, some device held before, unchanged.
<1>5. \A r \in Peers : \A i \in DOMAIN log'[r] :
        \E s \in Peers : i \in DOMAIN log[s] /\ log[s][i] = log'[r][i]
  BY <1>1, <1>3
<1>6. \A r \in Peers : DOMAIN log[r] \subseteq DOMAIN log'[r]
  BY <1>1, <1>3
<1>7. SoundLogs'
  BY <1>1, <1>4 DEF SoundLogs, IInv
<1>8. Agreement'
  <2> SUFFICES ASSUME NEW r \in Peers, NEW s \in Peers, NEW i \in DOMAIN log'[r], i \in DOMAIN log'[s]
               PROVE  log'[r][i] = log'[s][i]
    BY DEF Agreement
  <2>1. PICK x \in Peers : i \in DOMAIN log[x] /\ log[x][i] = log'[r][i]
    BY <1>5
  <2>2. PICK y \in Peers : i \in DOMAIN log[y] /\ log[y][i] = log'[s][i]
    BY <1>5
  <2> QED BY <2>1, <2>2 DEF IInv, Agreement
<1>9. AuthorsHoldTheirOwn'
  BY <1>5, <1>6 DEF AuthorsHoldTheirOwn, IInv
<1>10. HostsAdmit'
  BY <1>5 DEF HostsAdmit, IInv
<1>11. ClocksBounded'
  BY <1>5 DEF ClocksBounded, Bounded, IInv
<1>12. AuthorsNeverFork'
  <2> SUFFICES ASSUME NEW r \in Peers, NEW i \in DOMAIN log'[r], NEW j \in DOMAIN log'[r],
                      log'[r][i].author = log'[r][j].author
               PROVE  Ancestor(log'[r], i, j) \/ Ancestor(log'[r], j, i)
    BY DEF AuthorsNeverFork
  <2> DEFINE w == log'[r][i].author
  <2>1. PICK x \in Peers : i \in DOMAIN log[x] /\ log[x][i] = log'[r][i]
    BY <1>5
  <2>2. PICK y \in Peers : j \in DOMAIN log[y] /\ log[y][j] = log'[r][j]
    BY <1>5
  <2>3. w \in Peers /\ i \in DOMAIN log[w] /\ j \in DOMAIN log[w]
    BY <2>1, <2>2 DEF IInv, AuthorsHoldTheirOwn
  <2>4. log[w][i] = log'[r][i] /\ log[w][j] = log'[r][j]
    BY <2>1, <2>2, <2>3 DEF IInv, Agreement
  <2>5. Ancestor(log[w], i, j) \/ Ancestor(log[w], j, i)
    BY <2>3, <2>4 DEF IInv, AuthorsNeverFork
  <2> QED BY <2>3, <2>4, <2>5 DEF Ancestor
<1>13. IntentsAdmitOnce'
  <2> SUFFICES ASSUME NEW r \in Peers, NEW i \in DOMAIN log'[r], NEW j \in DOMAIN log'[r],
                      log'[r][i].kind = "admit", log'[r][j].kind = "admit",
                      log'[r][i].data = log'[r][j].data
               PROVE  i = j
    BY DEF IntentsAdmitOnce
  <2>1. PICK x \in Peers : i \in DOMAIN log[x] /\ log[x][i] = log'[r][i]
    BY <1>5
  <2>2. PICK y \in Peers : j \in DOMAIN log[y] /\ log[y][j] = log'[r][j]
    BY <1>5
  <2> DEFINE host == log'[r][i].data.host
  <2>3. log[x][i].author = host /\ log[y][j].author = host
    BY <2>1, <2>2 DEF IInv, HostsAdmit
  <2>4. host \in Peers /\ i \in DOMAIN log[host] /\ j \in DOMAIN log[host]
    BY <2>1, <2>2, <2>3 DEF IInv, AuthorsHoldTheirOwn
  <2>5. log[host][i] = log'[r][i] /\ log[host][j] = log'[r][j]
    BY <2>1, <2>2, <2>4 DEF IInv, Agreement
  <2> QED BY <2>4, <2>5 DEF IInv, IntentsAdmitOnce
<1> QED BY <1>1, <1>7, <1>8, <1>9, <1>10, <1>11, <1>12, <1>13 DEF IInv

\* Model::change only appends.
LEMMA ChangePreserves ==
    ASSUME IInv, NEW p \in Peers, NEW kind, kind \notin {"create", "admit"}, NEW data,
           Change(p, kind, data)
    PROVE  IInv'
BY AppendPreserves DEF Change

\* Every step of every device keeps the invariant.
LEMMA NextPreserves == IInv /\ [Next]_vars => IInv'
<1> SUFFICES ASSUME IInv, [Next]_vars PROVE IInv'
  OBVIOUS
<1>1. ASSUME NEW p \in Peers, Edit(p) PROVE IInv'
  <2>1. \E kind \in Kinds \ {"create", "admit"} : \E data : Change(p, kind, data)
    BY <1>1 DEF Edit, Rename, SetChannel, DeleteChannel, SetProfile, SetPriority, SetAdmin,
                Remove, Kick, Unban, Leave, Delete, IssueInvite, Revoke, Kinds, Administrative
  <2> QED BY <2>1, ChangePreserves
<1>2. ASSUME NEW p \in Peers, NEW intent \in Intent, Admit(p, intent) PROVE IInv'
  <2>1. Replays(log[p], intent) = {} /\ intent.host = p
    BY <1>2 DEF Admit, AcceptsIntent
  <2> QED BY <1>2, <2>1, AppendPreserves DEF Admit
<1>3. ASSUME NEW p \in Peers, NEW q \in Peers \ {p}, Receive(p, q) PROVE IInv'
  BY <1>3, ReceivePreserves
<1>4. CASE UNCHANGED vars
  BY <1>4 DEF vars, IInv, SoundLogs, Agreement, AuthorsHoldTheirOwn, HostsAdmit,
              ClocksBounded, Bounded, AuthorsNeverFork, IntentsAdmitOnce
<1> QED BY <1>1, <1>2, <1>3, <1>4 DEF Next

\* The invariant holds in every reachable state.
LEMMA Invariance == Spec => []IInv
<1>1. Init => IInv
  BY InitEstablishes
<1>2. IInv /\ [Next]_vars => IInv'
  BY NextPreserves
<1> QED BY <1>1, <1>2, PTL DEF Spec

-----------------------------------------------------------------------------
(***************************************************************************)
(* The theorems.                                                           *)
(***************************************************************************)

\* Model::fromJson, Model::merge and Model::append never throw on the
\* structure of an honest community's log, on any device, at any time.
THEOREM NothingIsMalformedThm == Spec => []NothingIsMalformed
<1>1. IInv => NothingIsMalformed
  <2> SUFFICES ASSUME IInv PROVE NothingIsMalformed
    OBVIOUS
  <2>1. ASSUME NEW p \in Holders, NEW q \in Holders
        PROVE  ValidLog(Joined(log[p], log[q]))
    <3>1. p \in Peers /\ q \in Peers /\ DOMAIN log[p] # {}
      BY DEF Holders, Holds
    <3>2. SoundLog(Joined(log[p], log[q]))
      BY <3>1, SoundUnion DEF IInv, SoundLogs, Agreement
    <3>3. DOMAIN Joined(log[p], log[q]) # {}
      BY <3>1 DEF Joined
    <3> QED BY <3>2, <3>3, SoundIsValid
  <2>2. ASSUME NEW p \in Holders
        PROVE  ValidLog(Insert(log[p], <<LogClock(log[p]) + 1, DigestTop>>,
                               SignedOperation(log[p], model[p], p, "leave", p)))
    <3>1. p \in Peers /\ DOMAIN log[p] # {}
      BY DEF Holders, Holds
    <3>2. BoundedLog(log[p])
      BY <3>1 DEF IInv, ClocksBounded, Bounded, BoundedLog
    <3>3. SoundLog(log[p]) /\ DigestTop \in Nat
      BY <3>1, ReplicaAssumption DEF IInv, SoundLogs
    <3>4. ASSUME NEW kind, kind # "create", NEW data, NEW d \in Nat
          PROVE  ValidLog(Insert(log[p], <<LogClock(log[p]) + 1, d>>,
                                 SignedOperation(log[p], model[p], p, kind, data)))
      <4> DEFINE id == <<LogClock(log[p]) + 1, d>>
                 next == Insert(log[p], id, SignedOperation(log[p], model[p], p, kind, data))
      <4>1. /\ id \notin DOMAIN log[p]
            /\ DOMAIN next = DOMAIN log[p] \cup {id}
            /\ \A i \in DOMAIN log[p] : next[i] = log[p][i]
            /\ next[id].past = DOMAIN log[p]
            /\ next[id].author = p /\ next[id].kind = kind /\ next[id].data = data
            /\ SoundLog(next)
        BY <3>1, <3>2, <3>3, <3>4, SoundExtension
      <4> HIDE DEF next
      <4>2. ValidLog(next)
        BY <4>1, SoundIsValid
      <4> QED BY <4>2 DEF next
    <3>5. "leave" # "create"
      OBVIOUS
    <3> QED BY <3>3, <3>4, <3>5
  <2> QED BY <2>1, <2>2 DEF NothingIsMalformed
<1> QED BY <1>1, Invariance, PTL

\* Every device's operations form one causal chain: no device ever signs two
\* operations that have not seen each other.
THEOREM AuthorsNeverForkThm == Spec => []AuthorsNeverFork
<1>1. IInv => AuthorsNeverFork
  BY DEF IInv
<1> QED BY <1>1, Invariance, PTL

\* A join intent is recorded by at most one admission, in every history.
THEOREM IntentsAdmitOnceThm == Spec => []IntentsAdmitOnce
<1>1. IInv => IntentsAdmitOnce
  BY DEF IInv
<1> QED BY <1>1, Invariance, PTL

(***************************************************************************)
(* The order of rebuild and its loop, for a log of any length.             *)
(***************************************************************************)

\* A set of numbers that has a member has a least one: induction over the places of
\* the order and over the length of a sequence rests on it.
LEMMA LeastNumber ==
  ASSUME NEW T \in SUBSET Nat, T # {}
  PROVE  \E x \in T : \A y \in T : x <= y
<1> DEFINE R == OpToRel(<, Nat)
<1>1. IsWellFoundedOn(R, Nat)
  BY NatLessThanWellFounded
<1>2. R = {ss \in Nat \X Nat : ss[1] < ss[2]}
  BY DEF OpToRel
<1>3. \A x, y \in Nat : x < y => <<x, y>> \in R
  <2> TAKE x, y \in Nat
  <2> QED
    BY <1>2
<1> HIDE DEF R
<1>4. PICK x \in T : \A y \in T : ~ <<y, x>> \in R
  BY <1>1, WFMin
<1>5. \A y \in T : x <= y
  <2>1. SUFFICES ASSUME NEW y \in T PROVE x <= y
    OBVIOUS
  <2>2. ~ (y < x)
    BY <1>3, <1>4
  <2> QED
    BY <2>2
<1> QED
  BY <1>5

\* Precedes is a strict total order of the operation ids.
LEMMA PrecedesOrders ==
  /\ \A i \in Ids : ~ Precedes(i, i)
  /\ \A i, j \in Ids : i = j \/ Precedes(i, j) \/ Precedes(j, i)
  /\ \A i, j, k \in Ids : Precedes(i, j) /\ Precedes(j, k) => Precedes(i, k)
BY DEF Ids, Precedes

\* How many operations of a log come before one.
Rank(l, i) == Cardinality({j \in DOMAIN l : Precedes(j, i)})

\* The operations of a log are numbered by their ranks, in the order of rebuild.
LEMMA Ranks ==
  ASSUME NEW l, DOMAIN l \subseteq Ids, IsFiniteSet(DOMAIN l)
  PROVE  /\ Cardinality(DOMAIN l) \in Nat
         /\ \A i \in DOMAIN l : Rank(l, i) \in 0 .. (Cardinality(DOMAIN l) - 1)
         /\ \A i, j \in DOMAIN l : Precedes(i, j) => Rank(l, i) < Rank(l, j)
         /\ \A i, j \in DOMAIN l : Rank(l, i) = Rank(l, j) => i = j
         /\ \A n \in 1 .. Cardinality(DOMAIN l) : \E i \in DOMAIN l : Rank(l, i) = n - 1
<1> DEFINE D == DOMAIN l
           N == Cardinality(D)
           Below(i) == {j \in D : Precedes(j, i)}
           rank == [i \in D |-> Cardinality(Below(i))]
<1>1. N \in Nat
  BY FS_CardinalityType
<1>2. \A i \in D : IsFiniteSet(Below(i)) /\ Cardinality(Below(i)) \in 0 .. (N - 1)
  <2> SUFFICES ASSUME NEW i \in D
        PROVE  IsFiniteSet(Below(i)) /\ Cardinality(Below(i)) \in 0 .. (N - 1)
    OBVIOUS
  <2>1. Below(i) \in SUBSET (D \ {i})
    BY PrecedesOrders
  <2>2. IsFiniteSet(D \ {i}) /\ Cardinality(D \ {i}) = N - 1
    BY FS_RemoveElement
  <2>3. IsFiniteSet(Below(i)) /\ Cardinality(Below(i)) <= N - 1
    BY <2>1, <2>2, FS_Subset
  <2>4. Cardinality(Below(i)) \in Nat
    BY <2>3, FS_CardinalityType
  <2> QED
    BY <1>1, <2>3, <2>4
<1>3. \A i, j \in D : Precedes(i, j) => Cardinality(Below(i)) < Cardinality(Below(j))
  <2> SUFFICES ASSUME NEW i \in D, NEW j \in D, Precedes(i, j)
        PROVE  Cardinality(Below(i)) < Cardinality(Below(j))
    OBVIOUS
  <2>1. Below(i) \in SUBSET Below(j)
    BY PrecedesOrders
  <2>2. i \in Below(j) /\ i \notin Below(i)
    BY PrecedesOrders
  <2>3. /\ Cardinality(Below(i)) <= Cardinality(Below(j))
        /\ Cardinality(Below(j)) = Cardinality(Below(i)) => Below(j) = Below(i)
    BY <1>2, <2>1, FS_Subset
  <2>4. Cardinality(Below(i)) # Cardinality(Below(j))
    BY <2>2, <2>3
  <2>5. Cardinality(Below(i)) \in Int /\ Cardinality(Below(j)) \in Int
    <3>1. IsFiniteSet(Below(i)) /\ IsFiniteSet(Below(j))
      BY <1>2
    <3> HIDE DEF Below
    <3>2. Cardinality(Below(i)) \in Nat /\ Cardinality(Below(j)) \in Nat
      BY <3>1, FS_CardinalityType
    <3> QED
      BY <3>2
  <2> HIDE DEF Below
  <2> QED
    BY <2>3, <2>4, <2>5
<1>4. rank \in Injection(D, 0 .. (N - 1))
  <2>1. rank \in [D -> 0 .. (N - 1)]
    BY <1>2
  <2>2. \A i, j \in D : Precedes(i, j) => rank[i] < rank[j]
    BY <1>3
  <2> HIDE DEF rank
  <2>3. \A i, j \in D : rank[i] = rank[j] => i = j
    <3> SUFFICES ASSUME NEW i \in D, NEW j \in D, rank[i] = rank[j] PROVE i = j
      OBVIOUS
    <3>1. rank[i] \in Int /\ rank[j] \in Int
      BY <1>1, <2>1
    <3>2. ~ Precedes(i, j) /\ ~ Precedes(j, i)
      BY <2>2, <3>1
    <3> QED
      BY <3>2, PrecedesOrders
  <2> QED
    BY <2>1, <2>3 DEF Injection, IsInjective
<1>5. IsFiniteSet(0 .. (N - 1)) /\ Cardinality(0 .. (N - 1)) = N
  <2>1. 0 \in Int /\ N - 1 \in Int
    BY <1>1
  <2> HIDE DEF N
  <2>2. /\ IsFiniteSet(0 .. (N - 1))
        /\ Cardinality(0 .. (N - 1)) = IF 0 > N - 1 THEN 0 ELSE (N - 1) - 0 + 1
    BY <2>1, FS_Interval
  <2> QED
    BY <1>1, <2>2
<1>6. rank \in Surjection(D, 0 .. (N - 1))
  BY <1>4, <1>5, FS_Injection
<1>7. \A k \in 0 .. (N - 1) : \E i \in D : rank[i] = k
  BY <1>6 DEF Surjection
<1>8. \A n \in 1 .. N : \E i \in D : Cardinality(Below(i)) = n - 1
  <2> SUFFICES ASSUME NEW n \in 1 .. N PROVE \E i \in D : Cardinality(Below(i)) = n - 1
    OBVIOUS
  <2>1. n - 1 \in 0 .. (N - 1)
    BY <1>1
  <2>2. PICK i \in D : rank[i] = n - 1
    BY <1>7, <2>1
  <2>3. rank[i] = Cardinality(Below(i))
    OBVIOUS
  <2> QED
    BY <2>2, <2>3
<1>9. \A i \in D : Rank(l, i) = Cardinality(Below(i)) /\ rank[i] = Cardinality(Below(i))
  BY DEF Rank
<1>10. \A i, j \in D : rank[i] = rank[j] => i = j
  <2> HIDE DEF rank
  <2> QED
    BY <1>4 DEF Injection, IsInjective
<1> HIDE DEF rank, Below
<1> QED
  BY <1>1, <1>2, <1>3, <1>8, <1>9, <1>10

\* The order of rebuild lists every operation once, each after those it follows.
LEMMA OrderFacts ==
  ASSUME NEW l, DOMAIN l \subseteq Ids, IsFiniteSet(DOMAIN l)
  PROVE  /\ \A n \in 1 .. Cardinality(DOMAIN l) :
               Ordered(l)[n] \in DOMAIN l /\ Rank(l, Ordered(l)[n]) = n - 1
         /\ \A j, k \in 1 .. Cardinality(DOMAIN l) :
               j < k => Precedes(Ordered(l)[j], Ordered(l)[k])
         /\ \A i \in DOMAIN l : \E n \in 1 .. Cardinality(DOMAIN l) : Ordered(l)[n] = i
<1> DEFINE D == DOMAIN l
           N == Cardinality(D)
<1>1. \A n \in 1 .. N : Ordered(l)[n] \in D /\ Rank(l, Ordered(l)[n]) = n - 1
  <2> SUFFICES ASSUME NEW n \in 1 .. N
        PROVE  Ordered(l)[n] \in D /\ Rank(l, Ordered(l)[n]) = n - 1
    OBVIOUS
  <2>1. Ordered(l)[n] = CHOOSE i \in D : Rank(l, i) = n - 1
    BY DEF Ordered, Rank
  <2>2. \E i \in D : Rank(l, i) = n - 1
    BY Ranks
  <2> QED
    BY <2>1, <2>2
<1>2. \A j, k \in 1 .. N : j < k => Precedes(Ordered(l)[j], Ordered(l)[k])
  <2> SUFFICES ASSUME NEW j \in 1 .. N, NEW k \in 1 .. N, j < k
        PROVE  Precedes(Ordered(l)[j], Ordered(l)[k])
    OBVIOUS
  <2>1. N \in Nat
    BY Ranks
  <2>2. Rank(l, Ordered(l)[j]) < Rank(l, Ordered(l)[k])
    BY <1>1, <2>1
  <2>3. ~ (Rank(l, Ordered(l)[k]) < Rank(l, Ordered(l)[j]))
    BY <1>1, <2>1
  <2>4. ~ Precedes(Ordered(l)[k], Ordered(l)[j])
    BY <1>1, <2>3, Ranks
  <2>5. Ordered(l)[j] # Ordered(l)[k]
    BY <1>1, <2>1
  <2>6. Ordered(l)[j] \in Ids /\ Ordered(l)[k] \in Ids
    BY <1>1
  <2> QED
    BY <2>4, <2>5, <2>6, PrecedesOrders
<1>3. \A i \in D : \E n \in 1 .. N : Ordered(l)[n] = i
  <2> SUFFICES ASSUME NEW i \in D PROVE \E n \in 1 .. N : Ordered(l)[n] = i
    OBVIOUS
  <2>1. N \in Nat /\ Rank(l, i) \in 0 .. (N - 1)
    BY Ranks
  <2> DEFINE n == Rank(l, i) + 1
  <2>2. n \in 1 .. N /\ n - 1 = Rank(l, i)
    BY <2>1
  <2> HIDE DEF n
  <2>3. Ordered(l)[n] \in D /\ Rank(l, Ordered(l)[n]) = Rank(l, i)
    BY <1>1, <2>2
  <2>4. Ordered(l)[n] = i
    BY <2>3, Ranks
  <2> QED
    BY <2>2, <2>4
<1> QED
  BY <1>1, <1>2, <1>3

\* Each place of the order of rebuild holds an operation of the log.
LEMMA OrderedEnumerates ==
  ASSUME NEW l, DOMAIN l \subseteq Ids, IsFiniteSet(DOMAIN l)
  PROVE  /\ Cardinality(DOMAIN l) \in Nat
         /\ \A n \in 1 .. Cardinality(DOMAIN l) : Ordered(l)[n] \in DOMAIN l
BY Ranks, OrderFacts

\* f is what the loop makes of the first N operations, from start.
IsLoop(f, N, start, l, order) ==
    f = [n \in 0 .. N |-> IF n = 0 THEN start ELSE ApplyOperation(l, f[n - 1], order[n])]

\* There is a function that starts with a model and follows the operations.
LEMMA LoopExists ==
  ASSUME NEW N \in Nat, NEW start, NEW l, NEW order
  PROVE  \E f : IsLoop(f, N, start, l, order)
<1> DEFINE Body(f, k) == [n \in 0 .. k |->
               IF n = 0 THEN start ELSE ApplyOperation(l, f[n - 1], order[n])]
           T == {k \in Nat : ~ \E f : IsLoop(f, k, start, l, order)}
<1>0. \A f, k : IsLoop(f, k, start, l, order) <=> f = Body(f, k)
  BY DEF IsLoop
<1>1. SUFFICES T = {}
  BY <1>1
<1>2. SUFFICES ASSUME T # {} PROVE FALSE
  OBVIOUS
<1>3. PICK k \in T : \A j \in T : k <= j
  <2>1. T \in SUBSET Nat
    OBVIOUS
  <2> HIDE DEF T
  <2> QED
    BY <1>2, <2>1, LeastNumber
<1>4. k # 0
  <2>1. ASSUME k = 0 PROVE FALSE
    <3> DEFINE f == [n \in 0 .. 0 |-> start]
    <3>1. f = Body(f, 0)
      OBVIOUS
    <3> QED
      BY <1>0, <1>3, <2>1, <3>1
  <2> QED
    BY <2>1
<1>5. PICK f : f = Body(f, k - 1)
  <2>1. k - 1 \in Nat /\ ~ (k <= k - 1)
    BY <1>3, <1>4
  <2>2. k - 1 \notin T
    BY <1>3, <2>1
  <2> QED
    BY <1>0, <2>1, <2>2
<1> DEFINE g == [n \in 0 .. k |->
               IF n = k THEN ApplyOperation(l, f[k - 1], order[k]) ELSE f[n]]
<1>6. \A n \in 0 .. (k - 1) : g[n] = f[n]
  BY <1>3
<1>7. g = Body(g, k)
  <2>1. \A n \in 0 .. k : g[n] = Body(g, k)[n]
    <3> SUFFICES ASSUME NEW n \in 0 .. k PROVE g[n] = Body(g, k)[n]
      OBVIOUS
    <3>0. Body(g, k)[n] = IF n = 0 THEN start ELSE ApplyOperation(l, g[n - 1], order[n])
      OBVIOUS
    <3>1. CASE n = k
      <4>1. k - 1 \in 0 .. (k - 1)
        BY <1>3, <1>4
      <4>2. g[k - 1] = f[k - 1]
        BY <1>6, <4>1
      <4>3. g[k] = ApplyOperation(l, f[k - 1], order[k])
        BY <3>1
      <4> QED
        BY <1>4, <3>0, <3>1, <4>2, <4>3
    <3>2. CASE n # k
      <4>1. n \in 0 .. (k - 1)
        BY <1>3, <3>2
      <4>2. f[n] = IF n = 0 THEN start ELSE ApplyOperation(l, f[n - 1], order[n])
        BY <1>5, <4>1
      <4>3. n # 0 => n - 1 \in 0 .. (k - 1)
        BY <1>3, <4>1
      <4>4. g[n] = f[n] /\ (n # 0 => g[n - 1] = f[n - 1])
        BY <1>6, <4>1, <4>3
      <4> HIDE DEF g
      <4> QED
        BY <3>0, <4>2, <4>4
    <3> QED
      BY <3>1, <3>2
  <2>2. DOMAIN g = 0 .. k /\ DOMAIN Body(g, k) = 0 .. k
    OBVIOUS
  <2>3. g = [n \in 0 .. k |-> g[n]]
    OBVIOUS
  <2>4. Body(g, k) = [n \in 0 .. k |-> Body(g, k)[n]]
    OBVIOUS
  <2> HIDE DEF g, Body
  <2> QED
    BY <2>1, <2>3, <2>4
<1> QED
  BY <1>0, <1>3, <1>7

\* The loop of rebuild goes from the gathered model through one operation at a time.
LEMMA AppliedSteps ==
  ASSUME NEW l, Cardinality(DOMAIN l) \in Nat
  PROVE  /\ Applied(l)[0] = Gathered(l)
         /\ \A n \in 1 .. Cardinality(DOMAIN l) :
               Applied(l)[n] = ApplyOperation(l, Applied(l)[n - 1], Ordered(l)[n])
<1> DEFINE N == Cardinality(DOMAIN l)
           P(f) == IsLoop(f, N, Gathered(l), l, Ordered(l))
<1>1. \E f : P(f)
  BY LoopExists
<1>2. Applied(l) = CHOOSE f : P(f)
  BY DEF Applied, IsLoop
<1>3. P(Applied(l))
  <2> HIDE DEF P
  <2> QED BY <1>1, <1>2
<1> QED
  BY <1>3 DEF IsLoop

(***************************************************************************)
(* What the loop of rebuild keeps of the members and of the invites: each  *)
(* member entered by an admission that the bans and revocations of the log *)
(* allow, each invite was issued with authority.                           *)
(***************************************************************************)

\* What the operations of each kind are about.
MeantData(kind, data) ==
    /\ kind = "admit" => data \in Intent
    /\ kind = "admin" => data \in [peer : Peers, enabled : BOOLEAN]
    /\ kind = "channel" => data \in [id : Channels, name : Names]
    /\ kind \in {"create", "rename", "profile"} => data \in Names
    /\ kind \in {"invite", "revoke"} => data \in Codes
    /\ kind = "priority" => data \in Seq(Peers)

\* Every operation is one that the editing functions make.
Meant(l) ==
    \A i \in DOMAIN l :
        /\ l[i].author \in Peers /\ l[i].kind \in Kinds /\ MeantData(l[i].kind, l[i].data)
        /\ l[i].authority \in DOMAIN l \cup {NoOp}

\* An admission of a peer that follows an unban of each ban that it does not precede,
\* and that precedes every revocation of its invite.
AdmittedAfter(l, a, q) ==
    /\ a \in DOMAIN l /\ l[a].kind = "admit" /\ l[a].data.peer = q
    /\ \A b \in Bans(l, q) : Ancestor(l, a, b) \/ \E u \in ClearedBy(l, b, q) : Ancestor(l, u, a)
    /\ \A r \in Revocations(l, l[a].data.invite) : Ancestor(l, a, r)

\* A code for which the log holds an invite with the authority it needs.
InvitedUnder(l, c) ==
    \E i \in DOMAIN l : l[i].kind = "invite" /\ l[i].data = c /\ Authorized(l, i)

\* What the loop keeps of the members and the invites.
Derived(l, m) ==
    /\ DOMAIN m = DOMAIN Blank
    /\ DOMAIN m.members \subseteq Peers /\ IsFiniteSet(DOMAIN m.members)
    /\ \A q \in DOMAIN m.members \ {Owner} :
          q \in DOMAIN m.admission /\ AdmittedAfter(l, m.admission[q], q)
    /\ \A c \in m.invites : InvitedUnder(l, c)

\* What rebuild gathers before its loop has no members and no invites.
LEMMA GatheredDerived ==
  ASSUME NEW l
  PROVE  Derived(l, Gathered(l))
<1>1. DOMAIN Gathered(l) = DOMAIN Blank
  BY DEF Gathered
<1>2. Gathered(l).members = <<>> /\ Gathered(l).invites = {}
  BY DEF Gathered, Blank
<1>3. DOMAIN Gathered(l).members = {}
  BY <1>2
<1> QED
  BY <1>1, <1>2, <1>3, FS_EmptySet DEF Derived

\* ApplyCreate adds the owner only.
LEMMA CreateDerived ==
  ASSUME NEW l, NEW m, Derived(l, m), NEW i
  PROVE  Derived(l, ApplyCreate(l, m, i))
<1> DEFINE n == ApplyCreate(l, m, i)
<1>0. SUFFICES Derived(l, n)
  OBVIOUS
<1>1. DOMAIN m = DOMAIN Blank
  BY DEF Derived
<1>2. /\ DOMAIN n = DOMAIN Blank
      /\ n.members = Insert(m.members, Owner, [admin |-> TRUE, profile |-> FirstName])
      /\ n.admission = Insert(m.admission, Owner, i)
      /\ n.invites = m.invites
  BY <1>1 DEF ApplyCreate, Blank
<1> HIDE DEF n
<1>3. /\ DOMAIN n.members = DOMAIN m.members \cup {Owner}
      /\ DOMAIN n.admission = DOMAIN m.admission \cup {Owner}
      /\ \A q \in DOMAIN m.admission : q # Owner => n.admission[q] = m.admission[q]
  BY <1>2 DEF Insert
<1>4. \A q \in DOMAIN n.members \ {Owner} :
          q \in DOMAIN n.admission /\ AdmittedAfter(l, n.admission[q], q)
  BY <1>3 DEF Derived
<1>5. DOMAIN n.members \subseteq Peers /\ IsFiniteSet(DOMAIN n.members)
  <2>1. DOMAIN n.members \subseteq Peers
    BY <1>3, ModelAssumption DEF Derived
  <2> QED
    BY <1>3, <2>1, FS_AddElement DEF Derived
<1>6. \A c \in n.invites : InvitedUnder(l, c)
  BY <1>2 DEF Derived
<1> QED
  BY <1>2, <1>4, <1>5, <1>6 DEF Derived

\* ApplyAdmit adds a member only with an admission that Admissible let through.
LEMMA AdmitDerived ==
  ASSUME NEW l, Meant(l), NEW m, Derived(l, m), NEW i \in DOMAIN l, l[i].kind = "admit"
  PROVE  Derived(l, ApplyAdmit(l, m, i))
<1> DEFINE n == ApplyAdmit(l, m, i)
           p == l[i].data.peer
<1>1. SUFFICES ASSUME Admissible(l, m, i) PROVE Derived(l, n)
  BY DEF ApplyAdmit
<1>2. DOMAIN m = DOMAIN Blank
  BY DEF Derived
<1>3. /\ DOMAIN n = DOMAIN Blank
      /\ n.members = Insert(m.members, p, [admin |-> FALSE, profile |-> FirstName])
      /\ n.admission = Insert(m.admission, p, i)
      /\ n.invites = m.invites
  BY <1>1, <1>2 DEF ApplyAdmit, Blank
<1>4. p \in Peers /\ AdmittedAfter(l, i, p)
  BY <1>1 DEF Admissible, AdmittedAfter, Meant, MeantData, Intent
<1> HIDE DEF n, p
<1>5. /\ DOMAIN n.members = DOMAIN m.members \cup {p}
      /\ DOMAIN n.admission = DOMAIN m.admission \cup {p}
      /\ n.admission[p] = i
      /\ \A q \in DOMAIN m.admission : q # p => n.admission[q] = m.admission[q]
  BY <1>3 DEF Insert
<1>6. \A q \in DOMAIN n.members \ {Owner} :
          q \in DOMAIN n.admission /\ AdmittedAfter(l, n.admission[q], q)
  BY <1>4, <1>5 DEF Derived
<1>7. DOMAIN n.members \subseteq Peers
  BY <1>4, <1>5 DEF Derived
<1>8. IsFiniteSet(DOMAIN n.members)
  BY <1>5, FS_AddElement DEF Derived
<1> QED
  BY <1>3, <1>6, <1>7, <1>8 DEF Derived

\* Members may go, and of those that stay anything but the admission may change.
LEMMA FewerDerived ==
  ASSUME NEW l, NEW m, Derived(l, m), NEW n, DOMAIN n = DOMAIN Blank,
         DOMAIN n.members \subseteq DOMAIN m.members, n.admission = m.admission,
         n.invites = m.invites
  PROVE  Derived(l, n)
<1>1. IsFiniteSet(DOMAIN n.members)
  BY FS_Subset DEF Derived
<1> QED
  BY <1>1 DEF Derived

\* ApplySetting adds an invite only with the authority that the loop has checked.
LEMMA SettingDerived ==
  ASSUME NEW l, NEW m, Derived(l, m), NEW i \in DOMAIN l, Authorized(l, i)
  PROVE  Derived(l, ApplySetting(l, m, i))
<1> DEFINE n == ApplySetting(l, m, i)
<1>1. DOMAIN m = DOMAIN Blank
  BY DEF Derived
<1>2. CASE l[i].kind = "admin"
  <2>1. n = ApplyRole(l, m, i)
    BY <1>2 DEF ApplySetting
  <2>2. n = m \/ (DOMAIN n = DOMAIN Blank /\ DOMAIN n.members = DOMAIN m.members
                  /\ n.admission = m.admission /\ n.invites = m.invites)
    BY <1>1, <2>1 DEF ApplyRole, Blank
  <2> QED
    BY <2>2, FewerDerived
<1>3. CASE l[i].kind = "invite"
  <2>1. n = [m EXCEPT !.invites = m.invites \cup {l[i].data}]
    BY <1>3 DEF ApplySetting
  <2>2. /\ DOMAIN n = DOMAIN Blank /\ n.members = m.members /\ n.admission = m.admission
        /\ n.invites = m.invites \cup {l[i].data}
    BY <1>1, <2>1 DEF Blank
  <2>3. InvitedUnder(l, l[i].data)
    BY <1>3 DEF InvitedUnder
  <2> QED
    BY <2>2, <2>3 DEF Derived
<1>4. CASE l[i].kind \notin {"admin", "invite"}
  <2>1. n = m \/ (DOMAIN n = DOMAIN Blank /\ n.members = m.members
                  /\ n.admission = m.admission /\ n.invites = m.invites)
    BY <1>1, <1>4 DEF ApplySetting, Blank
  <2> QED
    BY <2>1, FewerDerived
<1> QED
  BY <1>2, <1>3, <1>4

\* The same for any operation, at any place of the loop.
LEMMA ApplyDerived ==
  ASSUME NEW l, Meant(l), NEW m, Derived(l, m), NEW i \in DOMAIN l
  PROVE  Derived(l, ApplyOperation(l, m, i))
<1> DEFINE n == ApplyOperation(l, m, i)
<1>1. DOMAIN m = DOMAIN Blank
  BY DEF Derived
<1>2. \A q : Derived(l, Expel(m, q))
  <2> SUFFICES ASSUME NEW q PROVE Derived(l, Expel(m, q))
    OBVIOUS
  <2>1. /\ DOMAIN Expel(m, q) = DOMAIN Blank
        /\ Expel(m, q).members = Without(m.members, q)
        /\ Expel(m, q).admission = m.admission /\ Expel(m, q).invites = m.invites
    BY <1>1 DEF Expel, Blank
  <2>2. DOMAIN Without(m.members, q) \subseteq DOMAIN m.members
    BY DEF Without, Restrict
  <2> QED
    BY <2>1, <2>2, FewerDerived
<1>3. Derived(l, ApplyExpulsion(l, m, i)) /\ Derived(l, ApplyLeave(l, m, i))
  BY <1>2 DEF ApplyExpulsion, ApplyLeave
<1>4. Derived(l, ApplyProfile(l, m, i))
  <2> DEFINE k == ApplyProfile(l, m, i)
  <2>1. k = m \/ (DOMAIN k = DOMAIN Blank /\ DOMAIN k.members = DOMAIN m.members
                  /\ k.admission = m.admission /\ k.invites = m.invites)
    BY <1>1 DEF ApplyProfile, Blank
  <2> QED
    BY <2>1, FewerDerived
<1>5. \/ l[i].kind = "create" /\ n = ApplyCreate(l, m, i)
      \/ l[i].kind = "admit" /\ n = ApplyAdmit(l, m, i)
      \/ n = ApplyExpulsion(l, m, i) \/ n = ApplyLeave(l, m, i)
      \/ n = ApplyProfile(l, m, i)
      \/ Authorized(l, i) /\ n = ApplySetting(l, m, i)
      \/ n = m
  BY DEF ApplyOperation
<1> QED
  BY <1>3, <1>4, <1>5, CreateDerived, AdmitDerived, SettingDerived

\* The model that the loop leaves.
LEMMA AppliedDerived ==
  ASSUME NEW l, DOMAIN l \subseteq Ids, IsFiniteSet(DOMAIN l), Meant(l)
  PROVE  Derived(l, Applied(l)[Cardinality(DOMAIN l)])
<1> DEFINE N == Cardinality(DOMAIN l)
           T == {n \in 0 .. N : ~ Derived(l, Applied(l)[n])}
<1>1. N \in Nat /\ \A n \in 1 .. N : Ordered(l)[n] \in DOMAIN l
  BY OrderedEnumerates
<1>2. /\ Applied(l)[0] = Gathered(l)
      /\ \A n \in 1 .. N : Applied(l)[n] = ApplyOperation(l, Applied(l)[n - 1], Ordered(l)[n])
  BY <1>1, AppliedSteps
<1> HIDE DEF N
<1>3. ASSUME T # {} PROVE FALSE
  <2>1. T \in SUBSET Nat
    BY <1>1
  <2>2. PICK n \in T : \A k \in T : n <= k
    <3> HIDE DEF T
    <3> QED BY <1>3, <2>1, LeastNumber
  <2>3. n # 0
    BY <1>2, GatheredDerived
  <2>4. n \in 1 .. N /\ n - 1 \in 0 .. N /\ ~ (n <= n - 1)
    BY <1>1, <2>3
  <2>5. Derived(l, Applied(l)[n - 1])
    BY <2>2, <2>4
  <2>6. Derived(l, Applied(l)[n])
    BY <1>1, <1>2, <2>4, <2>5, ApplyDerived
  <2> QED
    BY <2>2, <2>6
<1>4. N \in 0 .. N
  BY <1>1
<1> QED
  BY <1>3, <1>4 DEF N

(***************************************************************************)
(* What rebuild leaves, after the passes that follow the loop.             *)
(***************************************************************************)

\* The passes after the loop of rebuild drop members and grants and change nothing else.
LEMMA Rebuilt ==
  ASSUME NEW l, SoundLog(l), IsFiniteSet(DOMAIN l), Meant(l)
  PROVE  \E m : /\ Derived(l, m)
                /\ DOMAIN Rebuild(l) = DOMAIN Blank
                /\ Rebuild(l).members = Restrict(m.members, DOMAIN m.members \ Dropped(l, m))
                /\ Rebuild(l).grants = Restrict(m.grants, DOMAIN m.grants \ Dropped(l, m))
                /\ Rebuild(l).invites = m.invites
<1> DEFINE m == Applied(l)[Cardinality(DOMAIN l)]
<1>1. Derived(l, m)
  BY AppliedDerived DEF SoundLog
<1>2. Rebuild(l) = [m EXCEPT !.members = Restrict(m.members, DOMAIN m.members \ Dropped(l, m)),
                             !.grants = Restrict(m.grants, DOMAIN m.grants \ Dropped(l, m))]
  BY DEF Rebuild
<1>3. DOMAIN m = DOMAIN Blank
  BY <1>1 DEF Derived
<1> HIDE DEF m
<1>4. /\ DOMAIN Rebuild(l) = DOMAIN Blank
      /\ Rebuild(l).members = Restrict(m.members, DOMAIN m.members \ Dropped(l, m))
      /\ Rebuild(l).grants = Restrict(m.grants, DOMAIN m.grants \ Dropped(l, m))
      /\ Rebuild(l).invites = m.invites
  BY <1>2, <1>3 DEF Blank
<1> QED
  BY <1>1, <1>4

\* What RemovalsWin says of one member of one log.
Stands(l, a, q) ==
    /\ l[a].kind = "admit" /\ l[a].data.peer = q
    /\ \A x \in DOMAIN l : l[x].author = Owner /\ l[x].kind \in Expulsions /\ l[x].data = q =>
          x \in l[a].past
    /\ \A x \in DOMAIN l : l[x].kind = "leave" /\ l[x].author = q => x \in l[a].past
    /\ \A x \in DOMAIN l : l[x].author = Owner /\ l[x].kind = "kick" /\ l[x].data = q =>
          \E u \in l[a].past : l[u].kind = "unban" /\ l[u].data = q /\ x \in l[u].past
    /\ \A x \in DOMAIN l : l[x].author = Owner /\ l[x].kind = "revoke"
                              /\ l[x].data = l[a].data.invite => a \in l[x].past

\* Every member that rebuild leaves has an admission that stands: the checks of
\* Admissible at its place in the loop, and those of Dropped after the loop.
LEMMA MembersStand ==
  ASSUME NEW l, SoundLog(l), IsFiniteSet(DOMAIN l), Meant(l),
         NEW q \in DOMAIN Rebuild(l).members, q # Owner
  PROVE  \E a \in DOMAIN l : Stands(l, a, q)
<1>1. PICK m : /\ Derived(l, m)
               /\ Rebuild(l).members = Restrict(m.members, DOMAIN m.members \ Dropped(l, m))
  BY Rebuilt
<1>2. q \in DOMAIN m.members /\ q \notin Dropped(l, m) /\ q \in Peers
  BY <1>1 DEF Restrict, Derived
<1> DEFINE a == m.admission[q]
<1>3. AdmittedAfter(l, a, q) /\ AdmissionOf(m, q) = a
  BY <1>1, <1>2 DEF Derived, AdmissionOf
<1>4. \A x \in Removals(l, q) \cup Departures(l, q) : Ancestor(l, x, a)
  BY <1>2, <1>3 DEF Dropped
<1> HIDE DEF a
<1>5. a \in DOMAIN l /\ l[a].kind = "admit" /\ l[a].data.peer = q
  BY <1>3 DEF AdmittedAfter
<1>6. ASSUME NEW x \in DOMAIN l, l[x].author = Owner, l[x].kind \in Expulsions, l[x].data = q
      PROVE  x \in Removals(l, q) /\ x \in l[a].past
  <2>1. x \in Removals(l, q)
    BY <1>6 DEF Removals, Against, Authorized
  <2> QED
    BY <1>4, <1>5, <1>6, <2>1 DEF Ancestor, Expulsions
<1>7. ASSUME NEW x \in DOMAIN l, l[x].kind = "leave", l[x].author = q
      PROVE  x \in l[a].past
  <2>1. x \in Departures(l, q)
    BY <1>7 DEF Departures
  <2> QED
    BY <1>4, <1>5, <1>7, <2>1 DEF Ancestor
<1>8. ASSUME NEW x \in DOMAIN l, l[x].author = Owner, l[x].kind = "kick", l[x].data = q
      PROVE  \E u \in l[a].past : l[u].kind = "unban" /\ l[u].data = q /\ x \in l[u].past
  <2>1. x \in Bans(l, q)
    BY <1>8 DEF Bans, Against, Authorized
  <2>2. x \in l[a].past
    BY <1>6, <1>8 DEF Expulsions
  <2>3. ~ Ancestor(l, a, x)
    <3>1. x # a
      BY <1>5, <1>8
    <3>2. a \notin l[x].past
      <4>1. Clock(x) \in Nat /\ Clock(a) \in Nat
        BY <1>5 DEF SoundLog, Ids, Clock
      <4>2. Clock(x) < Clock(a)
        BY <1>5, <2>2 DEF SoundLog
      <4>3. a \in l[x].past => Clock(a) < Clock(x)
        BY DEF SoundLog
      <4> QED
        BY <4>1, <4>2, <4>3
    <3> QED
      BY <3>1, <3>2 DEF Ancestor
  <2>4. PICK u \in ClearedBy(l, x, q) : Ancestor(l, u, a)
    BY <1>3, <2>1, <2>3 DEF AdmittedAfter
  <2>5. u \in DOMAIN l /\ l[u].kind = "unban" /\ l[u].data = q /\ Ancestor(l, x, u)
    BY <2>4 DEF ClearedBy, Unbans, Against
  <2>6. u \in l[a].past
    BY <1>5, <2>4, <2>5 DEF Ancestor
  <2>7. x \in l[u].past
    BY <1>8, <2>5 DEF Ancestor
  <2> QED
    BY <2>5, <2>6, <2>7
<1>9. ASSUME NEW x \in DOMAIN l, l[x].author = Owner, l[x].kind = "revoke",
             l[x].data = l[a].data.invite
      PROVE  a \in l[x].past
  <2>1. x \in Revocations(l, l[a].data.invite)
    BY <1>9 DEF Revocations, Against, Authorized
  <2>2. Ancestor(l, a, x)
    BY <1>3, <2>1 DEF AdmittedAfter
  <2> QED
    BY <1>5, <1>9, <2>2 DEF Ancestor
<1>10. Stands(l, a, q)
  BY <1>5, <1>6, <1>7, <1>8, <1>9 DEF Stands
<1> QED
  BY <1>5, <1>10

\* What DemotionsWin says of one invite of one log.
LEMMA InvitesStand ==
  ASSUME NEW l, SoundLog(l), IsFiniteSet(DOMAIN l), Meant(l),
         NEW c \in Rebuild(l).invites
  PROVE  InvitedUnder(l, c)
<1>1. PICK m : Derived(l, m) /\ Rebuild(l).invites = m.invites
  BY Rebuilt
<1> QED
  BY <1>1 DEF Derived

\* An admin's authorized operation names a grant that has seen every demotion, or
\* came before it.
LEMMA GrantsOutlast ==
  ASSUME NEW l, SoundLog(l), Meant(l), NEW i \in DOMAIN l, Authorized(l, i), l[i].author # Owner
  PROVE  LET role(enabled) == {x \in DOMAIN l :
                                  /\ l[x].kind = "admin" /\ l[x].author = Owner
                                  /\ l[x].data = [peer |-> l[i].author, enabled |-> enabled]}
         IN  /\ role(TRUE) \cap l[i].past # {}
             /\ \A d \in role(FALSE) : \/ i \in l[d].past
                                       \/ \E g \in role(TRUE) : d \in l[g].past /\ g \in l[i].past
<1> DEFINE author == l[i].author
           grant == l[i].authority
           role(enabled) == {x \in DOMAIN l :
                                  /\ l[x].kind = "admin" /\ l[x].author = Owner
                                  /\ l[x].data = [peer |-> author, enabled |-> enabled]}
<1>1. /\ grant \in RolesOf(l, author) /\ l[grant].data.enabled /\ Ancestor(l, grant, i)
      /\ \A r \in RolesOf(l, author) \ {grant} : Ancestor(l, r, grant) \/ Ancestor(l, i, r)
  BY DEF Authorized
<1>2. grant \in DOMAIN l /\ l[grant].kind = "admin" /\ l[grant].author = Owner
      /\ l[grant].data.peer = author
  BY <1>1 DEF RolesOf, Roles
<1>3. l[grant].data \in [peer : Peers, enabled : BOOLEAN]
  BY <1>2 DEF Meant, MeantData
<1>4. l[grant].data = [peer |-> author, enabled |-> TRUE]
  BY <1>1, <1>2, <1>3
<1>5. grant \in l[i].past
  BY <1>1, <1>2 DEF Ancestor
<1>6. ASSUME NEW d \in role(FALSE)
      PROVE  i \in l[d].past \/ \E g \in role(TRUE) : d \in l[g].past /\ g \in l[i].past
  <2>1. /\ d \in DOMAIN l /\ l[d].kind = "admin" /\ l[d].author = Owner
        /\ l[d].data.peer = author /\ l[d].data.enabled = FALSE
    BY <1>6
  <2>2. d \in RolesOf(l, author) \ {grant}
    BY <1>4, <2>1 DEF RolesOf, Roles
  <2>3. grant \in role(TRUE)
    BY <1>2, <1>4
  <2>4. CASE Ancestor(l, d, grant)
    <3>1. d \in l[grant].past
      BY <2>2, <2>4 DEF Ancestor
    <3> QED
      BY <1>5, <2>3, <3>1
  <2>5. CASE Ancestor(l, i, d)
    <3>1. i \in l[d].past
      BY <2>1, <2>5 DEF Ancestor
    <3> QED
      BY <3>1
  <2> QED
    BY <1>1, <2>2, <2>4, <2>5
<1>7. grant \in role(TRUE)
  BY <1>2, <1>4
<1> QED
  BY <1>5, <1>6, <1>7

(***************************************************************************)
(* The types of the derived model.                                         *)
(***************************************************************************)

\* The loop of KeptOf, up to its k-th place.
IsKeptTo(f, k, order, S) ==
    f = [n \in 0 .. k |->
            IF n = 0 THEN <<>>
            ELSE IF order[n] \in S \ Range(f[n - 1]) THEN Append(f[n - 1], order[n])
            ELSE f[n - 1]]

\* There is a function that follows the loop of KeptOf, and its values are sequences of
\* the peers of the order.
LEMMA KeptExists ==
  ASSUME NEW P, NEW order \in Seq(P), NEW S
  PROVE  \E f : IsKeptTo(f, Len(order), order, S) /\ \A n \in 0 .. Len(order) : f[n] \in Seq(P)
<1> DEFINE Step(s, n) == IF order[n] \in S \ Range(s) THEN Append(s, order[n]) ELSE s
           Body(f, k) == [n \in 0 .. k |-> IF n = 0 THEN <<>> ELSE Step(f[n - 1], n)]
           Good(k) == \E f : f = Body(f, k) /\ \A n \in 0 .. k : f[n] \in Seq(P)
           T == {k \in 0 .. Len(order) : ~ Good(k)}
<1>0. Len(order) \in Nat
  OBVIOUS
<1>1. \A f, k : IsKeptTo(f, k, order, S) <=> f = Body(f, k)
  BY DEF IsKeptTo
<1>2. ASSUME T # {} PROVE FALSE
  <2>1. PICK k \in T : \A j \in T : k <= j
    <3>1. T \in SUBSET Nat
      OBVIOUS
    <3> HIDE DEF T
    <3> QED
      BY <1>2, <3>1, LeastNumber
  <2>2. k # 0
    <3>1. ASSUME k = 0 PROVE FALSE
      <4> DEFINE f == [n \in 0 .. 0 |-> <<>>]
      <4>1. f = Body(f, 0)
        OBVIOUS
      <4>2. \A n \in 0 .. 0 : f[n] \in Seq(P)
        OBVIOUS
      <4> HIDE DEF f, Body
      <4> QED
        BY <2>1, <3>1, <4>1, <4>2
    <3> QED
      BY <3>1
  <2>3. k \in 1 .. Len(order) /\ k - 1 \in 0 .. Len(order) /\ ~ (k <= k - 1)
    BY <1>0, <2>1, <2>2
  <2>4. PICK f : f = Body(f, k - 1) /\ \A n \in 0 .. (k - 1) : f[n] \in Seq(P)
    <3>1. k - 1 \notin T
      BY <2>1, <2>3
    <3> HIDE DEF Body
    <3> QED
      BY <2>3, <3>1
  <2> DEFINE g == [n \in 0 .. k |-> IF n = k THEN Step(f[k - 1], k) ELSE f[n]]
  <2>5. \A n \in 0 .. (k - 1) : g[n] = f[n]
    BY <2>3
  <2>6. g[k] = Step(f[k - 1], k)
    BY <2>3
  <2>7. \A n \in 0 .. k : g[n] = IF n = 0 THEN <<>> ELSE Step(g[n - 1], n)
    <3> SUFFICES ASSUME NEW n \in 0 .. k
          PROVE  g[n] = IF n = 0 THEN <<>> ELSE Step(g[n - 1], n)
      OBVIOUS
    <3>1. CASE n = k
      <4>1. g[k - 1] = f[k - 1]
        BY <2>3, <2>5
      <4> HIDE DEF g, Step
      <4> QED
        BY <2>2, <2>6, <3>1, <4>1
    <3>2. CASE n # k
      <4>1. n \in 0 .. (k - 1) /\ (n # 0 => n - 1 \in 0 .. (k - 1))
        BY <2>3, <3>2
      <4>2. f[n] = IF n = 0 THEN <<>> ELSE Step(f[n - 1], n)
        <5> HIDE DEF Step
        <5> QED BY <2>4, <4>1
      <4>3. g[n] = f[n] /\ (n # 0 => g[n - 1] = f[n - 1])
        BY <2>5, <4>1
      <4> HIDE DEF g, Step
      <4> QED
        BY <4>2, <4>3
    <3> QED
      BY <3>1, <3>2
  <2>8. g = Body(g, k)
    <3>1. g = [n \in 0 .. k |-> g[n]]
      OBVIOUS
    <3> HIDE DEF g, Step
    <3> QED
      BY <2>7, <3>1
  <2>9. \A n \in 0 .. k : g[n] \in Seq(P)
    <3>1. order[k] \in P /\ f[k - 1] \in Seq(P)
      BY <2>3, <2>4
    <3>2. g[k] \in Seq(P)
      BY <2>6, <3>1
    <3>3. \A n \in 0 .. k : n # k => n \in 0 .. (k - 1)
      BY <2>3
    <3> HIDE DEF g
    <3> QED
      BY <2>4, <2>5, <3>2, <3>3
  <2> HIDE DEF g, Body
  <2> QED
    BY <2>1, <2>8, <2>9
<1>3. Len(order) \in 0 .. Len(order)
  BY <1>0
<1>4. Good(Len(order))
  <2> HIDE DEF Good
  <2> QED
    BY <1>2, <1>3
<1> HIDE DEF Body
<1> QED
  BY <1>1, <1>4

\* The loop of KeptOf, step by step: it has one result, so it is what CHOOSE finds.
LEMMA KeptSteps ==
  ASSUME NEW P, NEW order \in Seq(P), NEW S
  PROVE  \E kept :
            /\ KeptOf(order, S) = kept[Len(order)] /\ kept[0] = <<>>
            /\ \A n \in 1 .. Len(order) :
                  kept[n] = IF order[n] \in S \ Range(kept[n - 1]) THEN Append(kept[n - 1], order[n])
                            ELSE kept[n - 1]
<1> DEFINE N == Len(order)
           Is(f) == IsKeptTo(f, N, order, S)
           kept == CHOOSE f : Is(f)
<1>0. N \in Nat
  OBVIOUS
<1>1. Is(kept)
  <2>1. \E f : Is(f)
    BY KeptExists
  <2> HIDE DEF Is
  <2> QED BY <2>1
<1>2. KeptOf(order, S) = kept[N]
  BY DEF KeptOf, IsKeptTo
<1>3. /\ kept[0] = <<>>
      /\ \A n \in 1 .. N : kept[n] = IF order[n] \in S \ Range(kept[n - 1]) THEN Append(kept[n - 1], order[n])
                                     ELSE kept[n - 1]
  <2> HIDE DEF kept
  <2>1. kept = [n \in 0 .. N |->
                  IF n = 0 THEN <<>>
                  ELSE IF order[n] \in S \ Range(kept[n - 1]) THEN Append(kept[n - 1], order[n])
                  ELSE kept[n - 1]]
    BY <1>1 DEF IsKeptTo
  <2>2. 0 \in 0 .. N /\ \A n \in 1 .. N : n \in 0 .. N /\ n # 0
    BY <1>0
  <2> HIDE DEF N
  <2> QED BY <2>1, <2>2
<1> HIDE DEF kept
<1> QED
  BY <1>2, <1>3

\* What KeptOf keeps are peers of the list.
LEMMA KeptAreMembers ==
  ASSUME NEW P, NEW order \in Seq(P), NEW S
  PROVE  KeptOf(order, S) \in Seq(P)
<1> DEFINE N == Len(order)
<1>0. N \in Nat
  OBVIOUS
<1>1. PICK kept :
        /\ KeptOf(order, S) = kept[N] /\ kept[0] = <<>>
        /\ \A n \in 1 .. N :
              kept[n] = IF order[n] \in S \ Range(kept[n - 1]) THEN Append(kept[n - 1], order[n])
                        ELSE kept[n - 1]
  BY KeptSteps
<1>2. KeptOf(order, S) = kept[N]
  BY <1>1
<1>3. /\ kept[0] = <<>>
      /\ \A n \in 1 .. N : kept[n] = IF order[n] \in S \ Range(kept[n - 1]) THEN Append(kept[n - 1], order[n])
                                     ELSE kept[n - 1]
  BY <1>1
<1> DEFINE T == {n \in 0 .. N : kept[n] \notin Seq(P)}
<1>4. ASSUME T # {} PROVE FALSE
  <2>1. PICK k \in T : \A j \in T : k <= j
    <3>1. T \in SUBSET Nat
      OBVIOUS
    <3> HIDE DEF T
    <3> QED
      BY <1>4, <3>1, LeastNumber
  <2>2. k # 0
    <3>1. <<>> \in Seq(P)
      OBVIOUS
    <3> QED
      BY <1>3, <2>1, <3>1
  <2>3. k \in 1 .. N /\ k - 1 \in 0 .. N /\ ~ (k <= k - 1)
    BY <1>0, <2>1, <2>2
  <2>4. kept[k - 1] \in Seq(P) /\ order[k] \in P
    BY <2>1, <2>3
  <2>5. kept[k] = Append(kept[k - 1], order[k]) \/ kept[k] = kept[k - 1]
    BY <1>3, <2>3
  <2>6. Append(kept[k - 1], order[k]) \in Seq(P)
    BY <2>4
  <2>7. kept[k] \in Seq(P)
    BY <2>4, <2>5, <2>6
  <2> QED
    BY <2>1, <2>7
<1>5. N \in 0 .. N
  BY <1>0
<1> QED
  BY <1>2, <1>4, <1>5

\* Members and grants: a grant of the log is at hand for exactly the admins.
RolesFit(l, members, grants) ==
    /\ DOMAIN members \subseteq Peers
    /\ members \in [DOMAIN members -> [admin : BOOLEAN, profile : Names]]
    /\ DOMAIN grants = {q \in DOMAIN members \ {Owner} : members[q].admin}
    /\ \A q \in DOMAIN grants : grants[q] \in DOMAIN l

\* The rest of a model.
SettingsFit(m) ==
    /\ m.deleted \in BOOLEAN /\ m.name \in Names
    /\ DOMAIN m.channels \subseteq Channels /\ m.channels \in [DOMAIN m.channels -> Names]
    /\ m.priority \in Seq(Peers)
    /\ m.revoked \subseteq Codes /\ m.invites \subseteq Codes
    /\ m.banned \subseteq Peers \ {Owner}

\* A model that is made of peers, codes, channels and names.
Fits(l, m) ==
    /\ DOMAIN m = DOMAIN Blank /\ RolesFit(l, m.members, m.grants) /\ SettingsFit(m)

\* A new member has no grant, and the owner needs none.
LEMMA RolesInsert ==
  ASSUME NEW l, NEW members, NEW grants, RolesFit(l, members, grants),
         NEW q \in Peers, NEW r \in [admin : BOOLEAN, profile : Names],
         q = Owner \/ (q \notin DOMAIN members /\ r.admin = FALSE)
  PROVE  RolesFit(l, Insert(members, q, r), grants)
<1> DEFINE new == Insert(members, q, r)
<1>1. /\ DOMAIN new = DOMAIN members \cup {q} /\ new[q] = r
      /\ \A z \in DOMAIN members : z # q => new[z] = members[z]
      /\ new = [z \in DOMAIN new |-> new[z]]
  BY DEF Insert
<1> HIDE DEF new
<1>2. \A z \in DOMAIN new : new[z] \in [admin : BOOLEAN, profile : Names]
  BY <1>1 DEF RolesFit
<1>3. new \in [DOMAIN new -> [admin : BOOLEAN, profile : Names]]
  BY <1>1, <1>2
<1>4. DOMAIN grants = {z \in DOMAIN new \ {Owner} : new[z].admin}
  BY <1>1 DEF RolesFit
<1>5. DOMAIN new \subseteq Peers
  BY <1>1 DEF RolesFit
<1> QED
  BY <1>3, <1>4, <1>5 DEF RolesFit, new

\* Members leave with their grants.
LEMMA RolesRestrict ==
  ASSUME NEW l, NEW members, NEW grants, RolesFit(l, members, grants), NEW S
  PROVE  RolesFit(l, Restrict(members, DOMAIN members \ S), Restrict(grants, DOMAIN grants \ S))
<1> DEFINE M == Restrict(members, DOMAIN members \ S)
           G == Restrict(grants, DOMAIN grants \ S)
<1>1. /\ DOMAIN M = DOMAIN members \ S /\ \A z \in DOMAIN M : M[z] = members[z]
      /\ M = [z \in DOMAIN M |-> M[z]]
      /\ DOMAIN G = DOMAIN grants \ S /\ \A z \in DOMAIN G : G[z] = grants[z]
  BY DEF Restrict
<1> HIDE DEF M, G
<1>2. M \in [DOMAIN M -> [admin : BOOLEAN, profile : Names]]
  BY <1>1 DEF RolesFit
<1>3. DOMAIN G = {z \in DOMAIN M \ {Owner} : M[z].admin}
  BY <1>1 DEF RolesFit
<1>4. \A z \in DOMAIN G : G[z] \in DOMAIN l
  BY <1>1 DEF RolesFit
<1>5. DOMAIN M \subseteq Peers
  BY <1>1 DEF RolesFit
<1> QED
  BY <1>2, <1>3, <1>4, <1>5 DEF RolesFit, M, G

\* The owner's role assignment and the grant at hand change together.
LEMMA RolesAssign ==
  ASSUME NEW l, NEW members, NEW grants, RolesFit(l, members, grants),
         NEW q \in DOMAIN members \ {Owner}, NEW e \in BOOLEAN, NEW i \in DOMAIN l
  PROVE  RolesFit(l, [members EXCEPT ![q].admin = e],
                  IF e THEN Insert(grants, q, i) ELSE Without(grants, q))
<1> DEFINE M == [members EXCEPT ![q].admin = e]
           G == IF e THEN Insert(grants, q, i) ELSE Without(grants, q)
<1>1. /\ DOMAIN M = DOMAIN members
      /\ M[q] = [members[q] EXCEPT !.admin = e]
      /\ \A z \in DOMAIN M : z # q => M[z] = members[z]
      /\ M = [z \in DOMAIN M |-> M[z]]
  OBVIOUS
<1>2. M[q] \in [admin : BOOLEAN, profile : Names] /\ M[q].admin = e
  BY <1>1 DEF RolesFit
<1>3. DOMAIN G = (DOMAIN grants \ {q}) \cup (IF e THEN {q} ELSE {})
  BY DEF Insert, Without, Restrict
<1>4. \A z \in DOMAIN G : G[z] = IF e /\ z = q THEN i ELSE grants[z]
  BY DEF Insert, Without, Restrict
<1> HIDE DEF M, G
<1>5. M \in [DOMAIN M -> [admin : BOOLEAN, profile : Names]]
  BY <1>1, <1>2 DEF RolesFit
<1>6. DOMAIN G = {z \in DOMAIN M \ {Owner} : M[z].admin}
  <2>1. \A z : z # q => (z \in DOMAIN G <=> z \in DOMAIN M \ {Owner} /\ M[z].admin)
    BY <1>1, <1>3 DEF RolesFit
  <2>2. q \in DOMAIN G <=> q \in DOMAIN M \ {Owner} /\ M[q].admin
    BY <1>1, <1>2, <1>3 DEF RolesFit
  <2> QED
    BY <2>1, <2>2
<1>7. \A z \in DOMAIN G : G[z] \in DOMAIN l
  BY <1>3, <1>4 DEF RolesFit
<1> QED
  BY <1>1, <1>5, <1>6, <1>7 DEF RolesFit, M, G

\* A profile changes no role.
LEMMA RolesProfile ==
  ASSUME NEW l, NEW members, NEW grants, RolesFit(l, members, grants),
         NEW q \in DOMAIN members, NEW n \in Names
  PROVE  RolesFit(l, [members EXCEPT ![q].profile = n], grants)
<1> DEFINE M == [members EXCEPT ![q].profile = n]
<1>1. /\ DOMAIN M = DOMAIN members
      /\ M[q] = [members[q] EXCEPT !.profile = n]
      /\ \A z \in DOMAIN M : z # q => M[z] = members[z]
      /\ M = [z \in DOMAIN M |-> M[z]]
  OBVIOUS
<1>2. M[q] \in [admin : BOOLEAN, profile : Names] /\ M[q].admin = members[q].admin
  BY <1>1 DEF RolesFit
<1> HIDE DEF M
<1>3. M \in [DOMAIN M -> [admin : BOOLEAN, profile : Names]]
  BY <1>1, <1>2 DEF RolesFit
<1>4. DOMAIN grants = {z \in DOMAIN M \ {Owner} : M[z].admin}
  BY <1>1, <1>2 DEF RolesFit
<1> QED
  BY <1>1, <1>3, <1>4 DEF RolesFit, M

\* What rebuild gathers before its loop fits: the owner is never banned.
LEMMA GatheredFits ==
  ASSUME NEW l
  PROVE  Fits(l, Gathered(l))
<1> DEFINE g == Gathered(l)
<1>1. /\ DOMAIN g = DOMAIN Blank
      /\ g.deleted = (\E i \in DOMAIN l : l[i].kind = "delete" /\ l[i].author = Owner)
      /\ g.name = FirstName /\ g.members = <<>> /\ g.channels = <<>> /\ g.priority = <<>>
      /\ g.revoked = {c \in Codes : Revocations(l, c) # {}} /\ g.invites = {}
      /\ g.banned = Banned(l) /\ g.grants = <<>>
  BY DEF Gathered, Blank
<1> HIDE DEF g
<1>2. g.deleted \in BOOLEAN
  BY <1>1
<1>3. g.name \in Names
  BY <1>1, ModelAssumption DEF FirstName
<1>4. DOMAIN g.members = {} /\ DOMAIN g.channels = {} /\ DOMAIN g.grants = {}
  BY <1>1
<1>5. g.members \in [{} -> [admin : BOOLEAN, profile : Names]] /\ g.channels \in [{} -> Names]
  BY <1>1
<1>6. g.priority \in Seq(Peers)
  BY <1>1
<1>7. g.banned \subseteq Peers \ {Owner}
  <2>1. Bans(l, Owner) = {}
    BY DEF Bans
  <2> QED
    BY <1>1, <2>1 DEF Banned
<1>8. RolesFit(l, g.members, g.grants)
  BY <1>4, <1>5 DEF RolesFit
<1>9. g.revoked \subseteq Codes /\ g.invites \subseteq Codes
  BY <1>1
<1>10. SettingsFit(g)
  BY <1>2, <1>3, <1>4, <1>5, <1>6, <1>7, <1>9 DEF SettingsFit
<1> QED
  BY <1>1, <1>8, <1>10 DEF Fits, g

\* Model::create's operation keeps the model fit.
LEMMA CreateFits ==
  ASSUME NEW l, Meant(l), NEW m, Fits(l, m), NEW i \in DOMAIN l, l[i].kind = "create"
  PROVE  Fits(l, ApplyCreate(l, m, i))
<1> DEFINE n == ApplyCreate(l, m, i)
           r == [admin |-> TRUE, profile |-> FirstName]
<1>1. DOMAIN m = DOMAIN Blank
  BY DEF Fits
<1>2. /\ DOMAIN n = DOMAIN Blank /\ n.name = l[i].data /\ n.grants = m.grants
      /\ n.members = Insert(m.members, Owner, r)
      /\ n.channels = Insert(m.channels, Lobby, FirstName)
      /\ n.deleted = m.deleted /\ n.priority = m.priority /\ n.revoked = m.revoked
      /\ n.invites = m.invites /\ n.banned = m.banned
  BY <1>1 DEF ApplyCreate, Blank
<1> HIDE DEF n
<1>3. FirstName \in Names /\ Owner \in Peers /\ Lobby \in Channels
  BY ModelAssumption DEF FirstName
<1>4. r \in [admin : BOOLEAN, profile : Names]
  BY <1>3
<1>5. l[i].data \in Names
  BY DEF Meant, MeantData
<1>6. RolesFit(l, n.members, n.grants)
  <2> HIDE DEF r
  <2>1. RolesFit(l, m.members, m.grants)
    BY DEF Fits
  <2>2. RolesFit(l, Insert(m.members, Owner, r), m.grants)
    BY <1>3, <1>4, <2>1, RolesInsert
  <2> QED
    BY <1>2, <2>2
<1>7. /\ DOMAIN n.channels = DOMAIN m.channels \cup {Lobby}
      /\ \A z \in DOMAIN n.channels : n.channels[z] = IF z = Lobby THEN FirstName ELSE m.channels[z]
      /\ n.channels = [z \in DOMAIN n.channels |-> n.channels[z]]
  BY <1>2 DEF Insert
<1>8. SettingsFit(n)
  <2>1. DOMAIN n.channels \subseteq Channels
    BY <1>3, <1>7 DEF Fits, SettingsFit
  <2>2. \A z \in DOMAIN n.channels : n.channels[z] \in Names
    BY <1>3, <1>7 DEF Fits, SettingsFit
  <2>3. n.channels \in [DOMAIN n.channels -> Names]
    BY <1>7, <2>2
  <2> QED
    BY <1>2, <1>5, <2>1, <2>3 DEF Fits, SettingsFit
<1> QED
  BY <1>2, <1>6, <1>8 DEF Fits, n

\* An admission keeps the model fit.
LEMMA AdmitFits ==
  ASSUME NEW l, Meant(l), NEW m, Fits(l, m), NEW i \in DOMAIN l, l[i].kind = "admit"
  PROVE  Fits(l, ApplyAdmit(l, m, i))
<1> DEFINE n == ApplyAdmit(l, m, i)
           p == l[i].data.peer
           r == [admin |-> FALSE, profile |-> FirstName]
<1>1. SUFFICES ASSUME Admissible(l, m, i) PROVE Fits(l, n)
  BY DEF ApplyAdmit
<1>2. DOMAIN m = DOMAIN Blank
  BY DEF Fits
<1>3. /\ DOMAIN n = DOMAIN Blank /\ n.name = m.name /\ n.grants = m.grants
      /\ n.members = Insert(m.members, p, r) /\ n.channels = m.channels
      /\ n.deleted = m.deleted /\ n.priority = m.priority /\ n.revoked = m.revoked
      /\ n.invites = m.invites /\ n.banned = m.banned
  BY <1>1, <1>2 DEF ApplyAdmit, Blank
<1>4. p \in Peers /\ p \notin DOMAIN m.members
  BY <1>1 DEF Admissible, Meant, MeantData, Intent
<1>5. r \in [admin : BOOLEAN, profile : Names] /\ r.admin = FALSE
  BY ModelAssumption DEF FirstName
<1> HIDE DEF n, p, r
<1>6. RolesFit(l, n.members, n.grants)
  <2>1. RolesFit(l, m.members, m.grants)
    BY DEF Fits
  <2>2. RolesFit(l, Insert(m.members, p, r), m.grants)
    BY <1>4, <1>5, <2>1, RolesInsert
  <2> QED
    BY <1>3, <2>2
<1>7. SettingsFit(n)
  BY <1>3 DEF Fits, SettingsFit
<1> QED
  BY <1>3, <1>6, <1>7 DEF Fits

\* Expelling keeps the model fit: the grant goes with the member.
LEMMA ExpelFits ==
  ASSUME NEW l, NEW m, Fits(l, m), NEW q
  PROVE  Fits(l, Expel(m, q))
<1> DEFINE n == Expel(m, q)
<1>1. DOMAIN m = DOMAIN Blank
  BY DEF Fits
<1>2. /\ DOMAIN n = DOMAIN Blank /\ n.name = m.name
      /\ n.members = Restrict(m.members, DOMAIN m.members \ {q})
      /\ n.grants = Restrict(m.grants, DOMAIN m.grants \ {q})
      /\ n.deleted = m.deleted /\ n.priority = m.priority /\ n.revoked = m.revoked
      /\ n.channels = m.channels /\ n.invites = m.invites /\ n.banned = m.banned
  BY <1>1 DEF Expel, Without, Blank
<1> HIDE DEF n
<1>3. RolesFit(l, n.members, n.grants)
  <2>1. RolesFit(l, m.members, m.grants)
    BY DEF Fits
  <2>2. RolesFit(l, Restrict(m.members, DOMAIN m.members \ {q}),
                 Restrict(m.grants, DOMAIN m.grants \ {q}))
    BY <2>1, RolesRestrict
  <2> QED
    BY <1>2, <2>2
<1>4. SettingsFit(n)
  BY <1>2 DEF Fits, SettingsFit
<1> QED
  BY <1>2, <1>3, <1>4 DEF Fits, n

\* A profile keeps the model fit.
LEMMA ProfileFits ==
  ASSUME NEW l, Meant(l), NEW m, Fits(l, m), NEW i \in DOMAIN l, l[i].kind = "profile"
  PROVE  Fits(l, ApplyProfile(l, m, i))
<1> DEFINE n == ApplyProfile(l, m, i)
           p == l[i].author
<1>1. SUFFICES ASSUME p \in DOMAIN m.members, CouldAct(l, m, p, i) PROVE Fits(l, n)
  BY DEF ApplyProfile
<1>2. DOMAIN m = DOMAIN Blank
  BY DEF Fits
<1>3. n = [m EXCEPT !.members[p].profile = l[i].data]
  BY <1>1 DEF ApplyProfile
<1> HIDE DEF n
<1>4. /\ DOMAIN n = DOMAIN Blank /\ n.name = m.name /\ n.grants = m.grants
      /\ n.members = [m.members EXCEPT ![p].profile = l[i].data]
      /\ n.deleted = m.deleted /\ n.priority = m.priority /\ n.revoked = m.revoked
      /\ n.channels = m.channels /\ n.invites = m.invites /\ n.banned = m.banned
  BY <1>2, <1>3 DEF Blank
<1>5. l[i].data \in Names
  BY DEF Meant, MeantData
<1>6. RolesFit(l, n.members, n.grants)
  BY <1>1, <1>4, <1>5, RolesProfile DEF Fits
<1>7. SettingsFit(n)
  BY <1>4 DEF Fits, SettingsFit
<1> QED
  BY <1>4, <1>6, <1>7 DEF Fits, n

\* A role assignment keeps the model fit.
LEMMA RoleFits ==
  ASSUME NEW l, Meant(l), NEW m, Fits(l, m), NEW i \in DOMAIN l, l[i].kind = "admin"
  PROVE  Fits(l, ApplyRole(l, m, i))
<1> DEFINE n == ApplyRole(l, m, i)
           p == l[i].data.peer
           e == l[i].data.enabled
<1>1. SUFFICES ASSUME l[i].author = Owner, p \in DOMAIN m.members \ {Owner} PROVE Fits(l, n)
  BY DEF ApplyRole
<1>2. DOMAIN m = DOMAIN Blank
  BY DEF Fits
<1>3. n = [m EXCEPT !.members[p].admin = e,
                    !.grants = IF e THEN Insert(m.grants, p, i) ELSE Without(m.grants, p)]
  BY <1>1 DEF ApplyRole
<1>4. e \in BOOLEAN
  BY DEF Meant, MeantData
<1> HIDE DEF n, e, p
<1>5. /\ DOMAIN n = DOMAIN Blank /\ n.name = m.name
      /\ n.grants = (IF e THEN Insert(m.grants, p, i) ELSE Without(m.grants, p))
      /\ n.members = [m.members EXCEPT ![p].admin = e]
      /\ n.deleted = m.deleted /\ n.priority = m.priority /\ n.revoked = m.revoked
      /\ n.channels = m.channels /\ n.invites = m.invites /\ n.banned = m.banned
  BY <1>2, <1>3 DEF Blank
<1>6. RolesFit(l, n.members, n.grants)
  BY <1>1, <1>4, <1>5, RolesAssign DEF Fits
<1>7. SettingsFit(n)
  BY <1>5 DEF Fits, SettingsFit
<1> QED
  BY <1>5, <1>6, <1>7 DEF Fits, n

\* Inserting and removing keep the channels a map of names.
LEMMA ChannelsFit ==
  ASSUME NEW channels, DOMAIN channels \subseteq Channels, channels \in [DOMAIN channels -> Names]
  PROVE  /\ \A c \in Channels, x \in Names :
               /\ DOMAIN Insert(channels, c, x) \subseteq Channels
               /\ Insert(channels, c, x) \in [DOMAIN Insert(channels, c, x) -> Names]
         /\ \A c : /\ DOMAIN Without(channels, c) \subseteq Channels
                   /\ Without(channels, c) \in [DOMAIN Without(channels, c) -> Names]
BY DEF Insert, Without, Restrict

\* A setting leaves the members and the grants alone.
LEMMA SettingFits ==
  ASSUME NEW l, Meant(l), NEW m, Fits(l, m), NEW i \in DOMAIN l
  PROVE  Fits(l, ApplySetting(l, m, i))
<1> DEFINE n == ApplySetting(l, m, i)
           kind == l[i].kind
           data == l[i].data
<1>1. CASE kind = "admin"
  BY <1>1, RoleFits DEF ApplySetting
<1>2. ASSUME kind # "admin" PROVE Fits(l, n)
  <2>1. DOMAIN m = DOMAIN Blank
    BY DEF Fits
  <2>2. n \in {m, [m EXCEPT !.name = data],
                  [m EXCEPT !.channels = Insert(m.channels, data.id, data.name)],
                  [m EXCEPT !.channels = Without(m.channels, data)],
                  [m EXCEPT !.invites = m.invites \cup {data}],
                  [m EXCEPT !.priority = KeptOf(data, DOMAIN m.members)]}
    BY <1>2 DEF ApplySetting
  <2>3. n = m \/ /\ kind = "rename" /\ n = [m EXCEPT !.name = data]
        \/ /\ kind = "channel" /\ n = [m EXCEPT !.channels = Insert(m.channels, data.id, data.name)]
        \/ /\ kind = "delete-channel" /\ n = [m EXCEPT !.channels = Without(m.channels, data)]
        \/ /\ kind = "invite" /\ n = [m EXCEPT !.invites = m.invites \cup {data}]
        \/ /\ kind = "priority" /\ n = [m EXCEPT !.priority = KeptOf(data, DOMAIN m.members)]
    BY <1>2 DEF ApplySetting
  <2>4. MeantData(kind, data)
    BY DEF Meant
  <2> HIDE DEF n, kind, data
  <2>5. DOMAIN n = DOMAIN Blank /\ n.members = m.members /\ n.grants = m.grants
    BY <2>1, <2>3 DEF Blank
  <2>6. SettingsFit(m)
    BY DEF Fits
  <2>7. CASE kind = "rename" /\ n = [m EXCEPT !.name = data]
    <3>1. /\ n.name = data /\ n.channels = m.channels
          /\ n.deleted = m.deleted /\ n.priority = m.priority /\ n.revoked = m.revoked
          /\ n.invites = m.invites /\ n.banned = m.banned
      BY <2>1, <2>7 DEF Blank
    <3>2. data \in Names
      BY <2>4, <2>7 DEF MeantData
    <3> QED
      BY <2>5, <2>6, <3>1, <3>2 DEF Fits, SettingsFit
  <2>8. CASE kind = "channel" /\ n = [m EXCEPT !.channels = Insert(m.channels, data.id, data.name)]
    <3>1. /\ n.name = m.name /\ n.channels = Insert(m.channels, data.id, data.name)
          /\ n.deleted = m.deleted /\ n.priority = m.priority /\ n.revoked = m.revoked
          /\ n.invites = m.invites /\ n.banned = m.banned
      BY <2>1, <2>8 DEF Blank
    <3>2. data.id \in Channels /\ data.name \in Names
      BY <2>4, <2>8 DEF MeantData
    <3>3. DOMAIN n.channels \subseteq Channels /\ n.channels \in [DOMAIN n.channels -> Names]
      BY <2>6, <3>1, <3>2, ChannelsFit DEF SettingsFit
    <3> QED
      BY <2>5, <2>6, <3>1, <3>3 DEF Fits, SettingsFit
  <2>9. CASE n = [m EXCEPT !.channels = Without(m.channels, data)]
    <3>1. /\ n.name = m.name /\ n.channels = Without(m.channels, data)
          /\ n.deleted = m.deleted /\ n.priority = m.priority /\ n.revoked = m.revoked
          /\ n.invites = m.invites /\ n.banned = m.banned
      BY <2>1, <2>9 DEF Blank
    <3>2. DOMAIN n.channels \subseteq Channels /\ n.channels \in [DOMAIN n.channels -> Names]
      BY <2>6, <3>1, ChannelsFit DEF SettingsFit
    <3> QED
      BY <2>5, <2>6, <3>1, <3>2 DEF Fits, SettingsFit
  <2>10. CASE kind = "invite" /\ n = [m EXCEPT !.invites = m.invites \cup {data}]
    <3>1. /\ n.name = m.name /\ n.channels = m.channels
          /\ n.deleted = m.deleted /\ n.priority = m.priority /\ n.revoked = m.revoked
          /\ n.invites = m.invites \cup {data} /\ n.banned = m.banned
      BY <2>1, <2>10 DEF Blank
    <3>2. data \in Codes
      BY <2>4, <2>10 DEF MeantData
    <3> QED
      BY <2>5, <2>6, <3>1, <3>2 DEF Fits, SettingsFit
  <2>11. CASE kind = "priority" /\ n = [m EXCEPT !.priority = KeptOf(data, DOMAIN m.members)]
    <3>1. /\ n.name = m.name /\ n.channels = m.channels
          /\ n.deleted = m.deleted /\ n.priority = KeptOf(data, DOMAIN m.members)
          /\ n.revoked = m.revoked
          /\ n.invites = m.invites /\ n.banned = m.banned
      BY <2>1, <2>11 DEF Blank
    <3>2. KeptOf(data, DOMAIN m.members) \in Seq(Peers)
      BY <2>4, <2>11, KeptAreMembers DEF MeantData
    <3> QED
      BY <2>5, <2>6, <3>1, <3>2 DEF Fits, SettingsFit
  <2>12. CASE n = m
    BY <2>12
  <2> QED
    BY <2>3, <2>7, <2>8, <2>9, <2>10, <2>11, <2>12
<1> QED
  BY <1>1, <1>2

\* Any operation keeps the model fit.
LEMMA ApplyFits ==
  ASSUME NEW l, Meant(l), NEW m, Fits(l, m), NEW i \in DOMAIN l
  PROVE  Fits(l, ApplyOperation(l, m, i))
<1> DEFINE n == ApplyOperation(l, m, i)
<1>1. Fits(l, ApplyExpulsion(l, m, i)) /\ Fits(l, ApplyLeave(l, m, i))
  BY ExpelFits DEF ApplyExpulsion, ApplyLeave
<1>2. \/ l[i].kind = "create" /\ n = ApplyCreate(l, m, i)
      \/ l[i].kind = "admit" /\ n = ApplyAdmit(l, m, i)
      \/ n = ApplyExpulsion(l, m, i) \/ n = ApplyLeave(l, m, i)
      \/ l[i].kind = "profile" /\ n = ApplyProfile(l, m, i)
      \/ n = ApplySetting(l, m, i)
      \/ n = m
  BY DEF ApplyOperation
<1> QED
  BY <1>1, <1>2, CreateFits, AdmitFits, ProfileFits, SettingFits

\* So does the whole loop of rebuild.
LEMMA AppliedFits ==
  ASSUME NEW l, DOMAIN l \subseteq Ids, IsFiniteSet(DOMAIN l), Meant(l)
  PROVE  Fits(l, Applied(l)[Cardinality(DOMAIN l)])
<1> DEFINE N == Cardinality(DOMAIN l)
           T == {n \in 0 .. N : ~ Fits(l, Applied(l)[n])}
<1>1. N \in Nat /\ \A n \in 1 .. N : Ordered(l)[n] \in DOMAIN l
  BY OrderedEnumerates
<1>2. /\ Applied(l)[0] = Gathered(l)
      /\ \A n \in 1 .. N : Applied(l)[n] = ApplyOperation(l, Applied(l)[n - 1], Ordered(l)[n])
  BY <1>1, AppliedSteps
<1> HIDE DEF N
<1>3. ASSUME T # {} PROVE FALSE
  <2>1. T \in SUBSET Nat
    BY <1>1
  <2>2. PICK n \in T : \A k \in T : n <= k
    <3> HIDE DEF T
    <3> QED BY <1>3, <2>1, LeastNumber
  <2>3. n # 0
    BY <1>2, GatheredFits
  <2>4. n \in 1 .. N /\ n - 1 \in 0 .. N /\ ~ (n <= n - 1)
    BY <1>1, <2>3
  <2>5. Fits(l, Applied(l)[n - 1])
    BY <2>2, <2>4
  <2>6. Fits(l, Applied(l)[n])
    BY <1>1, <1>2, <2>4, <2>5, ApplyFits
  <2> QED
    BY <2>2, <2>6
<1>4. N \in 0 .. N
  BY <1>1
<1> QED
  BY <1>3, <1>4 DEF N

\* And the passes after it.
LEMMA RebuiltFits ==
  ASSUME NEW l, SoundLog(l), IsFiniteSet(DOMAIN l), Meant(l)
  PROVE  Fits(l, Rebuild(l))
<1> DEFINE m == Applied(l)[Cardinality(DOMAIN l)]
           n == Rebuild(l)
           gone == Dropped(l, m)
<1>1. Fits(l, m)
  BY AppliedFits DEF SoundLog
<1>2. n = [m EXCEPT !.members = Restrict(m.members, DOMAIN m.members \ gone),
                    !.grants = Restrict(m.grants, DOMAIN m.grants \ gone)]
  BY DEF Rebuild
<1>3. DOMAIN m = DOMAIN Blank
  BY <1>1 DEF Fits
<1> HIDE DEF m, n, gone
<1>4. /\ DOMAIN n = DOMAIN Blank /\ n.name = m.name
      /\ n.members = Restrict(m.members, DOMAIN m.members \ gone)
      /\ n.grants = Restrict(m.grants, DOMAIN m.grants \ gone)
      /\ n.deleted = m.deleted /\ n.priority = m.priority /\ n.revoked = m.revoked
      /\ n.channels = m.channels /\ n.invites = m.invites /\ n.banned = m.banned
  BY <1>2, <1>3 DEF Blank
<1>5. RolesFit(l, n.members, n.grants)
  BY <1>1, <1>4, RolesRestrict DEF Fits
<1>6. SettingsFit(n)
  BY <1>1, <1>4 DEF Fits, SettingsFit
<1> QED
  BY <1>4, <1>5, <1>6 DEF Fits, n

(***************************************************************************)
(* The devices: their logs hold what the editing functions make, and their *)
(* models are those of their logs.                                         *)
(***************************************************************************)

(***************************************************************************)
(* A log that grows by one operation which has seen all of it: what rebuild *)
(* makes of it.                                                            *)
(***************************************************************************)

\* next is the log l with one operation more, which has seen all of l.
Grown(l, next, id) ==
    /\ SoundLog(l) /\ IsFiniteSet(DOMAIN l) /\ Meant(l)
    /\ SoundLog(next) /\ IsFiniteSet(DOMAIN next) /\ Meant(next)
    /\ id \notin DOMAIN l /\ DOMAIN next = DOMAIN l \cup {id}
    /\ \A i \in DOMAIN l : next[i] = l[i]
    /\ next[id].past = DOMAIN l

\* The new operation is nobody's ancestor, and everybody is its.
LEMMA GrownAncestors ==
  ASSUME NEW l, NEW next, NEW id, Grown(l, next, id)
  PROVE  /\ \A i, a : i # id => (Ancestor(next, a, i) <=> Ancestor(l, a, i))
         /\ \A a \in DOMAIN next : Ancestor(next, a, id)
         /\ \A i : i # id => ~ Ancestor(next, id, i)
<1>1. \A i \in DOMAIN l : id \notin l[i].past
  BY DEF Grown, SoundLog
<1>2. \A i, a : i # id => (Ancestor(next, a, i) <=> Ancestor(l, a, i))
  BY DEF Grown, Ancestor
<1>3. \A a \in DOMAIN next : Ancestor(next, a, id)
  BY DEF Grown, Ancestor
<1>4. \A i : i # id => ~ Ancestor(next, id, i)
  BY <1>1 DEF Grown, Ancestor
<1> QED
  BY <1>2, <1>3, <1>4

\* A new role assignment withdraws no authority from what it has seen.
LEMMA GrownAuthority ==
  ASSUME NEW l, NEW next, NEW id, Grown(l, next, id), NEW i \in DOMAIN l
  PROVE  Authorized(next, i) <=> Authorized(l, i)
<1> DEFINE author == l[i].author
           grant == l[i].authority
<1>1. next[i] = l[i] /\ i # id /\ DOMAIN next = DOMAIN l \cup {id} /\ id \notin DOMAIN l
      /\ \A j \in DOMAIN l : next[j] = l[j]
  BY DEF Grown
<1>2. grant # id
  <2>1. grant \in DOMAIN l \cup {NoOp}
    BY DEF Grown, Meant
  <2>2. id \in Nat \X Nat
    BY <1>1 DEF Grown, SoundLog, Ids
  <2>3. NoOp # id
    BY <2>2, ModelAssumption
  <2> QED
    BY <1>1, <2>1, <2>3
<1>3. RolesOf(next, author) \ {id} = RolesOf(l, author)
  BY <1>1 DEF RolesOf
<1>4. \A r : Ancestor(next, r, grant) <=> Ancestor(l, r, grant)
  BY <1>2, GrownAncestors
<1>5. Ancestor(next, grant, i) <=> Ancestor(l, grant, i)
  BY <1>1, GrownAncestors
<1>6. \A r \in RolesOf(l, author) : Ancestor(next, i, r) <=> Ancestor(l, i, r)
  BY <1>3, GrownAncestors
<1>7. Ancestor(next, i, id)
  BY <1>1, GrownAncestors
<1>8. grant \in RolesOf(next, author) <=> grant \in RolesOf(l, author)
  BY <1>2, <1>3
<1>9. grant \in RolesOf(l, author) => next[grant] = l[grant]
  BY <1>1 DEF RolesOf
<1> HIDE DEF author, grant
<1>10. (\A r \in RolesOf(next, author) \ {grant} : Ancestor(next, r, grant) \/ Ancestor(next, i, r))
       <=> (\A r \in RolesOf(l, author) \ {grant} : Ancestor(l, r, grant) \/ Ancestor(l, i, r))
  BY <1>3, <1>4, <1>6, <1>7
<1> QED
  BY <1>1, <1>5, <1>8, <1>9, <1>10 DEF Authorized, author, grant

\* Nothing is aimed at anybody but what was, and perhaps the new operation.
LEMMA GrownAgainst ==
  ASSUME NEW l, NEW next, NEW id, Grown(l, next, id)
  PROVE  /\ \A kinds, target : Against(next, kinds, target) \ {id} = Against(l, kinds, target)
         /\ \A q : /\ Removals(next, q) \ {id} = Removals(l, q)
                   /\ Bans(next, q) \ {id} = Bans(l, q)
                   /\ Unbans(next, q) \ {id} = Unbans(l, q)
                   /\ Departures(next, q) \ {id} = Departures(l, q)
         /\ \A c : Revocations(next, c) \ {id} = Revocations(l, c)
<1>1. /\ DOMAIN next = DOMAIN l \cup {id} /\ id \notin DOMAIN l
      /\ \A j \in DOMAIN l : next[j] = l[j]
  BY DEF Grown
<1>2. \A kinds, target : Against(next, kinds, target) \ {id} = Against(l, kinds, target)
  BY <1>1, GrownAuthority DEF Against
<1>3. \A q : Departures(next, q) \ {id} = Departures(l, q)
  BY <1>1 DEF Departures
<1>4. \A q : /\ Removals(next, q) \ {id} = Removals(l, q)
             /\ Bans(next, q) \ {id} = Bans(l, q)
             /\ Unbans(next, q) \ {id} = Unbans(l, q)
  BY <1>2 DEF Removals, Bans, Unbans
<1>5. \A c : Revocations(next, c) \ {id} = Revocations(l, c)
  BY <1>2 DEF Revocations
<1> QED
  BY <1>2, <1>3, <1>4, <1>5

\* Before the new operation, a ban is cleared by what cleared it.
LEMMA GrownCleared ==
  ASSUME NEW l, NEW next, NEW id, Grown(l, next, id), NEW b, NEW q
  PROVE  ClearedBy(next, b, q) \ {id} = ClearedBy(l, b, q)
<1>1. Unbans(next, q) \ {id} = Unbans(l, q)
  BY GrownAgainst
<1>2. \A u : u # id => (Ancestor(next, b, u) <=> Ancestor(l, b, u))
  BY GrownAncestors
<1>3. id \notin Unbans(l, q)
  BY DEF Unbans, Against, Grown
<1> QED
  BY <1>1, <1>2, <1>3 DEF ClearedBy

\* Two models that differ at most in what rebuild gathers before its loop.
Alike(m, n) ==
    /\ DOMAIN m = DOMAIN Blank /\ DOMAIN n = DOMAIN Blank
    /\ n.name = m.name /\ n.members = m.members /\ n.channels = m.channels
    /\ n.priority = m.priority /\ n.invites = m.invites /\ n.grants = m.grants
    /\ n.admission = m.admission /\ n.accepted = m.accepted

\* Admissions of a model are operations of the log.
Entered(l, m) == \A q \in DOMAIN m.admission : m.admission[q] \in DOMAIN l

\* Nobody's acts lose their effect by an operation that has seen them.
LEMMA GrownCouldAct ==
  ASSUME NEW l, NEW next, NEW id, Grown(l, next, id), NEW m, NEW n, Alike(m, n), Entered(l, m),
         NEW i \in DOMAIN l, NEW q
  PROVE  CouldAct(next, n, q, i) <=> CouldAct(l, m, q, i)
<1> DEFINE a == AdmissionOf(m, q)
           Old(x) == Ancestor(l, i, x) \/ (Ancestor(l, x, a) /\ Ancestor(l, a, i))
           New(x) == Ancestor(next, i, x) \/ (Ancestor(next, x, a) /\ Ancestor(next, a, i))
<1>1. id \notin DOMAIN l /\ i # id /\ i \in DOMAIN next
  BY DEF Grown
<1>2. AdmissionOf(n, q) = a
  BY DEF AdmissionOf, Alike
<1>3. a # id
  <2>1. id \in Nat \X Nat
    BY DEF Grown, SoundLog, Ids
  <2>2. NoOp # id
    BY <2>1, ModelAssumption
  <2> QED
    BY <1>1, <2>2 DEF AdmissionOf, Entered
<1>4. \A x : x # id => (New(x) <=> Old(x))
  <2> HIDE DEF a
  <2> QED
    BY <1>1, <1>3, GrownAncestors
<1>5. New(id)
  BY <1>1, GrownAncestors
<1>6. Removals(next, q) \ {id} = Removals(l, q) /\ Departures(next, q) \ {id} = Departures(l, q)
  BY GrownAgainst
<1>7. CouldAct(next, n, q, i) <=> \A x \in Removals(next, q) \cup Departures(next, q) : New(x)
  BY <1>2 DEF CouldAct
<1>8. CouldAct(l, m, q, i) <=> \A x \in Removals(l, q) \cup Departures(l, q) : Old(x)
  BY DEF CouldAct
<1> HIDE DEF a, Old, New
<1> QED
  BY <1>4, <1>5, <1>6, <1>7, <1>8

\* An admission is decided by what it has seen.
LEMMA GrownAdmissible ==
  ASSUME NEW l, NEW next, NEW id, Grown(l, next, id), NEW m, NEW n, Alike(m, n), Entered(l, m),
         NEW i \in DOMAIN l
  PROVE  Admissible(next, n, i) <=> Admissible(l, m, i)
<1> DEFINE p == l[i].data.peer
           c == l[i].data.invite
<1>1. id \notin DOMAIN l /\ i # id /\ i \in DOMAIN next /\ next[i] = l[i]
  BY DEF Grown
<1>2. \A x : Ancestor(next, x, i) <=> Ancestor(l, x, i)
  BY <1>1, GrownAncestors
<1>3. \A x : x # id => (Ancestor(next, i, x) <=> Ancestor(l, i, x))
  BY GrownAncestors
<1>4. Ancestor(next, i, id) /\ ~ Ancestor(next, id, i)
  BY <1>1, GrownAncestors
<1>5. (\A r \in Removals(next, p) : Ancestor(next, i, r) \/ Ancestor(next, r, i))
      <=> (\A r \in Removals(l, p) : Ancestor(l, i, r) \/ Ancestor(l, r, i))
  <2>1. Removals(next, p) \ {id} = Removals(l, p)
    BY GrownAgainst
  <2> HIDE DEF p
  <2> QED
    BY <1>2, <1>3, <1>4, <2>1
<1>6. (\A d \in Departures(next, p) : Ancestor(next, d, i) \/ Ancestor(next, i, d))
      <=> (\A d \in Departures(l, p) : Ancestor(l, d, i) \/ Ancestor(l, i, d))
  <2>1. Departures(next, p) \ {id} = Departures(l, p)
    BY GrownAgainst
  <2> HIDE DEF p
  <2> QED
    BY <1>2, <1>3, <1>4, <2>1
<1>7. \A b : (\E u \in ClearedBy(next, b, p) : Ancestor(next, u, i))
             <=> (\E u \in ClearedBy(l, b, p) : Ancestor(l, u, i))
  <2> SUFFICES ASSUME NEW b
        PROVE  (\E u \in ClearedBy(next, b, p) : Ancestor(next, u, i))
               <=> (\E u \in ClearedBy(l, b, p) : Ancestor(l, u, i))
    OBVIOUS
  <2>1. ClearedBy(next, b, p) \ {id} = ClearedBy(l, b, p)
    BY GrownCleared
  <2> HIDE DEF p
  <2> QED
    BY <1>2, <1>4, <2>1
<1>8. (\A b \in Bans(next, p) : \/ Ancestor(next, i, b)
                                \/ \E u \in ClearedBy(next, b, p) : Ancestor(next, u, i))
      <=> (\A b \in Bans(l, p) : \/ Ancestor(l, i, b)
                                 \/ \E u \in ClearedBy(l, b, p) : Ancestor(l, u, i))
  <2>1. Bans(next, p) \ {id} = Bans(l, p)
    BY GrownAgainst
  <2> HIDE DEF p
  <2> QED
    BY <1>3, <1>4, <1>7, <2>1
<1>9. (\A r \in Revocations(next, c) : Ancestor(next, i, r))
      <=> (\A r \in Revocations(l, c) : Ancestor(l, i, r))
  <2>1. Revocations(next, c) \ {id} = Revocations(l, c)
    BY GrownAgainst
  <2> HIDE DEF c
  <2> QED
    BY <1>3, <1>4, <2>1
<1>10. CouldAct(next, n, l[i].author, i) <=> CouldAct(l, m, l[i].author, i)
  BY GrownCouldAct
<1>11. n.members = m.members /\ n.accepted = m.accepted /\ n.invites = m.invites
  BY DEF Alike
<1> QED
  BY <1>1, <1>5, <1>6, <1>8, <1>9, <1>10, <1>11 DEF Admissible

\* The founding operation does to models that are alike the same.
LEMMA CreateAlike ==
  ASSUME NEW l, NEW next, NEW m, NEW n, Alike(m, n), NEW i, next[i] = l[i]
  PROVE  Alike(ApplyCreate(l, m, i), ApplyCreate(next, n, i))
BY DEF ApplyCreate, Alike, Blank

\* So does an admission, since it is decided by what it has seen.
LEMMA AdmitAlike ==
  ASSUME NEW l, NEW next, NEW id, Grown(l, next, id), NEW m, NEW n, Alike(m, n), Entered(l, m),
         NEW i \in DOMAIN l
  PROVE  Alike(ApplyAdmit(l, m, i), ApplyAdmit(next, n, i))
<1>1. Admissible(next, n, i) <=> Admissible(l, m, i)
  BY GrownAdmissible
<1>2. next[i] = l[i]
  BY DEF Grown
<1>3. CASE ~ Admissible(l, m, i)
  BY <1>1, <1>3 DEF ApplyAdmit
<1>4. CASE Admissible(l, m, i)
  <2> DEFINE p == l[i].data.peer
             x == [m EXCEPT !.accepted = @ \cup {l[i].data},
                       !.admission = Insert(@, p, i),
                       !.members = Insert(@, p, [admin |-> FALSE, profile |-> FirstName])]
             y == [n EXCEPT !.accepted = @ \cup {l[i].data},
                       !.admission = Insert(@, p, i),
                       !.members = Insert(@, p, [admin |-> FALSE, profile |-> FirstName])]
  <2>1. ApplyAdmit(l, m, i) = x /\ ApplyAdmit(next, n, i) = y
    BY <1>1, <1>2, <1>4 DEF ApplyAdmit
  <2>2. Alike(x, y)
    BY DEF Alike, Blank
  <2> QED
    BY <2>1, <2>2
<1> QED
  BY <1>3, <1>4

\* So does an expulsion.
LEMMA ExpelAlike ==
  ASSUME NEW m, NEW n, Alike(m, n), NEW q
  PROVE  Alike(Expel(m, q), Expel(n, q))
BY DEF Expel, Alike, Blank

\* So does a profile, whose author can act in both models or in neither.
LEMMA ProfileAlike ==
  ASSUME NEW l, NEW next, NEW id, Grown(l, next, id), NEW m, NEW n, Alike(m, n), Entered(l, m),
         NEW i \in DOMAIN l
  PROVE  Alike(ApplyProfile(l, m, i), ApplyProfile(next, n, i))
<1> DEFINE p == l[i].author
           Acts == p \in DOMAIN m.members /\ CouldAct(l, m, p, i)
           x == [m EXCEPT !.members[p].profile = l[i].data]
           y == [n EXCEPT !.members[p].profile = l[i].data]
<1>1. next[i] = l[i] /\ n.members = m.members
  BY DEF Grown, Alike
<1>2. CouldAct(next, n, p, i) <=> CouldAct(l, m, p, i)
  BY GrownCouldAct
<1>3. Alike(x, y)
  BY DEF Alike, Blank
<1>4. /\ ApplyProfile(l, m, i) = IF Acts THEN x ELSE m
      /\ ApplyProfile(next, n, i) = IF Acts THEN y ELSE n
  BY <1>1, <1>2 DEF ApplyProfile
<1> HIDE DEF x, y, Acts
<1> QED
  BY <1>3, <1>4

\* So does a setting.
LEMMA SettingAlike ==
  ASSUME NEW l, NEW next, NEW m, NEW n, Alike(m, n), NEW i, next[i] = l[i]
  PROVE  Alike(ApplySetting(l, m, i), ApplySetting(next, n, i))
<1> DEFINE kind == l[i].kind
           data == l[i].data
           x == ApplySetting(l, m, i)
           y == ApplySetting(next, n, i)
<1>1. CASE kind = "admin"
  <2> DEFINE Owns == l[i].author = Owner /\ data.peer \in DOMAIN m.members \ {Owner}
             a == [m EXCEPT !.members[data.peer].admin = data.enabled,
                       !.grants = IF data.enabled THEN Insert(@, data.peer, i)
                                  ELSE Without(@, data.peer)]
             b == [n EXCEPT !.members[data.peer].admin = data.enabled,
                       !.grants = IF data.enabled THEN Insert(@, data.peer, i)
                                  ELSE Without(@, data.peer)]
  <2>1. Alike(a, b)
    BY DEF Alike, Blank
  <2>2. /\ ApplyRole(l, m, i) = IF Owns THEN a ELSE m
        /\ ApplyRole(next, n, i) = IF Owns THEN b ELSE n
    BY DEF ApplyRole, Alike
  <2>3. x = ApplyRole(l, m, i) /\ y = ApplyRole(next, n, i)
    BY <1>1 DEF ApplySetting
  <2> HIDE DEF x, y, a, b, Owns
  <2> QED
    BY <2>1, <2>2, <2>3 DEF x, y
<1>2. CASE kind = "rename"
  <2>1. x = [m EXCEPT !.name = data] /\ y = [n EXCEPT !.name = data]
    BY <1>2 DEF ApplySetting
  <2> HIDE DEF data
  <2> QED
    BY <2>1 DEF Alike, Blank
<1>3. CASE kind = "channel"
  <2> DEFINE Room == data.id \in DOMAIN m.channels \/ Cardinality(DOMAIN m.channels) < MaxChannels
             a == [m EXCEPT !.channels = Insert(@, data.id, data.name)]
             b == [n EXCEPT !.channels = Insert(@, data.id, data.name)]
  <2>1. Alike(a, b)
    BY DEF Alike, Blank
  <2>2. x = (IF Room THEN a ELSE m) /\ y = (IF Room THEN b ELSE n)
    BY <1>3 DEF ApplySetting, Alike
  <2> HIDE DEF a, b, Room
  <2> QED
    BY <2>1, <2>2
<1>4. CASE kind = "delete-channel"
  <2>1. x = [m EXCEPT !.channels = Without(@, data)] /\ y = [n EXCEPT !.channels = Without(@, data)]
    BY <1>4 DEF ApplySetting
  <2> HIDE DEF data
  <2> QED
    BY <2>1 DEF Alike, Blank
<1>5. CASE kind = "invite"
  <2>1. x = [m EXCEPT !.invites = @ \cup {data}] /\ y = [n EXCEPT !.invites = @ \cup {data}]
    BY <1>5 DEF ApplySetting
  <2> HIDE DEF data
  <2> QED
    BY <2>1 DEF Alike, Blank
<1>6. CASE kind = "priority"
  <2>1. /\ x = [m EXCEPT !.priority = KeptOf(data, DOMAIN m.members)]
        /\ y = [n EXCEPT !.priority = KeptOf(data, DOMAIN m.members)]
    BY <1>6 DEF ApplySetting, Alike
  <2> HIDE DEF data
  <2> QED
    BY <2>1 DEF Alike, Blank
<1>7. CASE kind \notin {"admin", "rename", "channel", "delete-channel", "invite", "priority"}
  <2>1. x = m /\ y = n
    BY <1>7 DEF ApplySetting
  <2> QED
    BY <2>1
<1> QED
  BY <1>1, <1>2, <1>3, <1>4, <1>5, <1>6, <1>7

\* What an operation does at its place depends on what it has seen.
LEMMA ApplyAlike ==
  ASSUME NEW l, NEW next, NEW id, Grown(l, next, id), NEW m, NEW n, Alike(m, n), Entered(l, m),
         NEW i \in DOMAIN l
  PROVE  Alike(ApplyOperation(l, m, i), ApplyOperation(next, n, i))
<1> DEFINE kind == l[i].kind
           author == l[i].author
           x == ApplyOperation(l, m, i)
           y == ApplyOperation(next, n, i)
<1>1. next[i] = l[i] /\ n.members = m.members
  BY DEF Grown, Alike
<1>2. Authorized(next, i) <=> Authorized(l, i)
  BY GrownAuthority
<1>3. CouldAct(next, n, author, i) <=> CouldAct(l, m, author, i)
  BY GrownCouldAct
<1>4. CASE kind = "create"
  <2>1. x = ApplyCreate(l, m, i) /\ y = ApplyCreate(next, n, i)
    BY <1>1, <1>4 DEF ApplyOperation, Expulsions
  <2> QED BY <1>1, <2>1, CreateAlike
<1>5. CASE kind = "admit"
  <2>1. x = ApplyAdmit(l, m, i) /\ y = ApplyAdmit(next, n, i)
    BY <1>1, <1>5 DEF ApplyOperation, Expulsions
  <2> QED BY <2>1, AdmitAlike
<1>6. CASE kind \in Expulsions /\ Authorized(l, i)
  <2>1. x = ApplyExpulsion(l, m, i) /\ y = ApplyExpulsion(next, n, i)
    BY <1>1, <1>2, <1>6 DEF ApplyOperation, Expulsions
  <2>2. Alike(ApplyExpulsion(l, m, i), ApplyExpulsion(next, n, i))
    BY <1>1, ExpelAlike DEF ApplyExpulsion
  <2> QED BY <2>1, <2>2
<1>7. CASE kind = "leave"
  <2>1. x = ApplyLeave(l, m, i) /\ y = ApplyLeave(next, n, i)
    BY <1>1, <1>7 DEF ApplyOperation, Expulsions
  <2>2. Alike(ApplyLeave(l, m, i), ApplyLeave(next, n, i))
    BY <1>1, ExpelAlike DEF ApplyLeave
  <2> QED BY <2>1, <2>2
<1>8. CASE kind = "profile"
  <2>1. x = ApplyProfile(l, m, i) /\ y = ApplyProfile(next, n, i)
    BY <1>1, <1>8 DEF ApplyOperation, Expulsions
  <2> QED BY <2>1, ProfileAlike
<1>9. CASE kind \notin {"create", "admit", "leave", "profile"} /\ ~ (kind \in Expulsions /\ Authorized(l, i))
  <2> DEFINE Acts == author \in DOMAIN m.members /\ CouldAct(l, m, author, i) /\ Authorized(l, i)
  <2>1. /\ x = IF Acts THEN ApplySetting(l, m, i) ELSE m
        /\ y = IF Acts THEN ApplySetting(next, n, i) ELSE n
    BY <1>1, <1>2, <1>3, <1>9 DEF ApplyOperation
  <2>2. Alike(ApplySetting(l, m, i), ApplySetting(next, n, i))
    BY <1>1, SettingAlike
  <2> HIDE DEF x, y, Acts
  <2> QED BY <2>1, <2>2 DEF x, y
<1> QED
  BY <1>4, <1>5, <1>6, <1>7, <1>8, <1>9

\* The ways in which an operation, applied to a model, changes its members.
Founds(l, m, i, n) ==
    /\ l[i].kind = "create"
    /\ DOMAIN n.members = DOMAIN m.members \cup {Owner}
    /\ n.admission = Insert(m.admission, Owner, i)
    /\ n.grants = m.grants /\ n.accepted = m.accepted

\* It admits the peer of its intent.
Admits(l, m, i, n) ==
    /\ l[i].kind = "admit" /\ Admissible(l, m, i)
    /\ DOMAIN n.members = DOMAIN m.members \cup {l[i].data.peer}
    /\ n.admission = Insert(m.admission, l[i].data.peer, i)
    /\ n.grants = m.grants /\ n.accepted = m.accepted \cup {l[i].data}

\* It expels q, who may be its author.
Expels(l, m, i, n, q) ==
    /\ q # Owner
    /\ \/ l[i].kind \in Expulsions /\ Authorized(l, i) /\ l[i].data = q
       \/ l[i].kind = "leave" /\ l[i].author = q
    /\ DOMAIN n.members = DOMAIN m.members \ {q}
    /\ n.admission = m.admission /\ n.accepted = m.accepted
    /\ n.grants = Restrict(m.grants, DOMAIN m.grants \ {q})

\* It gives or takes the role of q.
Assigns(l, m, i, n, q) ==
    /\ l[i].kind = "admin" /\ l[i].author = Owner /\ l[i].data.peer = q
    /\ q \in DOMAIN m.members \ {Owner} /\ Owner \in DOMAIN m.members
    /\ DOMAIN n.members = DOMAIN m.members
    /\ n.admission = m.admission /\ n.accepted = m.accepted
    /\ n.grants = IF l[i].data.enabled THEN Insert(m.grants, q, i)
                  ELSE Restrict(m.grants, DOMAIN m.grants \ {q})

\* An operation that expels nobody and assigns no role.
Leaves(l, m, i, n) ==
    /\ DOMAIN n.members = DOMAIN m.members
    /\ n.admission = m.admission /\ n.accepted = m.accepted /\ n.grants = m.grants
    /\ ~ (l[i].kind \in Expulsions /\ Authorized(l, i) /\ l[i].data # Owner)
    /\ ~ (l[i].kind = "leave" /\ l[i].author # Owner)
    /\ l[i].kind = "admin" /\ l[i].author = Owner /\ l[i].data.peer \in DOMAIN m.members \ {Owner}
          => Owner \notin DOMAIN m.members

\* Nothing removes the owner.
LEMMA OwnerActs ==
  ASSUME NEW l, NEW m, NEW i
  PROVE  CouldAct(l, m, Owner, i)
BY DEF CouldAct, Removals, Departures

\* A setting leaves alone the members and what was gathered.
LEMMA SettingFields ==
  ASSUME NEW l, NEW m, DOMAIN m = DOMAIN Blank, NEW i, l[i].kind # "admin"
  PROVE  LET n == ApplySetting(l, m, i)
         IN  /\ DOMAIN n = DOMAIN Blank
             /\ n.members = m.members /\ n.admission = m.admission
             /\ n.accepted = m.accepted /\ n.grants = m.grants
             /\ n.deleted = m.deleted /\ n.revoked = m.revoked /\ n.banned = m.banned
<1> DEFINE n == ApplySetting(l, m, i)
           data == l[i].data
<1>1. \/ n = m
      \/ n = [m EXCEPT !.name = data]
      \/ n = [m EXCEPT !.channels = Insert(m.channels, data.id, data.name)]
      \/ n = [m EXCEPT !.channels = Without(m.channels, data)]
      \/ n = [m EXCEPT !.invites = m.invites \cup {data}]
      \/ n = [m EXCEPT !.priority = KeptOf(data, DOMAIN m.members)]
  BY DEF ApplySetting
<1> HIDE DEF n, data
<1>2. /\ DOMAIN n = DOMAIN Blank
      /\ n.members = m.members /\ n.admission = m.admission
      /\ n.accepted = m.accepted /\ n.grants = m.grants
      /\ n.deleted = m.deleted /\ n.revoked = m.revoked /\ n.banned = m.banned
  BY <1>1 DEF Blank
<1> QED
  BY <1>2 DEF n

\* Every operation changes the members in one of these ways.
LEMMA Effects ==
  ASSUME NEW l, NEW m, DOMAIN m = DOMAIN Blank, NEW i
  PROVE  LET n == ApplyOperation(l, m, i)
         IN  \/ Founds(l, m, i, n) \/ Admits(l, m, i, n) \/ Leaves(l, m, i, n)
             \/ \E q : Expels(l, m, i, n, q) \/ Assigns(l, m, i, n, q)
<1> DEFINE n == ApplyOperation(l, m, i)
           kind == l[i].kind
           author == l[i].author
           data == l[i].data
           Some == \/ Founds(l, m, i, n) \/ Admits(l, m, i, n) \/ Leaves(l, m, i, n)
                   \/ \E q : Expels(l, m, i, n, q) \/ Assigns(l, m, i, n, q)
<1>0. SUFFICES Some
  OBVIOUS
<1>1. CASE kind = "create"
  <2>1. n = ApplyCreate(l, m, i)
    BY <1>1 DEF ApplyOperation, Expulsions
  <2>2. n.members = Insert(m.members, Owner, [admin |-> TRUE, profile |-> FirstName])
        /\ n.admission = Insert(m.admission, Owner, i)
        /\ n.grants = m.grants /\ n.accepted = m.accepted
    BY <2>1 DEF ApplyCreate, Blank
  <2> HIDE DEF n
  <2>3. DOMAIN n.members = DOMAIN m.members \cup {Owner}
    BY <2>2 DEF Insert
  <2>4. Founds(l, m, i, n)
    BY <1>1, <2>2, <2>3 DEF Founds
  <2> QED BY <2>4
<1>2. CASE kind = "admit" /\ Admissible(l, m, i)
  <2>1. n = ApplyAdmit(l, m, i)
    BY <1>2 DEF ApplyOperation, Expulsions
  <2>2. n.members = Insert(m.members, data.peer, [admin |-> FALSE, profile |-> FirstName])
        /\ n.admission = Insert(m.admission, data.peer, i)
        /\ n.grants = m.grants /\ n.accepted = m.accepted \cup {data}
    BY <1>2, <2>1 DEF ApplyAdmit, Blank
  <2> HIDE DEF n
  <2>3. DOMAIN n.members = DOMAIN m.members \cup {data.peer}
    BY <2>2 DEF Insert
  <2>4. Admits(l, m, i, n)
    BY <1>2, <2>2, <2>3 DEF Admits
  <2> QED BY <2>4
<1>3. CASE kind = "admit" /\ ~ Admissible(l, m, i)
  <2>1. n = m
    BY <1>3 DEF ApplyOperation, ApplyAdmit, Expulsions
  <2>2. Leaves(l, m, i, n)
    BY <1>3, <2>1 DEF Leaves, Expulsions
  <2> QED BY <2>2
<1>4. ASSUME NEW q, n = Expel(m, q)
      PROVE  /\ DOMAIN n.members = DOMAIN m.members \ {q}
             /\ n.admission = m.admission /\ n.accepted = m.accepted
             /\ n.grants = Restrict(m.grants, DOMAIN m.grants \ {q})
  <2> HIDE DEF n
  <2>1. /\ n.members = Without(m.members, q) /\ n.grants = Without(m.grants, q)
        /\ n.admission = m.admission /\ n.accepted = m.accepted
    BY <1>4 DEF Expel, Blank
  <2> QED
    BY <2>1 DEF Without, Restrict
<1>5. CASE kind \in Expulsions /\ Authorized(l, i)
  <2>1. n = IF data = Owner THEN m ELSE Expel(m, data)
    BY <1>5 DEF ApplyOperation, ApplyExpulsion, Expulsions
  <2>2. data = Owner => Leaves(l, m, i, n)
    BY <1>5, <2>1 DEF Leaves, Expulsions
  <2>3. data # Owner => Expels(l, m, i, n, data)
    BY <1>4, <1>5, <2>1 DEF Expels
  <2> QED BY <2>2, <2>3
<1>6. CASE kind = "leave"
  <2>1. n = IF author = Owner THEN m ELSE Expel(m, author)
    BY <1>6 DEF ApplyOperation, ApplyLeave, Expulsions
  <2>2. author = Owner => Leaves(l, m, i, n)
    BY <1>6, <2>1 DEF Leaves, Expulsions
  <2>3. author # Owner => Expels(l, m, i, n, author)
    BY <1>4, <1>6, <2>1 DEF Expels
  <2> QED BY <2>2, <2>3
<1>7. CASE kind = "profile"
  <2>1. n = ApplyProfile(l, m, i)
    BY <1>7 DEF ApplyOperation, Expulsions
  <2>2. n = m \/ (DOMAIN n.members = DOMAIN m.members /\ n.grants = m.grants
                  /\ n.admission = m.admission /\ n.accepted = m.accepted)
    BY <2>1 DEF ApplyProfile, Blank
  <2>3. Leaves(l, m, i, n)
    BY <1>7, <2>2 DEF Leaves, Expulsions
  <2> QED BY <2>3
<1>8. CASE kind \notin {"create", "admit", "leave", "profile"} /\ ~ (kind \in Expulsions /\ Authorized(l, i))
  <2> DEFINE Acts == author \in DOMAIN m.members /\ CouldAct(l, m, author, i) /\ Authorized(l, i)
  <2>1. n = IF Acts THEN ApplySetting(l, m, i) ELSE m
    BY <1>8 DEF ApplyOperation
  <2>2. CASE ~ Acts
    <3>1. n = m
      BY <2>1, <2>2
    <3>2. author = Owner => Owner \notin DOMAIN m.members
      BY <2>2, OwnerActs DEF Authorized
    <3>3. Leaves(l, m, i, n)
      <4> HIDE DEF n
      <4> QED BY <1>8, <3>1, <3>2 DEF Leaves
    <3> QED BY <3>3
  <2>3. CASE Acts /\ kind # "admin"
    <3>1. n = ApplySetting(l, m, i)
      BY <2>1, <2>3
    <3> HIDE DEF n
    <3>2. n.members = m.members /\ n.admission = m.admission
          /\ n.accepted = m.accepted /\ n.grants = m.grants
      BY <2>3, <3>1, SettingFields
    <3>3. Leaves(l, m, i, n)
      BY <1>8, <2>3, <3>2 DEF Leaves
    <3> QED BY <3>3
  <2>4. CASE Acts /\ kind = "admin"
    <3>1. n = ApplyRole(l, m, i)
      BY <2>1, <2>4 DEF ApplySetting
    <3>2. CASE author = Owner /\ data.peer \in DOMAIN m.members \ {Owner}
      <4>1. n = [m EXCEPT !.members[data.peer].admin = data.enabled,
                       !.grants = IF data.enabled THEN Insert(m.grants, data.peer, i)
                                  ELSE Without(m.grants, data.peer)]
        BY <3>1, <3>2 DEF ApplyRole
      <4> HIDE DEF n
      <4>2. /\ DOMAIN n.members = DOMAIN m.members
            /\ n.admission = m.admission /\ n.accepted = m.accepted
            /\ n.grants = IF data.enabled THEN Insert(m.grants, data.peer, i)
                          ELSE Without(m.grants, data.peer)
        BY <4>1 DEF Blank
      <4>3. Assigns(l, m, i, n, data.peer)
        BY <2>4, <3>2, <4>2 DEF Assigns, Without
      <4> QED BY <4>3
    <3>3. CASE ~ (author = Owner /\ data.peer \in DOMAIN m.members \ {Owner})
      <4>1. n = m
        BY <3>1, <3>3 DEF ApplyRole
      <4>2. Leaves(l, m, i, n)
        <5> HIDE DEF n
        <5> QED BY <1>8, <3>3, <4>1 DEF Leaves
      <4> QED BY <4>2
    <3> QED BY <3>2, <3>3
  <2> QED BY <2>2, <2>3, <2>4
<1> HIDE DEF Some
<1> QED
  BY <1>1, <1>2, <1>3, <1>5, <1>6, <1>7, <1>8

\* The loop changes nothing of what was gathered before it.
LEMMA GatheredLasts ==
  ASSUME NEW l, NEW m, DOMAIN m = DOMAIN Blank, NEW i
  PROVE  LET n == ApplyOperation(l, m, i)
         IN  /\ DOMAIN n = DOMAIN Blank
             /\ n.deleted = m.deleted /\ n.revoked = m.revoked /\ n.banned = m.banned
<1> DEFINE Same(n) == /\ DOMAIN n = DOMAIN Blank
                      /\ n.deleted = m.deleted /\ n.revoked = m.revoked /\ n.banned = m.banned
           n == ApplyOperation(l, m, i)
<1>1. Same(ApplyCreate(l, m, i))
  BY DEF ApplyCreate, Blank
<1>2. Same(ApplyAdmit(l, m, i))
  BY DEF ApplyAdmit, Blank
<1>3. \A q : Same(Expel(m, q))
  BY DEF Expel, Blank
<1>4. Same(ApplyExpulsion(l, m, i)) /\ Same(ApplyLeave(l, m, i))
  BY <1>3 DEF ApplyExpulsion, ApplyLeave
<1>5. Same(ApplyProfile(l, m, i))
  BY DEF ApplyProfile, Blank
<1>6. Same(ApplySetting(l, m, i))
  <2>1. CASE l[i].kind # "admin"
    BY <2>1, SettingFields
  <2>2. CASE l[i].kind = "admin"
    <3>1. ApplySetting(l, m, i) = ApplyRole(l, m, i)
      BY <2>2 DEF ApplySetting
    <3>2. Same(ApplyRole(l, m, i))
      BY DEF ApplyRole, Blank
    <3> HIDE DEF Same
    <3> QED BY <3>1, <3>2
  <2> QED BY <2>1, <2>2
<1>7. n \in {ApplyCreate(l, m, i), ApplyAdmit(l, m, i), ApplyExpulsion(l, m, i),
             ApplyLeave(l, m, i), ApplyProfile(l, m, i), ApplySetting(l, m, i), m}
  BY DEF ApplyOperation
<1>8. Same(n)
  <2> HIDE DEF Same, n
  <2>1. Same(m)
    BY DEF Same
  <2> QED
    BY <1>1, <1>2, <1>4, <1>5, <1>6, <1>7, <2>1
<1> QED
  BY <1>8

\* What has seen an operation comes after it in the order.
LEMMA SeenIsEarlier ==
  ASSUME NEW l, SoundLog(l), NEW x \in DOMAIN l, NEW i \in DOMAIN l, Precedes(x, i)
  PROVE  ~ Ancestor(l, i, x)
<1>1. x \in Nat \X Nat /\ i \in Nat \X Nat
  BY DEF SoundLog, Ids
<1>2. x # i
  BY <1>1 DEF Precedes
<1>3. i \in l[x].past => i[1] < x[1]
  BY DEF SoundLog, Clock
<1> QED
  BY <1>1, <1>2, <1>3 DEF Ancestor, Precedes

\* Once the operations of S are applied: whoever is a member was admitted after each
\* removal and departure of his, and a grant at hand is the last role of its holder.
MembersReturned(l, m, S) ==
    \A q \in DOMAIN m.members \ {Owner} :
        /\ q \in DOMAIN m.admission
        /\ \A x \in (Removals(l, q) \cup Departures(l, q)) \cap S : Ancestor(l, x, m.admission[q])

\* A grant at hand is the last role that the owner gave its holder.
GrantsAreLatest(l, m, S) ==
    /\ \A q \in DOMAIN m.grants :
          /\ m.grants[q] \in RolesOf(l, q) /\ l[m.grants[q]].data.enabled
          /\ \A r \in RolesOf(l, q) \cap S : r = m.grants[q] \/ Precedes(r, m.grants[q])
    /\ DOMAIN m.grants # {} => Owner \in DOMAIN m.members

\* What the loop keeps of the model, at every place of the order.
Settled(l, m, S) ==
    /\ Fits(l, m) /\ Entered(l, m)
    /\ MembersReturned(l, m, S) /\ GrantsAreLatest(l, m, S)
    /\ \A t \in m.accepted : \E j \in DOMAIN l : l[j].kind = "admit" /\ l[j].data = t

\* An operation that comes after those applied keeps the first part: only an admission
\* brings a member, and it has seen whatever was held against him.
LEMMA MembersReturn ==
  ASSUME NEW l, SoundLog(l), Meant(l), NEW m, NEW S \in SUBSET DOMAIN l, Settled(l, m, S),
         NEW i \in DOMAIN l, \A x \in S : Precedes(x, i)
  PROVE  MembersReturned(l, ApplyOperation(l, m, i), S \cup {i})
<1> DEFINE n == ApplyOperation(l, m, i)
<1>0. SUFFICES MembersReturned(l, n, S \cup {i})
  OBVIOUS
<1>1. /\ Founds(l, m, i, n) \/ Admits(l, m, i, n) \/ Leaves(l, m, i, n)
         \/ \E q : Expels(l, m, i, n, q) \/ Assigns(l, m, i, n, q)
  BY Effects DEF Settled, Fits
<1> HIDE DEF n
<1>2. \A q \in DOMAIN m.members \ {Owner} :
        /\ q \in DOMAIN m.admission
        /\ \A x \in (Removals(l, q) \cup Departures(l, q)) \cap S : Ancestor(l, x, m.admission[q])
  BY DEF Settled, MembersReturned
<1>3. \A q : i \in Removals(l, q) => l[i].kind \in Expulsions /\ Authorized(l, i) /\ l[i].data = q /\ q # Owner
  BY DEF Removals, Against
<1>4. \A q : i \in Departures(l, q) => l[i].kind = "leave" /\ l[i].author = q /\ q # Owner
  BY DEF Departures
<1>5. CASE Founds(l, m, i, n)
  <2>1. \A q : i \notin Removals(l, q) \cup Departures(l, q)
    BY <1>3, <1>4, <1>5 DEF Founds, Expulsions
  <2>2. \A q : q # Owner => (q \in DOMAIN n.members <=> q \in DOMAIN m.members)
    BY <1>5 DEF Founds
  <2>3. \A q \in DOMAIN m.admission : q # Owner => q \in DOMAIN n.admission /\ n.admission[q] = m.admission[q]
    BY <1>5 DEF Founds, Insert
  <2> QED
    BY <1>2, <2>1, <2>2, <2>3 DEF MembersReturned
<1>6. CASE Admits(l, m, i, n)
  <2> DEFINE p == l[i].data.peer
  <2>1. \A q : i \notin Removals(l, q) \cup Departures(l, q)
    BY <1>3, <1>4, <1>6 DEF Admits, Expulsions
  <2>2. /\ DOMAIN n.members = DOMAIN m.members \cup {p}
        /\ DOMAIN n.admission = DOMAIN m.admission \cup {p} /\ n.admission[p] = i
        /\ \A q \in DOMAIN m.admission : q # p => n.admission[q] = m.admission[q]
    BY <1>6 DEF Admits, Insert
  <2>3. \A x \in Removals(l, p) \cup Departures(l, p) : Ancestor(l, x, i) \/ Ancestor(l, i, x)
    BY <1>6 DEF Admits, Admissible
  <2>4. \A x \in S : ~ Ancestor(l, i, x)
    BY SeenIsEarlier
  <2> HIDE DEF p
  <2> QED
    BY <1>2, <2>1, <2>2, <2>3, <2>4 DEF MembersReturned
<1>7. CASE \E q : Expels(l, m, i, n, q)
  <2>1. PICK q : Expels(l, m, i, n, q)
    BY <1>7
  <2>2. \A p : i \in Removals(l, p) \cup Departures(l, p) => p = q
    BY <1>3, <1>4, <2>1 DEF Expels, Expulsions
  <2>3. DOMAIN n.members = DOMAIN m.members \ {q} /\ n.admission = m.admission
    BY <2>1 DEF Expels
  <2> QED
    BY <1>2, <2>2, <2>3 DEF MembersReturned
<1>8. CASE \E q : Assigns(l, m, i, n, q)
  <2>1. \A q : i \notin Removals(l, q) \cup Departures(l, q)
    BY <1>3, <1>4, <1>8 DEF Assigns, Expulsions
  <2>2. DOMAIN n.members = DOMAIN m.members /\ n.admission = m.admission
    BY <1>8 DEF Assigns
  <2> QED
    BY <1>2, <2>1, <2>2 DEF MembersReturned
<1>9. CASE Leaves(l, m, i, n)
  <2>1. \A q : i \notin Removals(l, q) \cup Departures(l, q)
    BY <1>3, <1>4, <1>9 DEF Leaves
  <2>2. DOMAIN n.members = DOMAIN m.members /\ n.admission = m.admission
    BY <1>9 DEF Leaves
  <2> QED
    BY <1>2, <2>1, <2>2 DEF MembersReturned
<1> QED
  BY <1>1, <1>5, <1>6, <1>7, <1>8, <1>9

\* It keeps the second: the owner's next role for a member replaces the grant at hand.
LEMMA GrantsFollowRoles ==
  ASSUME NEW l, SoundLog(l), Meant(l), NEW m, NEW S \in SUBSET DOMAIN l, Settled(l, m, S),
         NEW i \in DOMAIN l, \A x \in S : Precedes(x, i)
  PROVE  GrantsAreLatest(l, ApplyOperation(l, m, i), S \cup {i})
<1> DEFINE n == ApplyOperation(l, m, i)
<1>0. SUFFICES GrantsAreLatest(l, n, S \cup {i})
  OBVIOUS
<1>1. /\ Founds(l, m, i, n) \/ Admits(l, m, i, n) \/ Leaves(l, m, i, n)
         \/ \E q : Expels(l, m, i, n, q) \/ Assigns(l, m, i, n, q)
  BY Effects DEF Settled, Fits
<1> HIDE DEF n
<1>2. \A q \in DOMAIN m.grants :
          /\ m.grants[q] \in RolesOf(l, q) /\ l[m.grants[q]].data.enabled
          /\ \A r \in RolesOf(l, q) \cap S : r = m.grants[q] \/ Precedes(r, m.grants[q])
  BY DEF Settled, GrantsAreLatest
<1>3. /\ DOMAIN m.grants # {} => Owner \in DOMAIN m.members
      /\ DOMAIN m.grants \subseteq DOMAIN m.members \ {Owner}
  BY DEF Settled, GrantsAreLatest, Fits, RolesFit
<1>4. \A q : i \in RolesOf(l, q) => l[i].kind = "admin" /\ l[i].author = Owner /\ l[i].data.peer = q
  BY DEF RolesOf, Roles
<1>5. ASSUME n.grants = m.grants, Owner \in DOMAIN m.members => Owner \in DOMAIN n.members,
             \A q \in DOMAIN m.grants : i \notin RolesOf(l, q)
      PROVE  GrantsAreLatest(l, n, S \cup {i})
  BY <1>2, <1>3, <1>5 DEF GrantsAreLatest
<1>6. CASE Founds(l, m, i, n)
  BY <1>4, <1>5, <1>6 DEF Founds
<1>7. CASE Admits(l, m, i, n)
  BY <1>4, <1>5, <1>7 DEF Admits
<1>8. CASE \E q : Expels(l, m, i, n, q)
  <2>1. PICK q : Expels(l, m, i, n, q)
    BY <1>8
  <2>2. \A p : i \notin RolesOf(l, p)
    BY <1>4, <2>1 DEF Expels, Expulsions
  <2>3. DOMAIN n.members = DOMAIN m.members \ {q} /\ q # Owner
    BY <2>1 DEF Expels
  <2>4. /\ DOMAIN n.grants = DOMAIN m.grants \ {q}
        /\ \A p \in DOMAIN n.grants : n.grants[p] = m.grants[p]
    BY <2>1 DEF Expels, Restrict
  <2> QED
    BY <1>2, <1>3, <2>2, <2>3, <2>4 DEF GrantsAreLatest
<1>9. CASE \E q : Assigns(l, m, i, n, q)
  <2>1. PICK q : Assigns(l, m, i, n, q)
    BY <1>9
  <2>2. /\ l[i].kind = "admin" /\ l[i].author = Owner /\ l[i].data.peer = q
        /\ Owner \in DOMAIN m.members /\ DOMAIN n.members = DOMAIN m.members
    BY <2>1 DEF Assigns
  <2>3. i \in RolesOf(l, q) /\ \A p : i \in RolesOf(l, p) => p = q
    BY <1>4, <2>2 DEF RolesOf, Roles
  <2>4. CASE l[i].data.enabled
    <3>1. /\ DOMAIN n.grants = DOMAIN m.grants \cup {q} /\ n.grants[q] = i
          /\ \A p \in DOMAIN m.grants : p # q => n.grants[p] = m.grants[p]
      BY <2>1, <2>4 DEF Assigns, Insert
    <3> QED
      BY <1>2, <2>2, <2>3, <2>4, <3>1 DEF GrantsAreLatest
  <2>5. CASE ~ l[i].data.enabled
    <3>1. /\ DOMAIN n.grants = DOMAIN m.grants \ {q}
          /\ \A p \in DOMAIN n.grants : n.grants[p] = m.grants[p]
      BY <2>1, <2>5 DEF Assigns, Restrict
    <3> QED
      BY <1>2, <2>2, <2>3, <3>1 DEF GrantsAreLatest
  <2> QED
    BY <2>4, <2>5
<1>10. CASE Leaves(l, m, i, n)
  <2>1. \A q \in DOMAIN m.grants : i \notin RolesOf(l, q)
    BY <1>3, <1>4, <1>10 DEF Leaves
  <2> QED
    BY <1>5, <1>10, <2>1 DEF Leaves
<1> QED
  BY <1>1, <1>6, <1>7, <1>8, <1>9, <1>10

\* So it keeps all of it.
LEMMA Settles ==
  ASSUME NEW l, SoundLog(l), Meant(l), NEW m, NEW S \in SUBSET DOMAIN l, Settled(l, m, S),
         NEW i \in DOMAIN l, \A x \in S : Precedes(x, i)
  PROVE  Settled(l, ApplyOperation(l, m, i), S \cup {i})
<1> DEFINE n == ApplyOperation(l, m, i)
<1>1. /\ Founds(l, m, i, n) \/ Admits(l, m, i, n) \/ Leaves(l, m, i, n)
         \/ \E q : Expels(l, m, i, n, q) \/ Assigns(l, m, i, n, q)
  BY Effects DEF Settled, Fits
<1>2. Fits(l, n)
  BY ApplyFits DEF Settled
<1>3. MembersReturned(l, n, S \cup {i})
  BY MembersReturn
<1>4. GrantsAreLatest(l, n, S \cup {i})
  BY GrantsFollowRoles
<1> HIDE DEF n
<1>5. Entered(l, n)
  <2>0. \A q \in DOMAIN m.admission : m.admission[q] \in DOMAIN l
    BY DEF Settled, Entered
  <2>1. \/ n.admission = m.admission
        \/ \E q : n.admission = Insert(m.admission, q, i)
    BY <1>1 DEF Founds, Admits, Leaves, Expels, Assigns
  <2>2. CASE n.admission = m.admission
    BY <2>0, <2>2 DEF Entered
  <2>3. ASSUME NEW q, n.admission = Insert(m.admission, q, i) PROVE Entered(l, n)
    <3>1. /\ DOMAIN n.admission = DOMAIN m.admission \cup {q} /\ n.admission[q] = i
          /\ \A z \in DOMAIN m.admission : z # q => n.admission[z] = m.admission[z]
      BY <2>3 DEF Insert
    <3> QED
      BY <2>0, <3>1 DEF Entered
  <2> QED
    BY <2>1, <2>2, <2>3
<1>6. \A t \in n.accepted : \E j \in DOMAIN l : l[j].kind = "admit" /\ l[j].data = t
  BY <1>1 DEF Settled, Founds, Admits, Leaves, Expels, Assigns
<1> QED
  BY <1>2, <1>3, <1>4, <1>5, <1>6 DEF Settled, n

\* The first so many operations of a log.
Earliest(l, k) == {Ordered(l)[n] : n \in 1 .. k}

\* At every place of the loop.
LEMMA LoopSettles ==
  ASSUME NEW l, SoundLog(l), IsFiniteSet(DOMAIN l), Meant(l)
  PROVE  \A k \in 0 .. Cardinality(DOMAIN l) : Settled(l, Applied(l)[k], Earliest(l, k))
<1> DEFINE N == Cardinality(DOMAIN l)
           Ok(k) == Settled(l, Applied(l)[k], Earliest(l, k))
           T == {k \in 0 .. N : ~ Ok(k)}
<1>0. DOMAIN l \subseteq Ids
  BY DEF SoundLog
<1>1. N \in Nat /\ \A k \in 1 .. N : Ordered(l)[k] \in DOMAIN l
  BY <1>0, OrderedEnumerates
<1>2. /\ Applied(l)[0] = Gathered(l)
      /\ \A k \in 1 .. N : Applied(l)[k] = ApplyOperation(l, Applied(l)[k - 1], Ordered(l)[k])
  BY <1>1, AppliedSteps
<1>3. \A j, k \in 1 .. N : j < k => Precedes(Ordered(l)[j], Ordered(l)[k])
  BY <1>0, OrderFacts
<1> HIDE DEF N
<1>4. Ok(0)
  <2>1. Fits(l, Gathered(l))
    BY GatheredFits
  <2>2. /\ Gathered(l).members = <<>> /\ Gathered(l).admission = <<>>
        /\ Gathered(l).grants = <<>> /\ Gathered(l).accepted = {}
    BY DEF Gathered, Blank
  <2>3. Settled(l, Gathered(l), Earliest(l, 0))
    BY <2>1, <2>2 DEF Settled, Entered, MembersReturned, GrantsAreLatest
  <2> QED
    BY <1>2, <2>3
<1>5. ASSUME NEW k \in 1 .. N, Ok(k - 1) PROVE Ok(k)
  <2> DEFINE i == Ordered(l)[k]
             S == Earliest(l, k - 1)
  <2>1. S \in SUBSET DOMAIN l /\ i \in DOMAIN l
    BY <1>1 DEF Earliest
  <2>2. \A x \in S : Precedes(x, i)
    BY <1>1, <1>3 DEF Earliest
  <2>3. Earliest(l, k) = S \cup {i}
    BY <1>1 DEF Earliest
  <2>4. Settled(l, ApplyOperation(l, Applied(l)[k - 1], i), S \cup {i})
    <3> HIDE DEF i, S
    <3>1. Settled(l, Applied(l)[k - 1], S)
      BY <1>5 DEF S
    <3> QED
      BY <2>1, <2>2, <3>1, Settles
  <2> QED
    BY <1>2, <2>3, <2>4
<1> HIDE DEF Ok
<1>6. ASSUME T # {} PROVE FALSE
  <2>1. T \in SUBSET Nat
    BY <1>1
  <2>2. PICK k \in T : \A j \in T : k <= j
    <3> HIDE DEF T
    <3> QED BY <1>6, <2>1, LeastNumber
  <2>3. k # 0
    BY <1>4, <2>2
  <2>4. k \in 1 .. N /\ k - 1 \in 0 .. N /\ ~ (k <= k - 1)
    BY <1>1, <2>3
  <2>5. Ok(k - 1)
    BY <2>2, <2>4
  <2> QED
    BY <1>5, <2>2, <2>4, <2>5
<1>7. \A k \in 0 .. N : Ok(k)
  BY <1>6
<1> QED
  BY <1>7 DEF Ok, N

\* The first operations, all of them, are the log.
LEMMA EarliestAreAll ==
  ASSUME NEW l, DOMAIN l \subseteq Ids, IsFiniteSet(DOMAIN l)
  PROVE  Earliest(l, Cardinality(DOMAIN l)) = DOMAIN l
<1>1. /\ \A n \in 1 .. Cardinality(DOMAIN l) : Ordered(l)[n] \in DOMAIN l
      /\ \A i \in DOMAIN l : \E n \in 1 .. Cardinality(DOMAIN l) : Ordered(l)[n] = i
  BY OrderFacts
<1> QED
  BY <1>1 DEF Earliest

\* What is gathered before the loop is there after it.
LEMMA LoopKeepsGathered ==
  ASSUME NEW l, SoundLog(l), IsFiniteSet(DOMAIN l)
  PROVE  \A k \in 0 .. Cardinality(DOMAIN l) :
            /\ DOMAIN Applied(l)[k] = DOMAIN Blank
            /\ Applied(l)[k].deleted = Gathered(l).deleted
            /\ Applied(l)[k].revoked = Gathered(l).revoked
            /\ Applied(l)[k].banned = Gathered(l).banned
<1> DEFINE N == Cardinality(DOMAIN l)
           Ok(k) == /\ DOMAIN Applied(l)[k] = DOMAIN Blank
                    /\ Applied(l)[k].deleted = Gathered(l).deleted
                    /\ Applied(l)[k].revoked = Gathered(l).revoked
                    /\ Applied(l)[k].banned = Gathered(l).banned
           T == {k \in 0 .. N : ~ Ok(k)}
<1>1. N \in Nat
  BY OrderedEnumerates DEF SoundLog
<1>2. /\ Applied(l)[0] = Gathered(l)
      /\ \A k \in 1 .. N : Applied(l)[k] = ApplyOperation(l, Applied(l)[k - 1], Ordered(l)[k])
  BY <1>1, AppliedSteps
<1> HIDE DEF N
<1>3. Ok(0)
  BY <1>2 DEF Gathered, Blank
<1>4. ASSUME NEW k \in 1 .. N, Ok(k - 1) PROVE Ok(k)
  <2> DEFINE m == Applied(l)[k - 1]
             n == ApplyOperation(l, m, Ordered(l)[k])
  <2>1. DOMAIN m = DOMAIN Blank
    BY <1>4
  <2>2. /\ DOMAIN n = DOMAIN Blank
        /\ n.deleted = m.deleted /\ n.revoked = m.revoked /\ n.banned = m.banned
    <3> HIDE DEF m
    <3> QED BY <2>1, GatheredLasts
  <2>3. Applied(l)[k] = n
    BY <1>2
  <2> HIDE DEF n
  <2> QED
    BY <1>4, <2>2, <2>3
<1> HIDE DEF Ok
<1>5. ASSUME T # {} PROVE FALSE
  <2>1. T \in SUBSET Nat
    BY <1>1
  <2>2. PICK k \in T : \A j \in T : k <= j
    <3> HIDE DEF T
    <3> QED BY <1>5, <2>1, LeastNumber
  <2>3. k # 0
    BY <1>3, <2>2
  <2>4. k \in 1 .. N /\ k - 1 \in 0 .. N /\ ~ (k <= k - 1)
    BY <1>1, <2>3
  <2>5. Ok(k - 1)
    BY <2>2, <2>4
  <2> QED
    BY <1>4, <2>2, <2>4, <2>5
<1>6. \A k \in 0 .. N : Ok(k)
  BY <1>5
<1> QED
  BY <1>6 DEF Ok, N

\* The passes after the loop drop nobody: whoever is a member then was admitted after
\* whatever was held against him.
LEMMA NobodyIsDropped ==
  ASSUME NEW l, SoundLog(l), IsFiniteSet(DOMAIN l), Meant(l)
  PROVE  LET m == Applied(l)[Cardinality(DOMAIN l)]
         IN  /\ Settled(l, m, DOMAIN l)
             /\ \A q \in DOMAIN m.members : q \notin Dropped(l, m)
<1> DEFINE N == Cardinality(DOMAIN l)
           m == Applied(l)[N]
<1>0. DOMAIN l \subseteq Ids
  BY DEF SoundLog
<1>1. N \in Nat
  BY <1>0, OrderedEnumerates
<1>2. Settled(l, m, DOMAIN l)
  <2>1. N \in 0 .. N
    BY <1>1
  <2>2. Settled(l, m, Earliest(l, N))
    BY <2>1, LoopSettles
  <2>3. Earliest(l, N) = DOMAIN l
    BY <1>0, EarliestAreAll
  <2> QED
    BY <2>2, <2>3
<1>3. Derived(l, m)
  BY <1>0, AppliedDerived
<1>4. m.banned = Banned(l)
  <2>1. N \in 0 .. N
    BY <1>1
  <2>2. m.banned = Gathered(l).banned
    BY <2>1, LoopKeepsGathered
  <2>3. Gathered(l).banned = Banned(l)
    BY DEF Gathered, Blank
  <2> QED
    BY <2>2, <2>3
<1> HIDE DEF m, N
<1>5. ASSUME NEW q \in DOMAIN m.members PROVE q \notin Dropped(l, m)
  <2>1. CASE q = Owner
    <3>1. Bans(l, q) = {} /\ Removals(l, q) \cup Departures(l, q) = {}
      BY <2>1 DEF Bans, Removals, Departures
    <3> QED
      BY <1>4, <3>1 DEF Dropped, Banned
  <2>2. CASE q # Owner
    <3> DEFINE a == m.admission[q]
    <3>1. /\ q \in DOMAIN m.admission /\ AdmittedAfter(l, a, q)
          /\ \A x \in Removals(l, q) \cup Departures(l, q) : Ancestor(l, x, a)
      <4>1. \A x \in Removals(l, q) \cup Departures(l, q) : x \in DOMAIN l
        BY <2>2 DEF Removals, Departures, Against
      <4> QED
        BY <1>2, <1>3, <1>5, <2>2, <4>1 DEF Settled, MembersReturned, Derived
    <3>2. AdmissionOf(m, q) = a
      BY <3>1 DEF AdmissionOf
    <3> HIDE DEF a
    <3>3. \A b \in Bans(l, q) : ClearedBy(l, b, q) # {}
      <4> SUFFICES ASSUME NEW b \in Bans(l, q) PROVE ClearedBy(l, b, q) # {}
        OBVIOUS
      <4>1. b \in Removals(l, q) /\ b \in DOMAIN l /\ l[b].kind = "kick"
        BY <2>2 DEF Bans, Removals, Against, Expulsions
      <4>2. a \in DOMAIN l /\ l[a].kind = "admit"
        BY <3>1 DEF AdmittedAfter
      <4>3. a # b /\ Ancestor(l, b, a)
        BY <3>1, <4>1, <4>2
      <4>4. b \in l[a].past
        BY <4>3 DEF Ancestor
      <4>5. ~ Ancestor(l, a, b)
        <5>1. Clock(b) < Clock(a) /\ a \in Nat \X Nat /\ b \in Nat \X Nat
          BY <1>0, <4>1, <4>2, <4>4 DEF SoundLog, Ids
        <5>2. a \in l[b].past => Clock(a) < Clock(b)
          BY <4>1 DEF SoundLog
        <5> QED
          BY <4>3, <5>1, <5>2 DEF Ancestor, Clock
      <4> QED
        BY <3>1, <4>5 DEF AdmittedAfter
    <3> QED
      BY <1>4, <3>1, <3>2, <3>3 DEF Dropped, Banned
  <2> QED
    BY <2>1, <2>2
<1> QED
  BY <1>2, <1>5 DEF m, N

\* Two models that show the same.
Same(r, m) ==
    /\ r.members = m.members /\ r.name = m.name /\ r.channels = m.channels
    /\ r.priority = m.priority /\ r.invites = m.invites
    /\ DOMAIN r.grants = DOMAIN m.grants /\ \A q \in DOMAIN m.grants : r.grants[q] = m.grants[q]

\* So rebuild shows what its loop has made.
LEMMA RebuiltIsApplied ==
  ASSUME NEW l, SoundLog(l), IsFiniteSet(DOMAIN l), Meant(l)
  PROVE  /\ Same(Rebuild(l), Applied(l)[Cardinality(DOMAIN l)])
         /\ Rebuild(l).deleted = Gathered(l).deleted
         /\ Rebuild(l).revoked = Gathered(l).revoked
         /\ Rebuild(l).banned = Gathered(l).banned
<1> DEFINE N == Cardinality(DOMAIN l)
           m == Applied(l)[N]
           gone == Dropped(l, m)
<1>1. N \in 0 .. N
  <2>1. N \in Nat
    BY OrderedEnumerates DEF SoundLog
  <2> QED BY <2>1
<1>2. /\ DOMAIN m = DOMAIN Blank /\ m.deleted = Gathered(l).deleted
      /\ m.revoked = Gathered(l).revoked /\ m.banned = Gathered(l).banned
  BY <1>1, LoopKeepsGathered
<1>3. Settled(l, m, DOMAIN l) /\ \A q \in DOMAIN m.members : q \notin gone
  BY NobodyIsDropped
<1>4. Rebuild(l) = [m EXCEPT !.members = Restrict(m.members, DOMAIN m.members \ gone),
                             !.grants = Restrict(m.grants, DOMAIN m.grants \ gone)]
  BY DEF Rebuild
<1> HIDE DEF m, gone
<1>5. /\ m.members \in [DOMAIN m.members -> [admin : BOOLEAN, profile : Names]]
      /\ DOMAIN m.grants \subseteq DOMAIN m.members
  BY <1>3 DEF Settled, Fits, RolesFit
<1>6. Restrict(m.members, DOMAIN m.members \ gone) = m.members
  <2>1. DOMAIN m.members \ gone = DOMAIN m.members
    BY <1>3
  <2> QED
    BY <1>5, <2>1 DEF Restrict
<1>7. /\ DOMAIN Restrict(m.grants, DOMAIN m.grants \ gone) = DOMAIN m.grants
      /\ \A q \in DOMAIN m.grants : Restrict(m.grants, DOMAIN m.grants \ gone)[q] = m.grants[q]
  <2>1. DOMAIN m.grants \ gone = DOMAIN m.grants
    BY <1>3, <1>5
  <2> QED
    BY <2>1 DEF Restrict
<1>8. PICK kept : kept = Restrict(m.grants, DOMAIN m.grants \ gone)
  OBVIOUS
<1>9. Rebuild(l) = [m EXCEPT !.members = m.members, !.grants = kept]
  BY <1>4, <1>6, <1>8
<1>10. Same(Rebuild(l), m)
  BY <1>2, <1>7, <1>8, <1>9 DEF Same, Blank
<1>11. /\ Rebuild(l).deleted = m.deleted /\ Rebuild(l).revoked = m.revoked
       /\ Rebuild(l).banned = m.banned
  BY <1>2, <1>9 DEF Blank
<1> QED
  BY <1>2, <1>10, <1>11 DEF m, N

\* The new operation comes last in the order.
LEMMA GrownOrder ==
  ASSUME NEW l, NEW next, NEW id, Grown(l, next, id)
  PROVE  /\ Cardinality(DOMAIN next) = Cardinality(DOMAIN l) + 1
         /\ \A n \in 1 .. Cardinality(DOMAIN l) : Ordered(next)[n] = Ordered(l)[n]
         /\ Ordered(next)[Cardinality(DOMAIN l) + 1] = id
<1> DEFINE N == Cardinality(DOMAIN l)
<1>1. /\ DOMAIN l \subseteq Ids /\ IsFiniteSet(DOMAIN l) /\ id \notin DOMAIN l
      /\ DOMAIN next \subseteq Ids /\ IsFiniteSet(DOMAIN next)
      /\ DOMAIN next = DOMAIN l \cup {id} /\ next[id].past = DOMAIN l
      /\ SoundLog(next)
  BY DEF Grown, SoundLog
<1>2. N \in Nat
  BY <1>1, OrderedEnumerates
<1>3. Cardinality(DOMAIN next) = N + 1
  BY <1>1, FS_AddElement
<1>4. \A j \in DOMAIN l : Precedes(j, id) /\ ~ Precedes(id, j)
  <2> SUFFICES ASSUME NEW j \in DOMAIN l PROVE Precedes(j, id) /\ ~ Precedes(id, j)
    OBVIOUS
  <2>1. Clock(j) < Clock(id)
    BY <1>1 DEF SoundLog
  <2>2. j \in Nat \X Nat /\ id \in Nat \X Nat
    BY <1>1 DEF Ids
  <2> QED
    BY <2>1, <2>2 DEF Precedes, Clock
<1>5. ~ Precedes(id, id)
  BY <1>1, PrecedesOrders
<1>6. \A i \in DOMAIN l : Rank(next, i) = Rank(l, i)
  <2> SUFFICES ASSUME NEW i \in DOMAIN l PROVE Rank(next, i) = Rank(l, i)
    OBVIOUS
  <2>1. {j \in DOMAIN next : Precedes(j, i)} = {j \in DOMAIN l : Precedes(j, i)}
    BY <1>1, <1>4
  <2> QED
    BY <2>1 DEF Rank
<1>7. Rank(next, id) = N
  <2>1. {j \in DOMAIN next : Precedes(j, id)} = DOMAIN l
    BY <1>1, <1>4, <1>5
  <2> QED
    BY <2>1 DEF Rank
<1> HIDE DEF N
<1>8. \A n \in 1 .. N + 1 : Ordered(next)[n] \in DOMAIN next /\ Rank(next, Ordered(next)[n]) = n - 1
  BY <1>1, <1>3, OrderFacts
<1>9. \A n \in 1 .. N : Ordered(l)[n] \in DOMAIN l /\ Rank(l, Ordered(l)[n]) = n - 1
  BY <1>1, OrderFacts DEF N
<1>10. \A i, j \in DOMAIN next : Rank(next, i) = Rank(next, j) => i = j
  BY <1>1, Ranks
<1>11. \A n \in 1 .. N : Ordered(next)[n] = Ordered(l)[n]
  <2> SUFFICES ASSUME NEW n \in 1 .. N PROVE Ordered(next)[n] = Ordered(l)[n]
    OBVIOUS
  <2>1. n \in 1 .. N + 1
    BY <1>2
  <2>2. Ordered(next)[n] \in DOMAIN next /\ Rank(next, Ordered(next)[n]) = n - 1
    BY <1>8, <2>1
  <2>3. Ordered(l)[n] \in DOMAIN next /\ Rank(next, Ordered(l)[n]) = n - 1
    BY <1>1, <1>6, <1>9
  <2> QED
    BY <1>10, <2>2, <2>3
<1>12. Ordered(next)[N + 1] = id
  <2>1. N + 1 \in 1 .. N + 1 /\ (N + 1) - 1 = N
    BY <1>2
  <2>2. Ordered(next)[N + 1] \in DOMAIN next /\ Rank(next, Ordered(next)[N + 1]) = N
    BY <1>8, <2>1
  <2> QED
    BY <1>1, <1>7, <1>10, <2>2
<1> QED
  BY <1>3, <1>11, <1>12 DEF N

\* Up to there the loop makes of the longer log what it made of the other.
LEMMA GrownLoop ==
  ASSUME NEW l, NEW next, NEW id, Grown(l, next, id)
  PROVE  \A k \in 0 .. Cardinality(DOMAIN l) : Alike(Applied(l)[k], Applied(next)[k])
<1> DEFINE N == Cardinality(DOMAIN l)
           Ok(k) == Alike(Applied(l)[k], Applied(next)[k])
           T == {k \in 0 .. N : ~ Ok(k)}
<1>1. /\ SoundLog(l) /\ DOMAIN l \subseteq Ids /\ IsFiniteSet(DOMAIN l) /\ Meant(l)
      /\ DOMAIN next \subseteq Ids /\ IsFiniteSet(DOMAIN next)
  BY DEF Grown, SoundLog
<1>2. N \in Nat /\ \A k \in 1 .. N : Ordered(l)[k] \in DOMAIN l
  BY <1>1, OrderedEnumerates
<1>3. Cardinality(DOMAIN next) = N + 1 /\ \A k \in 1 .. N : Ordered(next)[k] = Ordered(l)[k]
  BY GrownOrder
<1>4. /\ Applied(l)[0] = Gathered(l)
      /\ \A k \in 1 .. N : Applied(l)[k] = ApplyOperation(l, Applied(l)[k - 1], Ordered(l)[k])
  BY <1>2, AppliedSteps
<1>5. /\ Applied(next)[0] = Gathered(next)
      /\ \A k \in 1 .. N + 1 :
            Applied(next)[k] = ApplyOperation(next, Applied(next)[k - 1], Ordered(next)[k])
  <2>1. Cardinality(DOMAIN next) \in Nat
    BY <1>2, <1>3
  <2> QED
    BY <1>3, <2>1, AppliedSteps
<1>6. \A k \in 0 .. N : Settled(l, Applied(l)[k], Earliest(l, k))
  BY <1>1, LoopSettles
<1> HIDE DEF N
<1>7. Ok(0)
  BY <1>4, <1>5 DEF Alike, Gathered, Blank
<1>8. ASSUME NEW k \in 1 .. N, Ok(k - 1) PROVE Ok(k)
  <2> DEFINE i == Ordered(l)[k]
             m == Applied(l)[k - 1]
             n == Applied(next)[k - 1]
  <2>1. k - 1 \in 0 .. N /\ k \in 1 .. N + 1 /\ i \in DOMAIN l
    BY <1>2
  <2>2. Entered(l, m)
    BY <1>6, <2>1 DEF Settled
  <2>3. Alike(ApplyOperation(l, m, i), ApplyOperation(next, n, i))
    <3>1. Alike(m, n)
      BY <1>8
    <3> HIDE DEF i, m, n
    <3> QED
      BY <2>1, <2>2, <3>1, ApplyAlike
  <2>4. Applied(l)[k] = ApplyOperation(l, m, i) /\ Applied(next)[k] = ApplyOperation(next, n, i)
    BY <1>3, <1>4, <1>5, <2>1
  <2> QED
    BY <2>3, <2>4
<1> HIDE DEF Ok
<1>9. ASSUME T # {} PROVE FALSE
  <2>1. T \in SUBSET Nat
    BY <1>2
  <2>2. PICK k \in T : \A j \in T : k <= j
    <3> HIDE DEF T
    <3> QED BY <1>9, <2>1, LeastNumber
  <2>3. k # 0
    BY <1>7, <2>2
  <2>4. k \in 1 .. N /\ k - 1 \in 0 .. N /\ ~ (k <= k - 1)
    BY <1>2, <2>3
  <2>5. Ok(k - 1)
    BY <2>2, <2>4
  <2> QED
    BY <1>8, <2>2, <2>4, <2>5
<1>10. \A k \in 0 .. N : Ok(k)
  BY <1>9
<1> QED
  BY <1>10 DEF Ok, N

\* So the model of the longer log is that of the other with the operation applied.
LEMMA GrownModel ==
  ASSUME NEW l, NEW next, NEW id, Grown(l, next, id)
  PROVE  \E m, n :
            /\ Settled(l, m, DOMAIN l) /\ Same(Rebuild(l), m)
            /\ Alike(m, n) /\ Fits(next, n)
            /\ Same(Rebuild(next), ApplyOperation(next, n, id))
<1> DEFINE N == Cardinality(DOMAIN l)
           m == Applied(l)[N]
           n == Applied(next)[N]
<1>1. /\ SoundLog(l) /\ DOMAIN l \subseteq Ids /\ IsFiniteSet(DOMAIN l) /\ Meant(l)
      /\ SoundLog(next) /\ DOMAIN next \subseteq Ids /\ IsFiniteSet(DOMAIN next) /\ Meant(next)
  BY DEF Grown, SoundLog
<1>2. N \in Nat
  BY <1>1, OrderedEnumerates
<1>3. Cardinality(DOMAIN next) = N + 1 /\ Ordered(next)[N + 1] = id
  BY GrownOrder
<1>4. Settled(l, m, DOMAIN l) /\ Same(Rebuild(l), m)
  BY <1>1, NobodyIsDropped, RebuiltIsApplied
<1>5. N \in 0 .. N /\ N \in 0 .. N + 1 /\ N + 1 \in 1 .. N + 1 /\ (N + 1) - 1 = N /\ N + 1 \in Nat
  BY <1>2
<1>6. Alike(m, n)
  BY <1>5, GrownLoop
<1>7. Fits(next, n)
  <2>1. \A k \in 0 .. Cardinality(DOMAIN next) : Settled(next, Applied(next)[k], Earliest(next, k))
    BY <1>1, LoopSettles
  <2> QED
    BY <1>3, <1>5, <2>1 DEF Settled
<1>8. Applied(next)[N + 1] = ApplyOperation(next, n, id)
  <2>1. \A k \in 1 .. Cardinality(DOMAIN next) :
            Applied(next)[k] = ApplyOperation(next, Applied(next)[k - 1], Ordered(next)[k])
    BY <1>3, <1>5, AppliedSteps
  <2> QED
    BY <1>3, <1>5, <2>1
<1>9. Same(Rebuild(next), Applied(next)[N + 1])
  BY <1>1, <1>3, RebuiltIsApplied
<1> HIDE DEF m, n
<1> QED
  BY <1>4, <1>6, <1>7, <1>8, <1>9

\* The longer log is what a device makes of its own by an edit or an admission.
Made(l, next, id, p, kind, data) ==
    /\ Grown(l, next, id) /\ DOMAIN l # {}
    /\ p \in Peers /\ kind \in Kinds \ {"create"} /\ MeantData(kind, data)
    /\ next[id].author = p /\ next[id].kind = kind /\ next[id].data = data
    /\ next[id].authority = IF p # Owner /\ p \in DOMAIN Rebuild(l).grants
                            THEN Rebuild(l).grants[p] ELSE NoOp
    /\ \A i, j \in DOMAIN l : l[i].author = l[j].author => Ancestor(l, i, j) \/ Ancestor(l, j, i)

\* What the device checked before: the checks of change(), or those of admit().
Asked(l, p, kind, data) ==
    \/ kind # "admit" /\ MayChange(Rebuild(l), p, kind, data)
    \/ /\ kind = "admit" /\ AcceptsIntent(l, Rebuild(l), p, data)
       /\ ~ IsMember(Rebuild(l), data.peer)

\* How the model changes by an edit.
Edited(r, f, p, kind, data) ==
    /\ kind = "admit" =>
          f.members = Insert(r.members, data.peer, [admin |-> FALSE, profile |-> FirstName])
    /\ kind \in Expulsions => f.members = Without(r.members, data)
    /\ kind = "leave" => f.members = Without(r.members, p)
    /\ kind = "profile" => f.members = [r.members EXCEPT ![p].profile = data]
    /\ kind = "admin" => f.members = [r.members EXCEPT ![data.peer].admin = data.enabled]
    /\ kind \notin Expulsions \cup {"admit", "leave", "profile", "admin"} => f.members = r.members
    /\ f.name = IF kind = "rename" THEN data ELSE r.name
    /\ kind = "channel" =>
          f.channels = IF \/ data.id \in DOMAIN r.channels
                          \/ Cardinality(DOMAIN r.channels) < MaxChannels
                       THEN Insert(r.channels, data.id, data.name) ELSE r.channels
    /\ kind = "delete-channel" => f.channels = Without(r.channels, data)
    /\ kind \notin {"channel", "delete-channel"} => f.channels = r.channels
    /\ f.priority = IF kind = "priority" THEN KeptOf(data, DOMAIN r.members) ELSE r.priority
    /\ f.invites = IF kind = "invite" THEN r.invites \cup {data} ELSE r.invites

\* A member may do at the end of the log whatever he may do.
LEMMA MemberActs ==
  ASSUME NEW l, NEW next, NEW id, NEW p, NEW kind, NEW data, Made(l, next, id, p, kind, data),
         NEW m, Settled(l, m, DOMAIN l), NEW n, Alike(m, n), p \in DOMAIN m.members
  PROVE  CouldAct(next, n, p, id)
<1>1. Grown(l, next, id)
  BY DEF Made
<1>2. CASE p = Owner
  BY <1>2, OwnerActs
<1>3. CASE p # Owner
  <2> DEFINE a == m.admission[p]
  <2>1. /\ p \in DOMAIN m.admission /\ a \in DOMAIN l
        /\ \A x \in (Removals(l, p) \cup Departures(l, p)) \cap DOMAIN l : Ancestor(l, x, a)
    BY <1>3 DEF Settled, MembersReturned, Entered
  <2>2. AdmissionOf(n, p) = a
    BY <2>1 DEF AdmissionOf, Alike
  <2> HIDE DEF a
  <2>3. /\ \A i, b : i # id => (Ancestor(next, b, i) <=> Ancestor(l, b, i))
        /\ \A b \in DOMAIN next : Ancestor(next, b, id)
    BY <1>1, GrownAncestors
  <2>4. DOMAIN next = DOMAIN l \cup {id} /\ id \notin DOMAIN l
    BY <1>1 DEF Grown
  <2>5. Removals(next, p) \ {id} = Removals(l, p) /\ Departures(next, p) \ {id} = Departures(l, p)
    BY <1>1, GrownAgainst
  <2>6. ASSUME NEW x \in Removals(next, p) \cup Departures(next, p)
        PROVE  \/ Ancestor(next, id, x)
               \/ Ancestor(next, x, a) /\ Ancestor(next, a, id)
    <3>1. CASE x = id
      BY <2>3, <2>4, <3>1
    <3>2. CASE x # id
      <4>1. x \in Removals(l, p) \cup Departures(l, p)
        BY <2>5, <2>6, <3>2
      <4>2. x \in DOMAIN l
        BY <1>3, <4>1 DEF Removals, Departures, Against
      <4>3. Ancestor(l, x, a)
        BY <2>1, <4>1, <4>2
      <4>4. a # id /\ a \in DOMAIN next
        BY <2>1, <2>4
      <4> QED
        BY <2>3, <4>3, <4>4
    <3> QED
      BY <3>1, <3>2
  <2> QED
    BY <2>2, <2>6 DEF CouldAct
<1> QED
  BY <1>2, <1>3

\* An admin's grant at hand is the last the owner gave him: his edit is authorized.
LEMMA AdminIsAuthorized ==
  ASSUME NEW l, NEW next, NEW id, NEW p, NEW kind, NEW data, Made(l, next, id, p, kind, data),
         NEW m, Settled(l, m, DOMAIN l), Same(Rebuild(l), m), CanAdmin(Rebuild(l), p)
  PROVE  Authorized(next, id)
<1>1. Grown(l, next, id) /\ next[id].author = p
  BY DEF Made
<1>2. CASE p = Owner
  BY <1>1, <1>2 DEF Authorized
<1>3. CASE p # Owner
  <2> DEFINE g == m.grants[p]
  <2>1. p \in DOMAIN m.members /\ m.members[p].admin
    BY <1>3 DEF CanAdmin, IsMember, Same
  <2>2. p \in DOMAIN m.grants
    BY <1>3, <2>1 DEF Settled, Fits, RolesFit
  <2>3. /\ g \in RolesOf(l, p) /\ l[g].data.enabled
        /\ \A r \in RolesOf(l, p) \cap DOMAIN l : r = g \/ Precedes(r, g)
    BY <2>2 DEF Settled, GrantsAreLatest
  <2>4. next[id].authority = g
    BY <1>3, <2>2 DEF Made, Same
  <2> HIDE DEF g
  <2>5. /\ DOMAIN next = DOMAIN l \cup {id} /\ id \notin DOMAIN l /\ SoundLog(l)
        /\ \A i \in DOMAIN l : next[i] = l[i]
    BY <1>1 DEF Grown
  <2>6. g \in DOMAIN l /\ g \in RolesOf(next, p) /\ next[g].data.enabled
    BY <2>3, <2>5 DEF RolesOf
  <2>7. /\ \A i, b : i # id => (Ancestor(next, b, i) <=> Ancestor(l, b, i))
        /\ \A b \in DOMAIN next : Ancestor(next, b, id)
    BY <1>1, GrownAncestors
  <2>8. Ancestor(next, g, id)
    BY <2>5, <2>6, <2>7
  <2>9. ASSUME NEW r \in RolesOf(next, p) \ {g} PROVE Ancestor(next, r, g)
    <3>1. r \in DOMAIN next /\ next[r].author = Owner
      BY DEF RolesOf
    <3>2. r # id
      BY <1>1, <1>3, <3>1
    <3>3. r \in DOMAIN l /\ r \in RolesOf(l, p)
      BY <2>5, <3>1, <3>2 DEF RolesOf
    <3>4. Precedes(r, g)
      BY <2>3, <3>3
    <3>5. ~ Ancestor(l, g, r)
      BY <2>5, <2>6, <3>3, <3>4, SeenIsEarlier
    <3>6. l[r].author = l[g].author
      BY <2>3, <3>3 DEF RolesOf
    <3>7. Ancestor(l, r, g)
      BY <2>6, <3>3, <3>5, <3>6 DEF Made
    <3> QED
      BY <2>5, <2>6, <2>7, <3>7
  <2> QED
    BY <1>1, <2>4, <2>6, <2>8, <2>9 DEF Authorized
<1> QED
  BY <1>2, <1>3

\* An intent that the host accepts is admitted at the end of the log.
LEMMA AcceptedIsAdmissible ==
  ASSUME NEW l, NEW next, NEW id, NEW p, NEW data, Made(l, next, id, p, "admit", data),
         Asked(l, p, "admit", data),
         NEW m, Settled(l, m, DOMAIN l), Same(Rebuild(l), m), NEW n, Alike(m, n)
  PROVE  Admissible(next, n, id)
<1> DEFINE q == data.peer
           c == data.invite
<1>1. /\ Grown(l, next, id) /\ next[id].author = p /\ next[id].kind = "admit"
      /\ next[id].data = data /\ data \in Intent
  BY DEF Made, MeantData
<1>2. /\ SoundLog(l) /\ IsFiniteSet(DOMAIN l) /\ Meant(l) /\ id \notin DOMAIN l
      /\ DOMAIN next = DOMAIN l \cup {id}
  BY <1>1 DEF Grown
<1>3. /\ AcceptsIntent(l, Rebuild(l), p, data) /\ ~ IsMember(Rebuild(l), q)
  BY DEF Asked
<1>4. n.members = m.members /\ n.accepted = m.accepted /\ n.invites = m.invites
  BY DEF Alike
<1>5. Rebuild(l).members = m.members /\ Rebuild(l).invites = m.invites
  BY DEF Same
<1>6. Rebuild(l).revoked = Gathered(l).revoked /\ Rebuild(l).banned = Gathered(l).banned
  BY <1>2, RebuiltIsApplied
<1>7. q \in Peers \ {Owner} /\ c \in Codes /\ data.host = p
  BY <1>1, <1>3 DEF Intent, AcceptsIntent
<1>8. p \in DOMAIN m.members /\ q \notin DOMAIN m.members
  BY <1>3, <1>5 DEF AcceptsIntent, IsMember
<1>9. c \in m.invites /\ Cardinality(DOMAIN m.members) < MaxMembers
  BY <1>3, <1>5 DEF AcceptsIntent
<1>10. \A b \in Bans(l, q) : ClearedBy(l, b, q) # {}
  <2>1. q \notin Banned(l)
    BY <1>3, <1>6 DEF AcceptsIntent, Gathered, Blank
  <2> QED
    BY <1>7, <2>1 DEF Banned
<1>11. Revocations(l, c) = {}
  <2>1. c \notin {x \in Codes : Revocations(l, x) # {}}
    BY <1>3, <1>6 DEF AcceptsIntent, Gathered, Blank
  <2> QED
    BY <1>7, <2>1
<1>12. data \notin m.accepted
  <2>1. Replays(l, data) = {}
    BY <1>3 DEF AcceptsIntent
  <2>2. \A t \in m.accepted : \E j \in DOMAIN l : l[j].kind = "admit" /\ l[j].data = t
    BY DEF Settled
  <2> QED
    BY <2>1, <2>2 DEF Replays
<1>13. CouldAct(next, n, p, id)
  BY <1>8, MemberActs
<1>14. \A b \in DOMAIN next : Ancestor(next, b, id)
  BY <1>1, GrownAncestors
<1>15. /\ Removals(next, q) \subseteq DOMAIN next /\ Departures(next, q) \subseteq DOMAIN next
       /\ \A b : ClearedBy(next, b, q) \subseteq DOMAIN next
  BY <1>7 DEF Removals, Departures, ClearedBy, Unbans, Against
<1>16. id \notin Bans(next, q) /\ id \notin Revocations(next, c)
  BY <1>1, <1>7 DEF Bans, Revocations, Against
<1>17. Bans(next, q) = Bans(l, q) /\ Revocations(next, c) = {}
  <2> HIDE DEF q, c
  <2>1. Bans(next, q) \ {id} = Bans(l, q) /\ Revocations(next, c) \ {id} = Revocations(l, c)
    BY <1>1, GrownAgainst
  <2>2. Bans(next, q) = Bans(l, q)
    BY <1>16, <2>1
  <2>3. Revocations(next, c) = {}
    BY <1>11, <1>16, <2>1
  <2> QED
    BY <2>2, <2>3
<1>18. \A b \in Bans(next, q) : \E u \in ClearedBy(next, b, q) : Ancestor(next, u, id)
  <2> SUFFICES ASSUME NEW b \in Bans(next, q)
        PROVE  \E u \in ClearedBy(next, b, q) : Ancestor(next, u, id)
    OBVIOUS
  <2>1. ClearedBy(next, b, q) \ {id} = ClearedBy(l, b, q)
    BY <1>1, GrownCleared
  <2> HIDE DEF q
  <2> QED
    BY <1>10, <1>14, <1>15, <1>17, <2>1
<1> QED
  BY <1>1, <1>4, <1>7, <1>8, <1>9, <1>12, <1>13, <1>14, <1>15, <1>17, <1>18 DEF Admissible

\* How the fields change when the loop applies the edit to what it has made before.
LEMMA EditApplied ==
  ASSUME NEW l, NEW next, NEW id, NEW p, NEW kind, NEW data, Made(l, next, id, p, kind, data),
         Asked(l, p, kind, data),
         NEW m, Settled(l, m, DOMAIN l), Same(Rebuild(l), m), NEW n, Alike(m, n)
  PROVE  Edited(n, ApplyOperation(next, n, id), p, kind, data)
<1> DEFINE x == ApplyOperation(next, n, id)
<1>0. SUFFICES Edited(n, x, p, kind, data)
  OBVIOUS
<1>1. /\ next[id].author = p /\ next[id].kind = kind /\ next[id].data = data
      /\ kind \in Kinds \ {"create"} /\ DOMAIN n = DOMAIN Blank
      /\ n.members = m.members /\ Rebuild(l).members = m.members
  BY DEF Made, Alike, Same
<1>2. kind # "admit" => MayChange(Rebuild(l), p, kind, data)
  BY DEF Asked
<1>3. kind \in Administrative => CanAdmin(Rebuild(l), p)
  BY <1>2 DEF MayChange, Administrative
<1>4. kind \in Administrative => Authorized(next, id)
  BY <1>3, AdminIsAuthorized
<1>5. kind \in Administrative \cup {"leave", "profile"} => p \in DOMAIN n.members
  BY <1>1, <1>2, <1>3 DEF MayChange, CanAdmin, IsMember, Administrative
<1>6. p \in DOMAIN n.members => CouldAct(next, n, p, id)
  BY <1>1, MemberActs
<1>7. CASE kind = "admit"
  <2>1. Admissible(next, n, id)
    BY <1>7, AcceptedIsAdmissible
  <2>2. x = ApplyAdmit(next, n, id)
    BY <1>1, <1>7 DEF ApplyOperation, Expulsions
  <2>3. x = [n EXCEPT !.accepted = n.accepted \cup {data},
                      !.admission = Insert(n.admission, data.peer, id),
                      !.members = Insert(n.members, data.peer, [admin |-> FALSE, profile |-> FirstName])]
    BY <1>1, <2>1, <2>2 DEF ApplyAdmit
  <2> HIDE DEF x
  <2>4. /\ x.members = Insert(n.members, data.peer, [admin |-> FALSE, profile |-> FirstName])
        /\ x.name = n.name /\ x.channels = n.channels /\ x.priority = n.priority
        /\ x.invites = n.invites
    BY <1>1, <2>3 DEF Blank
  <2> QED
    BY <1>7, <2>4 DEF Edited, Expulsions
<1>8. ASSUME NEW q, x = Expel(n, q)
      PROVE  /\ x.members = Without(n.members, q)
             /\ x.name = n.name /\ x.channels = n.channels /\ x.priority = n.priority
             /\ x.invites = n.invites
  <2> HIDE DEF x
  <2> QED
    BY <1>1, <1>8 DEF Expel, Blank
<1>9. CASE kind \in Expulsions
  <2>1. data # Owner
    BY <1>2, <1>9 DEF MayChange, Expulsions
  <2>2. x = Expel(n, data)
    BY <1>1, <1>4, <1>9, <2>1 DEF ApplyOperation, ApplyExpulsion, Expulsions, Administrative
  <2>3. /\ x.members = Without(n.members, data)
        /\ x.name = n.name /\ x.channels = n.channels /\ x.priority = n.priority
        /\ x.invites = n.invites
    BY <1>8, <2>2
  <2> HIDE DEF x
  <2> QED
    BY <1>9, <2>3 DEF Edited, Expulsions
<1>10. CASE kind = "leave"
  <2>1. p # Owner
    BY <1>2, <1>10 DEF MayChange, Administrative
  <2>2. x = Expel(n, p)
    BY <1>1, <1>10, <2>1 DEF ApplyOperation, ApplyLeave, Expulsions
  <2>3. /\ x.members = Without(n.members, p)
        /\ x.name = n.name /\ x.channels = n.channels /\ x.priority = n.priority
        /\ x.invites = n.invites
    BY <1>8, <2>2
  <2> HIDE DEF x
  <2> QED
    BY <1>10, <2>3 DEF Edited, Expulsions
<1>11. CASE kind = "profile"
  <2>1. p \in DOMAIN n.members /\ CouldAct(next, n, p, id)
    BY <1>5, <1>6, <1>11
  <2>2. x = [n EXCEPT !.members[p].profile = data]
    BY <1>1, <1>11, <2>1 DEF ApplyOperation, ApplyProfile, Expulsions
  <2> HIDE DEF x
  <2>3. /\ x.members = [n.members EXCEPT ![p].profile = data]
        /\ x.name = n.name /\ x.channels = n.channels /\ x.priority = n.priority
        /\ x.invites = n.invites
    BY <1>1, <2>2 DEF Blank
  <2> QED
    BY <1>11, <2>3 DEF Edited, Expulsions
<1>12. CASE kind \in Administrative \ Expulsions
  <2>1. p \in DOMAIN n.members /\ CouldAct(next, n, p, id) /\ Authorized(next, id)
    BY <1>4, <1>5, <1>6, <1>12
  <2>2. x = ApplySetting(next, n, id)
    BY <1>1, <1>12, <2>1 DEF ApplyOperation, Administrative, Expulsions
  <2>3. CASE kind = "admin"
    <3>1. p = Owner /\ data.peer \in DOMAIN n.members \ {Owner}
      BY <1>1, <1>2, <2>3 DEF MayChange
    <3>2. x = [n EXCEPT !.members[data.peer].admin = data.enabled,
                        !.grants = IF data.enabled THEN Insert(n.grants, data.peer, id)
                                   ELSE Without(n.grants, data.peer)]
      BY <1>1, <2>2, <2>3, <3>1 DEF ApplySetting, ApplyRole
    <3> HIDE DEF x
    <3>3. /\ x.members = [n.members EXCEPT ![data.peer].admin = data.enabled]
          /\ x.name = n.name /\ x.channels = n.channels /\ x.priority = n.priority
          /\ x.invites = n.invites
      BY <1>1, <3>2 DEF Blank
    <3> QED
      BY <2>3, <3>3 DEF Edited, Expulsions
  <2>4. CASE kind = "rename"
    <3>1. x = [n EXCEPT !.name = data]
      BY <1>1, <2>2, <2>4 DEF ApplySetting
    <3> HIDE DEF x
    <3> QED
      BY <1>1, <2>4, <3>1 DEF Edited, Expulsions, Blank
  <2>5. CASE kind = "channel"
    <3> DEFINE held == \/ data.id \in DOMAIN n.channels
                       \/ Cardinality(DOMAIN n.channels) < MaxChannels
    <3>1. x = IF held THEN [n EXCEPT !.channels = Insert(n.channels, data.id, data.name)] ELSE n
      BY <1>1, <2>2, <2>5 DEF ApplySetting
    <3> HIDE DEF x
    <3>2. /\ x.members = n.members /\ x.name = n.name /\ x.priority = n.priority
          /\ x.invites = n.invites
          /\ x.channels = IF held THEN Insert(n.channels, data.id, data.name) ELSE n.channels
      BY <1>1, <3>1 DEF Blank
    <3> QED
      BY <2>5, <3>2 DEF Edited, Expulsions
  <2>6. CASE kind = "delete-channel"
    <3>1. x = [n EXCEPT !.channels = Without(n.channels, data)]
      BY <1>1, <2>2, <2>6 DEF ApplySetting
    <3> HIDE DEF x
    <3>2. /\ x.members = n.members /\ x.name = n.name /\ x.priority = n.priority
          /\ x.invites = n.invites /\ x.channels = Without(n.channels, data)
      BY <1>1, <3>1 DEF Blank
    <3> QED
      BY <2>6, <3>2 DEF Edited, Expulsions
  <2>7. CASE kind = "invite"
    <3>1. x = [n EXCEPT !.invites = n.invites \cup {data}]
      BY <1>1, <2>2, <2>7 DEF ApplySetting
    <3> HIDE DEF x
    <3>2. /\ x.members = n.members /\ x.name = n.name /\ x.priority = n.priority
          /\ x.invites = n.invites \cup {data} /\ x.channels = n.channels
      BY <1>1, <3>1 DEF Blank
    <3> QED
      BY <2>7, <3>2 DEF Edited, Expulsions
  <2>8. CASE kind = "priority"
    <3>1. x = [n EXCEPT !.priority = KeptOf(data, DOMAIN n.members)]
      BY <1>1, <2>2, <2>8 DEF ApplySetting
    <3> HIDE DEF x
    <3>2. /\ x.members = n.members /\ x.name = n.name
          /\ x.priority = KeptOf(data, DOMAIN n.members)
          /\ x.invites = n.invites /\ x.channels = n.channels
      BY <1>1, <3>1 DEF Blank
    <3> QED
      BY <2>8, <3>2 DEF Edited, Expulsions
  <2>9. CASE kind \in {"revoke", "unban"}
    <3>1. x = n
      BY <1>1, <2>2, <2>9 DEF ApplySetting
    <3> HIDE DEF x
    <3> QED
      BY <2>9, <3>1 DEF Edited, Expulsions
  <2> QED
    BY <1>12, <2>3, <2>4, <2>5, <2>6, <2>7, <2>8, <2>9 DEF Administrative, Expulsions
<1>13. CASE kind = "delete"
  <2>1. x = n
    BY <1>1, <1>13 DEF ApplyOperation, ApplySetting, Expulsions
  <2> HIDE DEF x
  <2> QED
    BY <1>13, <2>1 DEF Edited, Expulsions
<1> QED
  BY <1>1, <1>7, <1>9, <1>10, <1>11, <1>12, <1>13 DEF Kinds

\* So the model that the device shows changes by the edit.
LEMMA EditedModel ==
  ASSUME NEW l, NEW next, NEW id, NEW p, NEW kind, NEW data, Made(l, next, id, p, kind, data),
         Asked(l, p, kind, data)
  PROVE  Edited(Rebuild(l), Rebuild(next), p, kind, data)
<1>1. Grown(l, next, id)
  BY DEF Made
<1>2. PICK m, n : /\ Settled(l, m, DOMAIN l) /\ Same(Rebuild(l), m)
                  /\ Alike(m, n) /\ Fits(next, n)
                  /\ Same(Rebuild(next), ApplyOperation(next, n, id))
  BY <1>1, GrownModel
<1>3. Edited(n, ApplyOperation(next, n, id), p, kind, data)
  BY <1>2, EditApplied
<1> QED
  BY <1>2, <1>3 DEF Edited, Same, Alike

\* Nor does an edit change, among what rebuild gathers before its loop, anything but its subject.
LEMMA EditedGathered ==
  ASSUME NEW l, NEW next, NEW id, NEW p, NEW kind, NEW data, Made(l, next, id, p, kind, data),
         Asked(l, p, kind, data)
  PROVE  /\ Rebuild(next).deleted <=> kind = "delete"
         /\ kind = "kick" => data \in Rebuild(next).banned
         /\ kind = "unban" => data \notin Rebuild(next).banned
         /\ kind = "revoke" => data \in Rebuild(next).revoked
         /\ kind = "invite" /\ (\A i \in DOMAIN l : l[i].kind = "revoke" => l[i].data # data)
               => data \notin Rebuild(next).revoked
<1>1. /\ Grown(l, next, id) /\ MeantData(kind, data)
      /\ next[id].author = p /\ next[id].kind = kind /\ next[id].data = data
      /\ kind \in Kinds \ {"create"}
  BY DEF Made
<1>2. /\ SoundLog(l) /\ IsFiniteSet(DOMAIN l) /\ Meant(l) /\ id \notin DOMAIN l
      /\ SoundLog(next) /\ IsFiniteSet(DOMAIN next) /\ Meant(next)
      /\ DOMAIN next = DOMAIN l \cup {id} /\ \A i \in DOMAIN l : next[i] = l[i]
  BY <1>1 DEF Grown
<1>3. /\ Rebuild(l).deleted = Gathered(l).deleted /\ Rebuild(l).banned = Gathered(l).banned
      /\ Rebuild(next).deleted = Gathered(next).deleted
      /\ Rebuild(next).banned = Gathered(next).banned
      /\ Rebuild(next).revoked = Gathered(next).revoked
  BY <1>2, RebuiltIsApplied
<1>4. PICK m : Settled(l, m, DOMAIN l) /\ Same(Rebuild(l), m)
  BY <1>1, GrownModel
<1>5. kind # "admit" => MayChange(Rebuild(l), p, kind, data)
  BY DEF Asked
<1>6. kind \in Administrative => Authorized(next, id)
  <2>1. kind \in Administrative => CanAdmin(Rebuild(l), p)
    BY <1>5 DEF MayChange, Administrative
  <2> QED
    BY <1>4, <2>1, AdminIsAuthorized
<1>7. Rebuild(next).deleted <=> kind = "delete"
  <2>1. ~ Rebuild(l).deleted
    BY DEF Asked, MayChange, AcceptsIntent, IsMember
  <2>2. /\ Gathered(l).deleted = (\E i \in DOMAIN l : l[i].kind = "delete" /\ l[i].author = Owner)
        /\ Gathered(next).deleted = (\E i \in DOMAIN next : next[i].kind = "delete" /\ next[i].author = Owner)
    BY DEF Gathered, Blank
  <2>3. kind = "delete" => p = Owner
    BY <1>5 DEF MayChange, Administrative
  <2> QED
    BY <1>1, <1>2, <1>3, <2>1, <2>2, <2>3
<1>8. Gathered(next).banned = Banned(next) /\ Gathered(l).banned = Banned(l)
      /\ Gathered(next).revoked = {c \in Codes : Revocations(next, c) # {}}
  BY DEF Gathered, Blank
<1>9. /\ \A i, b : i # id => (Ancestor(next, b, i) <=> Ancestor(l, b, i))
      /\ \A b \in DOMAIN next : Ancestor(next, b, id)
      /\ \A i : i # id => ~ Ancestor(next, id, i)
  BY <1>1, GrownAncestors
<1>10. ASSUME kind = "kick" PROVE data \in Rebuild(next).banned
  <2>1. data \in DOMAIN Rebuild(l).members \ {Owner}
    BY <1>5, <1>10 DEF MayChange, Expulsions
  <2>2. data \in Peers
    BY <1>2, <2>1, RebuiltFits DEF Fits, RolesFit
  <2>3. id \in Bans(next, data)
    BY <1>1, <1>2, <1>6, <1>10, <2>1 DEF Bans, Against, Administrative
  <2>4. ClearedBy(next, id, data) = {}
    <3>1. \A u \in Unbans(next, data) : u # id
      BY <1>1, <1>10 DEF Unbans, Against
    <3> QED
      BY <1>9, <3>1 DEF ClearedBy
  <2> QED
    BY <1>3, <1>8, <2>2, <2>3, <2>4 DEF Banned
<1>11. ASSUME kind = "unban" PROVE data \notin Rebuild(next).banned
  <2>1. data \in Banned(l)
    BY <1>3, <1>5, <1>8, <1>11 DEF MayChange
  <2>2. data # Owner
    BY <2>1 DEF Banned, Bans
  <2>3. id \in Unbans(next, data)
    BY <1>1, <1>2, <1>6, <1>11, <2>2 DEF Unbans, Against, Administrative
  <2>4. \A b \in Bans(next, data) : b \in DOMAIN next
    BY <2>2 DEF Bans, Against
  <2>5. \A b \in Bans(next, data) : id \in ClearedBy(next, b, data)
    BY <1>9, <2>3, <2>4 DEF ClearedBy
  <2>6. data \notin Banned(next)
    BY <2>5 DEF Banned
  <2> QED
    BY <1>3, <1>8, <2>6
<1>12. ASSUME kind = "revoke" PROVE data \in Rebuild(next).revoked
  <2>1. data \in Codes
    BY <1>1, <1>12 DEF MeantData
  <2>2. id \in Revocations(next, data)
    BY <1>1, <1>2, <1>6, <1>12 DEF Revocations, Against, Administrative
  <2> QED
    BY <1>3, <1>8, <2>1, <2>2
<1>13. ASSUME kind = "invite", \A i \in DOMAIN l : l[i].kind = "revoke" => l[i].data # data
       PROVE  data \notin Rebuild(next).revoked
  <2>1. Revocations(next, data) = {}
    BY <1>1, <1>2, <1>13 DEF Revocations, Against
  <2> QED
    BY <1>3, <1>8, <2>1
<1> QED
  BY <1>7, <1>10, <1>11, <1>12, <1>13

\* KeptOf drops nothing of a list of the members, each once.
LEMMA OrderIsKept ==
  ASSUME NEW P, NEW order \in Seq(P), NEW S,
         \A j \in 1 .. Len(order) : order[j] \in S,
         \A j, k \in 1 .. Len(order) : order[j] = order[k] => j = k
  PROVE  KeptOf(order, S) = order
<1> DEFINE N == Len(order)
           Prefix(s, n) == s \in Seq(P) /\ Len(s) = n /\ \A j \in 1 .. n : s[j] = order[j]
<1>0. N \in Nat
  OBVIOUS
<1>1. PICK kept :
        /\ KeptOf(order, S) = kept[N] /\ kept[0] = <<>>
        /\ \A n \in 1 .. N :
              kept[n] = IF order[n] \in S \ Range(kept[n - 1]) THEN Append(kept[n - 1], order[n])
                        ELSE kept[n - 1]
  BY KeptSteps
<1> DEFINE T == {n \in 0 .. N : ~ Prefix(kept[n], n)}
<1>2. ASSUME NEW k \in 1 .. N, Prefix(kept[k - 1], k - 1) PROVE Prefix(kept[k], k)
  <2>1. PICK s : s = kept[k - 1]
    OBVIOUS
  <2>2. s \in Seq(P) /\ Len(s) = k - 1 /\ \A j \in 1 .. (k - 1) : s[j] = order[j]
    BY <1>2, <2>1
  <2>3. order[k] \in P /\ order[k] \in S /\ k \in Nat /\ DOMAIN s = 1 .. (k - 1)
    BY <2>2
  <2>4. order[k] \notin Range(s)
    <3>1. ASSUME NEW j \in DOMAIN s, s[j] = order[k] PROVE FALSE
      <4>1. j \in 1 .. N /\ j # k
        BY <2>3, <3>1, <1>0
      <4>2. order[j] = order[k]
        BY <2>2, <2>3, <3>1
      <4> QED
        BY <4>1, <4>2
    <3> QED
      BY <3>1 DEF Range
  <2>5. kept[k] = Append(s, order[k])
    BY <1>1, <2>1, <2>3, <2>4
  <2>6. PICK e : e = order[k]
    OBVIOUS
  <2>7. Prefix(Append(s, e), k)
    <3>1. Append(s, e) \in Seq(P) /\ Len(Append(s, e)) = k
      BY <2>2, <2>3, <2>6
    <3>2. \A j \in 1 .. k : Append(s, e)[j] = IF j = k THEN e ELSE s[j]
      BY <2>2, <2>3, <2>6
    <3>3. \A j \in 1 .. k : Append(s, e)[j] = order[j]
      BY <2>2, <2>3, <2>6, <3>2
    <3> QED
      BY <3>1, <3>3
  <2> HIDE DEF Prefix
  <2> QED
    BY <2>5, <2>6, <2>7
<1>3. Prefix(kept[0], 0)
  BY <1>1
<1> HIDE DEF Prefix, N
<1>4. ASSUME T # {} PROVE FALSE
  <2>1. T \in SUBSET Nat
    BY <1>0
  <2>2. PICK k \in T : \A j \in T : k <= j
    <3> HIDE DEF T
    <3> QED BY <1>4, <2>1, LeastNumber
  <2>3. k # 0
    BY <1>3, <2>2
  <2>4. k \in 1 .. N /\ k - 1 \in 0 .. N /\ ~ (k <= k - 1)
    BY <1>0, <2>3
  <2>5. Prefix(kept[k - 1], k - 1)
    BY <2>2, <2>4
  <2> QED
    BY <1>2, <2>2, <2>4, <2>5
<1>5. Prefix(kept[N], N)
  <2>1. N \in 0 .. N
    BY <1>0
  <2> QED
    BY <1>4, <2>1
<1>6. PICK s : s = kept[N]
  OBVIOUS
<1>7. s \in Seq(P) /\ Len(s) = N /\ \A j \in 1 .. N : s[j] = order[j]
  BY <1>5, <1>6 DEF Prefix
<1>8. s = order
  <2>1. Len(s) = Len(order) /\ \A j \in 1 .. Len(s) : s[j] = order[j]
    BY <1>7 DEF N
  <2> QED
    BY <1>7, <2>1
<1> QED
  BY <1>1, <1>6, <1>8

\* The logs are finite and hold operations that the editing functions make.
LogsMeant == \A p \in Peers : IsFiniteSet(DOMAIN log[p]) /\ Meant(log[p])

\* A device's model is that of its log.
ModelsDerived ==
    /\ DOMAIN model = Peers
    /\ \A p \in Peers : model[p] = IF Holds(p) THEN Rebuild(log[p]) ELSE Blank

\* No two operations, wherever they are, carry the same invite.
CodesIssuedOnce ==
    \A p, r \in Peers : \A i \in DOMAIN log[p], j \in DOMAIN log[r] :
        log[p][i].kind = "invite" /\ log[r][j].kind = "invite"
            /\ log[p][i].data = log[r][j].data => i = j

\* A code is revoked after it was issued, in every log.
RevokesFollowInvites ==
    \A p \in Peers : \A i \in DOMAIN log[p] :
        log[p][i].kind = "revoke" =>
            \E j \in DOMAIN log[p] : log[p][j].kind = "invite" /\ log[p][j].data = log[p][i].data

\* The invariant: sound logs, operations of their kinds, models of their logs, codes
\* issued once and revoked after.
ReplicaInv == IInv /\ LogsMeant /\ ModelsDerived /\ CodesIssuedOnce /\ RevokesFollowInvites

\* What a model that is at hand keeps.
LEMMA ModelsStand ==
  ASSUME ReplicaInv, NEW p \in Peers
  PROVE  /\ DOMAIN model[p].members \subseteq Peers /\ IsFiniteSet(DOMAIN model[p].members)
<1>1. CASE Holds(p)
  <2>1. SoundLog(log[p]) /\ IsFiniteSet(DOMAIN log[p]) /\ Meant(log[p])
        /\ model[p] = Rebuild(log[p])
    BY <1>1 DEF ReplicaInv, IInv, SoundLogs, LogsMeant, ModelsDerived
  <2>2. PICK m : /\ Derived(log[p], m)
                 /\ model[p].members = Restrict(m.members, DOMAIN m.members \ Dropped(log[p], m))
    BY <2>1, Rebuilt
  <2>3. DOMAIN model[p].members \in SUBSET DOMAIN m.members
    BY <2>2 DEF Restrict
  <2>4. DOMAIN m.members \subseteq Peers /\ IsFiniteSet(DOMAIN m.members)
    BY <2>2 DEF Derived
  <2> QED
    BY <2>3, <2>4, FS_Subset
<1>2. CASE ~ Holds(p)
  <2>1. model[p] = Blank
    BY <1>2 DEF ReplicaInv, ModelsDerived
  <2>2. DOMAIN model[p].members = {}
    BY <2>1 DEF Blank
  <2> QED
    BY <2>2, FS_EmptySet
<1> QED
  BY <1>1, <1>2

\* A device that acts under a grant has it in its log.
LEMMA GrantsAtHand ==
  ASSUME ReplicaInv, NEW p \in Peers, Holds(p), NEW q \in DOMAIN model[p].grants
  PROVE  model[p].grants[q] \in DOMAIN log[p]
<1>1. SoundLog(log[p]) /\ IsFiniteSet(DOMAIN log[p]) /\ Meant(log[p])
      /\ model[p] = Rebuild(log[p])
  BY DEF ReplicaInv, IInv, SoundLogs, LogsMeant, ModelsDerived
<1>2. Fits(log[p], model[p])
  BY <1>1, RebuiltFits
<1> QED
  BY <1>2 DEF Fits, RolesFit

\* The community as its owner creates it.
LEMMA InitReplicas == Init => ReplicaInv
<1> SUFFICES ASSUME Init PROVE ReplicaInv
  OBVIOUS
<1>1. DOMAIN Founded = {RootId} /\ Founded[RootId] = Origin
  BY DEF Founded
<1>2. /\ \A p \in Peers : log[p] = IF p = Owner THEN Founded ELSE <<>>
      /\ \A p \in Peers : model[p] = IF p = Owner THEN Rebuild(Founded) ELSE Blank
      /\ DOMAIN model = Peers
  BY DEF Init
<1>3. DOMAIN <<>> = {}
  OBVIOUS
<1>4. Meant(Founded) /\ IsFiniteSet(DOMAIN Founded)
  <2>1. IsFiniteSet({RootId})
    BY FS_Singleton
  <2>2. /\ Origin.author \in Peers /\ Origin.kind = "create" /\ Origin.data = FirstName
        /\ Origin.authority = NoOp
    BY ModelAssumption DEF Origin, Operation
  <2>3. FirstName \in Names
    BY ModelAssumption DEF FirstName
  <2>4. MeantData("create", FirstName)
    BY <2>3 DEF MeantData
  <2> QED
    BY <1>1, <2>1, <2>2, <2>4 DEF Meant, Kinds
<1>5. LogsMeant
  <2> SUFFICES ASSUME NEW p \in Peers PROVE IsFiniteSet(DOMAIN log[p]) /\ Meant(log[p])
    BY DEF LogsMeant
  <2>1. CASE p = Owner
    BY <1>2, <1>4, <2>1
  <2>2. CASE p # Owner
    <3>1. DOMAIN log[p] = {}
      BY <1>2, <1>3, <2>2
    <3> QED
      BY <3>1, FS_EmptySet DEF Meant
  <2> QED
    BY <2>1, <2>2
<1>6. ModelsDerived
  BY <1>1, <1>2, <1>3 DEF ModelsDerived, Holds
<1>7. CodesIssuedOnce
  <2>1. \A p \in Peers : \A i \in DOMAIN log[p] : log[p][i].kind = "create"
    BY <1>1, <1>2, <1>3 DEF Origin, Operation
  <2> QED
    BY <2>1 DEF CodesIssuedOnce
<1>8. RevokesFollowInvites
  <2>1. \A p \in Peers : \A i \in DOMAIN log[p] : log[p][i].kind = "create"
    BY <1>1, <1>2, <1>3 DEF Origin, Operation
  <2> QED
    BY <2>1 DEF RevokesFollowInvites
<1> QED
  BY <1>5, <1>6, <1>7, <1>8, InitEstablishes DEF ReplicaInv

\* The device appends an operation under an identifier, and derives its model again.
Appends(p, kind, data, id) ==
    /\ id \notin DOMAIN log[p]
    /\ DOMAIN log'[p] = DOMAIN log[p] \cup {id}
    /\ \A i \in DOMAIN log[p] : log'[p][i] = log[p][i]
    /\ log'[p][id].past = DOMAIN log[p]
    /\ log'[p][id].author = p /\ log'[p][id].kind = kind /\ log'[p][id].data = data
    /\ log'[p][id].authority = IF p # Owner /\ p \in DOMAIN model[p].grants
                               THEN model[p].grants[p] ELSE NoOp
    /\ \A r \in Peers : r # p => log'[r] = log[r]
    /\ model' = [model EXCEPT ![p] = Rebuild(log'[p])]

\* Model::append adds one operation, after everything the device holds.
LEMMA AppendFacts ==
  ASSUME IInv, NEW p \in Peers, NEW kind, kind # "create", NEW data, Holds(p),
         AppendOperation(p, kind, data)
  PROVE  \E id : Appends(p, kind, data, id)
<1>1. PICK d \in Digests(LogClock(log[p]) + 1) :
        LET id   == <<LogClock(log[p]) + 1, d>>
            next == Insert(log[p], id, SignedOperation(log[p], model[p], p, kind, data))
        IN  log' = [log EXCEPT ![p] = next] /\ model' = [model EXCEPT ![p] = Rebuild(next)]
  BY DEF AppendOperation
<1> DEFINE id   == <<LogClock(log[p]) + 1, d>>
           next == Insert(log[p], id, SignedOperation(log[p], model[p], p, kind, data))
<1>2. d \in Nat
  BY ReplicaAssumption DEF Digests, FreshDigest
<1>3. /\ SoundLog(log[p]) /\ DOMAIN log[p] # {} /\ BoundedLog(log[p])
  BY DEF IInv, ClocksBounded, SoundLogs, Holds, Bounded, BoundedLog
<1>4. /\ id \notin DOMAIN log[p]
      /\ DOMAIN next = DOMAIN log[p] \cup {id}
      /\ \A i \in DOMAIN log[p] : next[i] = log[p][i]
      /\ next[id].past = DOMAIN log[p]
      /\ next[id].author = p /\ next[id].kind = kind /\ next[id].data = data
      /\ SoundLog(next)
  BY <1>2, <1>3, SoundExtension
<1>5. next[id] = SignedOperation(log[p], model[p], p, kind, data)
  BY DEF Insert
<1>6. next[id].authority = IF p # Owner /\ p \in DOMAIN model[p].grants THEN model[p].grants[p] ELSE NoOp
  BY <1>5 DEF SignedOperation, Operation
<1>7. /\ log'[p] = next /\ \A r \in Peers : r # p => log'[r] = log[r]
      /\ model' = [model EXCEPT ![p] = Rebuild(next)]
  BY <1>1 DEF IInv
<1> HIDE DEF id, next
<1>8. Appends(p, kind, data, id)
  BY <1>4, <1>6, <1>7 DEF Appends
<1> QED
  BY <1>8

\* Model::merge leaves the union of the two logs.
LEMMA ReceiveFacts ==
  ASSUME IInv, NEW p \in Peers, NEW q \in Peers, Receive(p, q)
  PROVE  /\ DOMAIN log'[p] = DOMAIN log[p] \cup DOMAIN log[q]
         /\ \A i \in DOMAIN log[p] : log'[p][i] = log[p][i]
         /\ \A i \in DOMAIN log[q] : log'[p][i] = log[q][i]
         /\ \A r \in Peers : r # p => log'[r] = log[r]
         /\ model' = [model EXCEPT ![p] = Rebuild(log'[p])]
         /\ DOMAIN log[q] # {}
<1> DEFINE merged == Joined(log[p], log[q])
<1>1. /\ log'[p] = merged
      /\ \A r \in Peers : r # p => log'[r] = log[r]
      /\ model' = [model EXCEPT ![p] = Rebuild(merged)]
      /\ DOMAIN log[q] # {}
  BY DEF Receive, IInv, Holds
<1>2. \A i \in DOMAIN log[p] : i \in DOMAIN log[q] => log[p][i] = log[q][i]
  BY DEF IInv, Agreement
<1>3. /\ DOMAIN merged = DOMAIN log[p] \cup DOMAIN log[q]
      /\ \A i \in DOMAIN log[p] : merged[i] = log[p][i]
      /\ \A i \in DOMAIN log[q] : merged[i] = log[q][i]
  BY <1>2 DEF Joined
<1> HIDE DEF merged
<1> QED
  BY <1>1, <1>3

\* The members that the panel offers to order, each once.
Arranges(order, S) ==
    /\ order \in Seq(Peers) /\ \A j \in 1 .. Len(order) : order[j] \in S
    /\ \A j, k \in 1 .. Len(order) : order[j] = order[k] => j = k

\* What a handler of the panel knows of what it asks for, beyond what change() checks.
Offered(p, kind, data) ==
    /\ MeantData(kind, data)
    /\ kind = "invite" => data \notin IssuedCodes
    /\ kind = "revoke" => data \in model[p].invites
    /\ kind = "priority" => Arranges(data, DOMAIN model[p].members)

\* An order of the members lists each of them once.
LEMMA OrdersArrange ==
  ASSUME ReplicaInv, NEW p \in Peers, NEW order \in Orders(p)
  PROVE  Arranges(order, DOMAIN model[p].members)
<1> DEFINE S == DOMAIN model[p].members
           N == Cardinality(S)
<1>1. S \subseteq Peers /\ N \in Nat
  BY ModelsStand, FS_CardinalityType
<1>2. order \in [1 .. N -> S] /\ \A j, k \in 1 .. N : order[j] = order[k] => j = k
  BY DEF Orders, Bijection, Injection, IsInjective
<1> HIDE DEF S, N
<1>3. order \in Seq(Peers) /\ Len(order) = N
  BY <1>1, <1>2
<1>4. \A j \in 1 .. N : order[j] \in S
  BY <1>2
<1> QED
  BY <1>2, <1>3, <1>4 DEF Arranges, S

\* What the handlers of the panel ask for, in its kinds and with its data.
LEMMA EditsAreOffered ==
  ASSUME ReplicaInv, NEW p \in Peers, Edit(p)
  PROVE  \E kind \in Kinds \ {"create", "admit"} : \E data :
            Change(p, kind, data) /\ Offered(p, kind, data)
<1>1. \A order \in Orders(p) : order \in Seq(Peers) /\ Arranges(order, DOMAIN model[p].members)
  BY OrdersArrange DEF Arranges
<1>2. ASSUME NEW order \in Orders(p), SetPriority(p, order)
      PROVE  Change(p, "priority", order) /\ Offered(p, "priority", order)
  BY <1>1, <1>2 DEF SetPriority, MeantData, Offered
<1>3. ASSUME NEW q \in Peers, NEW enabled \in BOOLEAN, SetAdmin(p, q, enabled)
      PROVE  \E data : Change(p, "admin", data) /\ Offered(p, "admin", data)
  <2>1. [peer |-> q, enabled |-> enabled] \in [peer : Peers, enabled : BOOLEAN]
    OBVIOUS
  <2> QED
    BY <1>3, <2>1 DEF SetAdmin, MeantData, Offered
<1>4. ASSUME NEW c \in Channels, NEW n \in Names, SetChannel(p, c, n)
      PROVE  \E data : Change(p, "channel", data) /\ Offered(p, "channel", data)
  <2>1. [id |-> c, name |-> n] \in [id : Channels, name : Names]
    OBVIOUS
  <2> QED
    BY <1>4, <2>1 DEF SetChannel, MeantData, Offered
<1>5. ASSUME NEW c \in Codes, IssueInvite(p, c)
      PROVE  Change(p, "invite", c) /\ Offered(p, "invite", c)
  BY <1>5 DEF IssueInvite, MeantData, Offered
<1>6. ASSUME NEW c \in Codes, Revoke(p, c)
      PROVE  Change(p, "revoke", c) /\ Offered(p, "revoke", c)
  BY <1>6 DEF Revoke, MeantData, Offered
<1>7. ASSUME NEW n \in Names, Rename(p, n) \/ SetProfile(p, n)
      PROVE  \E kind \in {"rename", "profile"} : Change(p, kind, n) /\ Offered(p, kind, n)
  BY <1>7 DEF Rename, SetProfile, MeantData, Offered
<1>8. ASSUME \/ \E c \in Channels : DeleteChannel(p, c)
             \/ \E q \in Peers : Remove(p, q) \/ Kick(p, q) \/ Unban(p, q)
             \/ Leave(p) \/ Delete(p)
      PROVE  \E kind \in {"delete-channel", "remove", "kick", "unban", "leave", "delete"} :
                \E data : Change(p, kind, data) /\ Offered(p, kind, data)
  BY <1>8 DEF DeleteChannel, Remove, Kick, Unban, Leave, Delete, MeantData, Offered
<1>9. {"rename", "profile", "priority", "admin", "channel", "invite", "revoke", "delete-channel",
       "remove", "kick", "unban", "leave", "delete"} \subseteq Kinds \ {"create", "admit"}
  BY DEF Kinds, Administrative
<1> QED
  BY <1>2, <1>3, <1>4, <1>5, <1>6, <1>7, <1>8, <1>9 DEF Edit

\* An edit or an admission keeps the invariant.
LEMMA AppendKeeps ==
  ASSUME ReplicaInv, NEW p \in Peers, NEW kind \in Kinds, kind # "create", NEW data, Holds(p),
         Offered(p, kind, data), AppendOperation(p, kind, data)
  PROVE  LogsMeant' /\ ModelsDerived' /\ CodesIssuedOnce' /\ RevokesFollowInvites'
<1>1. /\ IInv /\ MeantData(kind, data)
      /\ kind = "invite" => data \notin IssuedCodes
      /\ kind = "revoke" => data \in model[p].invites
  BY DEF ReplicaInv, Offered
<1>2. PICK id : Appends(p, kind, data, id)
  BY <1>1, AppendFacts
<1>3. /\ id \notin DOMAIN log[p]
      /\ DOMAIN log'[p] = DOMAIN log[p] \cup {id}
      /\ \A i \in DOMAIN log[p] : log'[p][i] = log[p][i]
      /\ log'[p][id].author = p /\ log'[p][id].kind = kind /\ log'[p][id].data = data
      /\ log'[p][id].authority = IF p # Owner /\ p \in DOMAIN model[p].grants
                                 THEN model[p].grants[p] ELSE NoOp
      /\ \A r \in Peers : r # p => log'[r] = log[r]
      /\ model' = [model EXCEPT ![p] = Rebuild(log'[p])]
  BY <1>2 DEF Appends
<1>4. log'[p][id].authority \in DOMAIN log'[p] \cup {NoOp}
  BY <1>3, GrantsAtHand
<1>5. LogsMeant'
  <2>1. IsFiniteSet(DOMAIN log'[p])
    BY <1>3, FS_AddElement DEF ReplicaInv, LogsMeant
  <2>2. Meant(log'[p])
    BY <1>1, <1>3, <1>4 DEF ReplicaInv, LogsMeant, Meant
  <2> QED
    BY <1>3, <2>1, <2>2 DEF ReplicaInv, LogsMeant
<1>6. ModelsDerived'
  BY <1>3 DEF ReplicaInv, ModelsDerived, Holds
<1>7. CodesIssuedOnce'
  <2> SUFFICES ASSUME NEW r \in Peers, NEW s \in Peers,
                      NEW i \in DOMAIN log'[r], NEW j \in DOMAIN log'[s],
                      log'[r][i].kind = "invite", log'[s][j].kind = "invite",
                      log'[r][i].data = log'[s][j].data
               PROVE  i = j
    BY DEF CodesIssuedOnce
  <2>1. /\ (i \in DOMAIN log[r] /\ log'[r][i] = log[r][i]) \/ (i = id /\ r = p)
        /\ (j \in DOMAIN log[s] /\ log'[s][j] = log[s][j]) \/ (j = id /\ s = p)
    BY <1>3
  <2>2. \A t \in Peers : \A k \in DOMAIN log[t] :
            kind = "invite" /\ log[t][k].kind = "invite" => log[t][k].data # data
    BY <1>1 DEF IssuedCodes, MeantData
  <2> QED
    BY <1>3, <2>1, <2>2 DEF ReplicaInv, CodesIssuedOnce
<1>8. RevokesFollowInvites'
  <2>1. kind = "revoke" => \E j \in DOMAIN log[p] : log[p][j].kind = "invite" /\ log[p][j].data = data
    <3>1. SoundLog(log[p]) /\ IsFiniteSet(DOMAIN log[p]) /\ Meant(log[p])
          /\ model[p] = Rebuild(log[p])
      BY DEF ReplicaInv, IInv, SoundLogs, LogsMeant, ModelsDerived
    <3>2. kind = "revoke" => InvitedUnder(log[p], data)
      BY <1>1, <3>1, InvitesStand
    <3> QED
      BY <3>2 DEF InvitedUnder
  <2> QED
    BY <1>3, <2>1 DEF ReplicaInv, RevokesFollowInvites
<1> QED
  BY <1>5, <1>6, <1>7, <1>8

\* A merge keeps the invariant.
LEMMA ReceiveKeeps ==
  ASSUME ReplicaInv, NEW p \in Peers, NEW q \in Peers, Receive(p, q)
  PROVE  LogsMeant' /\ ModelsDerived' /\ CodesIssuedOnce' /\ RevokesFollowInvites'
<1>1. /\ DOMAIN log'[p] = DOMAIN log[p] \cup DOMAIN log[q]
      /\ \A i \in DOMAIN log[p] : log'[p][i] = log[p][i]
      /\ \A i \in DOMAIN log[q] : log'[p][i] = log[q][i]
      /\ \A r \in Peers : r # p => log'[r] = log[r]
      /\ model' = [model EXCEPT ![p] = Rebuild(log'[p])]
      /\ DOMAIN log[q] # {}
  BY ReceiveFacts DEF ReplicaInv
<1>2. LogsMeant'
  <2>1. IsFiniteSet(DOMAIN log'[p])
    <3>1. IsFiniteSet(DOMAIN log[p]) /\ IsFiniteSet(DOMAIN log[q])
      BY DEF ReplicaInv, LogsMeant
    <3>2. IsFiniteSet(DOMAIN log[p] \cup DOMAIN log[q])
      BY <3>1, FS_Union
    <3> QED
      BY <1>1, <3>2
  <2>2. Meant(log'[p])
    BY <1>1 DEF ReplicaInv, LogsMeant, Meant
  <2> QED
    BY <1>1, <2>1, <2>2 DEF ReplicaInv, LogsMeant
<1>3. ModelsDerived'
  BY <1>1 DEF ReplicaInv, ModelsDerived, Holds
<1>4. CodesIssuedOnce'
  <2> SUFFICES ASSUME NEW r \in Peers, NEW s \in Peers,
                      NEW i \in DOMAIN log'[r], NEW j \in DOMAIN log'[s],
                      log'[r][i].kind = "invite", log'[s][j].kind = "invite",
                      log'[r][i].data = log'[s][j].data
               PROVE  i = j
    BY DEF CodesIssuedOnce
  <2>1. /\ \E t \in Peers : i \in DOMAIN log[t] /\ log'[r][i] = log[t][i]
        /\ \E t \in Peers : j \in DOMAIN log[t] /\ log'[s][j] = log[t][j]
    BY <1>1
  <2> QED
    BY <2>1 DEF ReplicaInv, CodesIssuedOnce
<1>5. RevokesFollowInvites'
  BY <1>1 DEF ReplicaInv, RevokesFollowInvites
<1> QED
  BY <1>2, <1>3, <1>4, <1>5

\* Every step keeps the invariant.
LEMMA ReplicasKeep == ReplicaInv /\ [Next]_vars => ReplicaInv'
<1> SUFFICES ASSUME ReplicaInv, [Next]_vars PROVE ReplicaInv'
  OBVIOUS
<1>0. IInv'
  BY NextPreserves DEF ReplicaInv
<1>1. ASSUME NEW p \in Peers, Edit(p)
      PROVE  LogsMeant' /\ ModelsDerived' /\ CodesIssuedOnce' /\ RevokesFollowInvites'
  <2>1. PICK kind \in Kinds \ {"create", "admit"} : \E data :
            Change(p, kind, data) /\ Offered(p, kind, data)
    BY <1>1, EditsAreOffered
  <2> QED
    BY <2>1, AppendKeeps DEF Change
<1>2. ASSUME NEW p \in Peers, NEW intent \in Intent, Admit(p, intent)
      PROVE  LogsMeant' /\ ModelsDerived' /\ CodesIssuedOnce' /\ RevokesFollowInvites'
  <2>1. Offered(p, "admit", intent) /\ "admit" \in Kinds
    BY DEF MeantData, Offered, Kinds
  <2> QED
    BY <1>2, <2>1, AppendKeeps DEF Admit
<1>3. ASSUME NEW p \in Peers, NEW q \in Peers \ {p}, Receive(p, q)
      PROVE  LogsMeant' /\ ModelsDerived' /\ CodesIssuedOnce' /\ RevokesFollowInvites'
  BY <1>3, ReceiveKeeps
<1>4. CASE UNCHANGED vars
  <2>1. log' = log /\ model' = model
    BY <1>4 DEF vars
  <2> QED
    BY <1>0, <2>1 DEF ReplicaInv, LogsMeant, ModelsDerived, CodesIssuedOnce,
                      RevokesFollowInvites, Holds
<1> QED
  BY <1>0, <1>1, <1>2, <1>3, <1>4 DEF Next, ReplicaInv

\* The invariant holds in every behaviour.
LEMMA ReplicasInvariant == Spec => []ReplicaInv
<1> QED BY InitReplicas, ReplicasKeep, PTL DEF Spec

\* What a device checks and is handed before an edit, as its log and model have it.
Prompted(l, kind, data) ==
    /\ kind = "invite" => \A i \in DOMAIN l : l[i].kind = "revoke" => l[i].data # data
    /\ kind = "priority" => Arranges(data, DOMAIN Rebuild(l).members)

\* An edit of a device that passed its checks: operation i makes its next log.
EditMade(p, i) ==
    /\ model[p] = Rebuild(log[p]) /\ model'[p] = Rebuild(log'[p])
    /\ LET op == log'[p][i]
       IN  /\ Made(log[p], log'[p], i, p, op.kind, op.data)
           /\ Asked(log[p], p, op.kind, op.data) /\ Prompted(log[p], op.kind, op.data)

\* What a device appends is an operation that has seen its whole log.
LEMMA AppendMakes ==
  ASSUME ReplicaInv, ReplicaInv', NEW p \in Peers, NEW kind \in Kinds, kind # "create", NEW data,
         Holds(p), Offered(p, kind, data), Asked(log[p], p, kind, data),
         AppendOperation(p, kind, data)
  PROVE  \A r \in Peers : \A i \in Appended(r) : r = p /\ EditMade(p, i)
<1>1. PICK id : Appends(p, kind, data, id)
  BY AppendFacts DEF ReplicaInv
<1>2. /\ id \notin DOMAIN log[p] /\ DOMAIN log'[p] = DOMAIN log[p] \cup {id}
      /\ \A i \in DOMAIN log[p] : log'[p][i] = log[p][i]
      /\ log'[p][id].past = DOMAIN log[p]
      /\ log'[p][id].author = p /\ log'[p][id].kind = kind /\ log'[p][id].data = data
      /\ log'[p][id].authority = IF p # Owner /\ p \in DOMAIN model[p].grants
                                 THEN model[p].grants[p] ELSE NoOp
      /\ \A r \in Peers : r # p => log'[r] = log[r]
  BY <1>1 DEF Appends
<1>3. \A r \in Peers : \A i \in Appended(r) : r = p /\ i = id
  BY <1>2 DEF Appended
<1>4. /\ SoundLog(log[p]) /\ IsFiniteSet(DOMAIN log[p]) /\ Meant(log[p])
      /\ model[p] = Rebuild(log[p])
      /\ \A i, j \in DOMAIN log[p] : log[p][i].author = log[p][j].author =>
            Ancestor(log[p], i, j) \/ Ancestor(log[p], j, i)
  BY DEF ReplicaInv, IInv, SoundLogs, LogsMeant, ModelsDerived, AuthorsNeverFork
<1>5. DOMAIN log[p] # {} /\ DOMAIN log'[p] # {}
  BY <1>2 DEF Holds
<1>6. /\ SoundLog(log'[p]) /\ IsFiniteSet(DOMAIN log'[p]) /\ Meant(log'[p])
      /\ model'[p] = Rebuild(log'[p])
  BY <1>5 DEF ReplicaInv, IInv, SoundLogs, LogsMeant, ModelsDerived, Holds
<1>7. Grown(log[p], log'[p], id)
  BY <1>2, <1>4, <1>6 DEF Grown
<1>8. Made(log[p], log'[p], id, p, kind, data)
  BY <1>2, <1>4, <1>5, <1>7 DEF Made, Offered
<1>9. Prompted(log[p], kind, data)
  <2>1. ASSUME kind = "invite", NEW i \in DOMAIN log[p], log[p][i].kind = "revoke" PROVE log[p][i].data # data
    <3>1. PICK j \in DOMAIN log[p] : log[p][j].kind = "invite" /\ log[p][j].data = log[p][i].data
      BY <2>1 DEF ReplicaInv, RevokesFollowInvites
    <3>2. data \in Codes /\ data \notin IssuedCodes
      BY <2>1 DEF Offered, MeantData
    <3> QED
      BY <3>1, <3>2 DEF IssuedCodes
  <2> QED
    BY <1>4, <2>1 DEF Offered, Prompted
<1>10. EditMade(p, id)
  BY <1>2, <1>4, <1>6, <1>8, <1>9 DEF EditMade
<1> QED
  BY <1>3, <1>10

\* So it is for every step: a merge brings a device no operation of its own that it
\* lacked.
LEMMA StepsMake ==
  ASSUME ReplicaInv, Next
  PROVE  \A p \in Peers : \A i \in Appended(p) : EditMade(p, i)
<1>0. ReplicaInv'
  BY ReplicasKeep
<1>1. ASSUME NEW p \in Peers, Edit(p)
      PROVE  \A r \in Peers : \A i \in Appended(r) : EditMade(r, i)
  <2>1. PICK kind \in Kinds \ {"create", "admit"} : \E data :
            Change(p, kind, data) /\ Offered(p, kind, data)
    BY <1>1, EditsAreOffered
  <2>2. PICK data : Change(p, kind, data) /\ Offered(p, kind, data)
    BY <2>1
  <2>3. Holds(p) /\ AppendOperation(p, kind, data) /\ MayChange(model[p], p, kind, data)
    BY <2>2 DEF Change
  <2>4. Asked(log[p], p, kind, data)
    BY <2>3 DEF Asked, ReplicaInv, ModelsDerived
  <2> QED
    BY <1>0, <2>2, <2>3, <2>4, AppendMakes
<1>2. ASSUME NEW p \in Peers, NEW intent \in Intent, Admit(p, intent)
      PROVE  \A r \in Peers : \A i \in Appended(r) : EditMade(r, i)
  <2>1. Offered(p, "admit", intent) /\ "admit" \in Kinds
    BY DEF MeantData, Offered, Kinds
  <2>2. Holds(p) /\ AppendOperation(p, "admit", intent)
    BY <1>2 DEF Admit
  <2>3. Asked(log[p], p, "admit", intent)
    BY <1>2, <2>2 DEF Admit, Asked, ReplicaInv, ModelsDerived
  <2> QED
    BY <1>0, <2>1, <2>2, <2>3, AppendMakes
<1>3. ASSUME NEW p \in Peers, NEW q \in Peers \ {p}, Receive(p, q)
      PROVE  \A r \in Peers : Appended(r) = {}
  <2>1. /\ DOMAIN log'[p] = DOMAIN log[p] \cup DOMAIN log[q]
        /\ \A i \in DOMAIN log[p] : log'[p][i] = log[p][i]
        /\ \A i \in DOMAIN log[q] : log'[p][i] = log[q][i]
        /\ \A r \in Peers : r # p => log'[r] = log[r]
    BY <1>3, ReceiveFacts DEF ReplicaInv
  <2>2. \A i \in DOMAIN log[q] : log[q][i].author = p => i \in DOMAIN log[p]
    BY DEF ReplicaInv, IInv, AuthorsHoldTheirOwn
  <2> QED
    BY <2>1, <2>2 DEF Appended
<1> QED
  BY <1>1, <1>2, <1>3 DEF Next

\* The model that a device derives after an edit shows what was edited.
LEMMA EditShows ==
  ASSUME NEW l, NEW next, NEW id, NEW p, NEW kind, NEW data, Made(l, next, id, p, kind, data),
         Asked(l, p, kind, data), Prompted(l, kind, data)
  PROVE  Shows(Rebuild(l), Rebuild(next), next[id])
<1> DEFINE r == Rebuild(l)
           f == Rebuild(next)
<1>1. next[id].author = p /\ next[id].kind = kind /\ next[id].data = data
      /\ kind \in Kinds \ {"create"}
  BY DEF Made
<1>2. Edited(r, f, p, kind, data)
  BY EditedModel
<1>3. /\ f.deleted <=> kind = "delete"
      /\ kind = "kick" => data \in f.banned
      /\ kind = "unban" => data \notin f.banned
      /\ kind = "revoke" => data \in f.revoked
      /\ kind = "invite" => data \notin f.revoked
  BY EditedGathered DEF Prompted
<1>4. kind # "admit" => MayChange(r, p, kind, data)
  BY DEF Asked
<1> HIDE DEF r, f
<1>5. CASE kind = "admit"
  <2>1. data.peer \in DOMAIN f.members
    BY <1>2, <1>5 DEF Edited, Insert
  <2> QED
    BY <1>1, <1>3, <1>5, <2>1 DEF Shows, IsMember, f
<1>6. CASE kind \in Expulsions
  <2>1. data \notin DOMAIN f.members
    BY <1>2, <1>6 DEF Edited, Without, Restrict
  <2> QED
    BY <1>1, <1>3, <1>6, <2>1 DEF Shows, IsMember, Expulsions, f
<1>7. CASE kind = "leave"
  <2>1. p \notin DOMAIN f.members
    BY <1>2, <1>7 DEF Edited, Without, Restrict
  <2> QED
    BY <1>1, <1>7, <2>1 DEF Shows, IsMember, f
<1>8. CASE kind = "profile"
  <2>1. p \in DOMAIN r.members
    BY <1>4, <1>8 DEF MayChange, IsMember, Administrative
  <2>2. f.members[p].profile = data
    <3>1. f.members = [r.members EXCEPT ![p].profile = data]
      BY <1>2, <1>8 DEF Edited
    <3> QED
      BY <2>1, <3>1
  <2> QED
    BY <1>1, <1>8, <2>2 DEF Shows, f
<1>9. CASE kind = "admin"
  <2>1. data.peer \in DOMAIN r.members \ {Owner} /\ data \in [peer : Peers, enabled : BOOLEAN]
    BY <1>4, <1>9 DEF MayChange, Made, MeantData
  <2>2. data.peer \in DOMAIN f.members /\ f.members[data.peer].admin = data.enabled
    <3>1. f.members = [r.members EXCEPT ![data.peer].admin = data.enabled]
      BY <1>2, <1>9 DEF Edited
    <3>2. data.peer \in DOMAIN f.members
      BY <2>1, <3>1
    <3>3. f.members[data.peer].admin = data.enabled
      BY <2>1, <3>1
    <3> QED
      BY <3>2, <3>3
  <2>3. CanAdmin(f, data.peer) <=> f.members[data.peer].admin
    BY <1>3, <1>9, <2>1, <2>2 DEF CanAdmin, IsMember
  <2>4. data.enabled \in BOOLEAN /\ CanAdmin(f, data.peer) \in BOOLEAN
    BY <2>1 DEF CanAdmin, IsMember
  <2>5. CanAdmin(f, data.peer) = data.enabled
    BY <2>2, <2>3, <2>4
  <2> QED
    BY <1>1, <1>9, <2>5 DEF Shows, f
<1>10. CASE kind = "priority"
  <2>1. f.priority = data
    BY <1>2, <1>10, OrderIsKept DEF Edited, Prompted, Arranges, r
  <2> QED
    BY <1>1, <1>10, <2>1 DEF Shows, f
<1>11. CASE kind \in {"channel", "delete-channel"}
  <2>1. kind = "delete-channel" => f.channels = Without(r.channels, data)
    BY <1>2 DEF Edited
  <2>2. kind = "channel" =>
          f.channels = IF \/ data.id \in DOMAIN r.channels
                          \/ Cardinality(DOMAIN r.channels) < MaxChannels
                       THEN Insert(r.channels, data.id, data.name) ELSE r.channels
    BY <1>2 DEF Edited
  <2> QED
    BY <1>1, <1>11, <2>1, <2>2 DEF Shows, f, r
<1>12. CASE kind = "invite"
  <2>1. ValidCode(f, data)
    BY <1>2, <1>3, <1>12 DEF Edited, ValidCode
  <2> QED
    BY <1>1, <1>12, <2>1 DEF Shows, f
<1>13. CASE kind \in {"revoke", "unban", "rename", "delete"}
  BY <1>1, <1>2, <1>3, <1>13 DEF Shows, Edited, ValidCode, f
<1> QED
  BY <1>1, <1>5, <1>6, <1>7, <1>8, <1>9, <1>10, <1>11, <1>12, <1>13
     DEF Kinds, Administrative, Expulsions

\* From one model to the other nothing changes but the subject of an operation.
TouchesOnly(r, f, op) ==
    LET others(m) == Restrict(m.members, DOMAIN m.members \ Target(op))
    IN  /\ others(f) = others(r)
        /\ op.kind # "rename" => f.name = r.name
        /\ op.kind \notin {"channel", "delete-channel"} => f.channels = r.channels
        /\ op.kind # "priority" => f.priority = r.priority
        /\ op.kind # "invite" => f.invites = r.invites

\* So it is from the model before an edit to the one after it.
LEMMA EditTouches ==
  ASSUME NEW l, NEW next, NEW id, NEW p, NEW kind, NEW data, Made(l, next, id, p, kind, data),
         Asked(l, p, kind, data)
  PROVE  TouchesOnly(Rebuild(l), Rebuild(next), next[id])
<1> DEFINE r == Rebuild(l)
           f == Rebuild(next)
           op == next[id]
           T == Target(op)
<1>1. op.author = p /\ op.kind = kind /\ op.data = data
  BY DEF Made
<1>2. Edited(r, f, p, kind, data)
  BY EditedModel
<1> HIDE DEF r, f
<1>3. /\ kind # "rename" => f.name = r.name
      /\ kind \notin {"channel", "delete-channel"} => f.channels = r.channels
      /\ kind # "priority" => f.priority = r.priority
      /\ kind # "invite" => f.invites = r.invites
  BY <1>2 DEF Edited
<1>4. /\ DOMAIN f.members \ T = DOMAIN r.members \ T
      /\ \A q \in DOMAIN r.members \ T : f.members[q] = r.members[q]
  <2>1. CASE kind = "admit"
    <3>1. T = {data.peer}
      BY <1>1, <2>1 DEF Target, Expulsions
    <3> QED
      BY <1>2, <2>1, <3>1 DEF Edited, Insert
  <2>2. CASE kind \in Expulsions
    <3>1. T = {data}
      BY <1>1, <2>2 DEF Target, Expulsions
    <3> QED
      BY <1>2, <2>2, <3>1 DEF Edited, Without, Restrict
  <2>3. CASE kind = "leave"
    <3>1. T = {p}
      BY <1>1, <2>3 DEF Target, Expulsions
    <3> QED
      BY <1>2, <2>3, <3>1 DEF Edited, Without, Restrict
  <2>4. CASE kind = "profile"
    <3>1. T = {p}
      BY <1>1, <2>4 DEF Target, Expulsions
    <3>2. f.members = [r.members EXCEPT ![p].profile = data]
      BY <1>2, <2>4 DEF Edited
    <3> HIDE DEF T
    <3> QED
      BY <3>1, <3>2
  <2>5. CASE kind = "admin"
    <3>1. T = {data.peer}
      BY <1>1, <2>5 DEF Target, Expulsions
    <3>2. f.members = [r.members EXCEPT ![data.peer].admin = data.enabled]
      BY <1>2, <2>5 DEF Edited
    <3> HIDE DEF T
    <3> QED
      BY <3>1, <3>2
  <2>6. CASE kind \notin Expulsions \cup {"admit", "leave", "profile", "admin"}
    BY <1>2, <2>6 DEF Edited
  <2> QED
    BY <2>1, <2>2, <2>3, <2>4, <2>5, <2>6
<1> HIDE DEF T
<1>5. Restrict(f.members, DOMAIN f.members \ T) = Restrict(r.members, DOMAIN r.members \ T)
  BY <1>4 DEF Restrict
<1> QED
  BY <1>1, <1>3, <1>5 DEF r, f, T, TouchesOnly

(***************************************************************************)
(* The theorems.                                                           *)
(***************************************************************************)

\* On every device, whoever is a member has an admission made after every removal by
\* the owner and every departure of his, after an unban of every ban, and under an
\* invite that the owner had not revoked: a merge in any order cannot bring back
\* somebody who was removed (Admissible and the passes after the loop of
\* Model::rebuild).
THEOREM RemovalsWinThm == Spec => []RemovalsWin
<1>1. ReplicaInv => RemovalsWin
  <2> SUFFICES ASSUME ReplicaInv, NEW p \in Holders, NEW q \in DOMAIN model[p].members \ {Owner}
        PROVE  \E a \in DOMAIN log[p] : Stands(log[p], a, q)
    BY DEF RemovalsWin, Stands
  <2>1. /\ p \in Peers /\ SoundLog(log[p]) /\ IsFiniteSet(DOMAIN log[p]) /\ Meant(log[p])
        /\ model[p] = Rebuild(log[p])
    BY DEF ReplicaInv, IInv, SoundLogs, LogsMeant, ModelsDerived, Holders
  <2> QED
    BY <2>1, MembersStand
<1> QED
  BY <1>1, ReplicasInvariant, PTL

\* On every device, an admin's invite is in the model only under a grant of the owner
\* that no demotion, concurrent with the invite or before it, has withdrawn
\* (authorized in Model::rebuild).  That codes are issued once makes the invite that
\* the property picks the one that the loop applied.
THEOREM DemotionsWinThm == Spec => []DemotionsWin
<1>1. ReplicaInv => DemotionsWin
  <2> SUFFICES ASSUME ReplicaInv, NEW p \in Holders, NEW c \in model[p].invites
        PROVE  LET l == log[p]
                   i == CHOOSE x \in DOMAIN l : l[x].kind = "invite" /\ l[x].data = c
                   role(enabled) == {x \in DOMAIN l : /\ l[x].kind = "admin" /\ l[x].author = Owner
                                               /\ l[x].data = [peer |-> l[i].author,
                                                               enabled |-> enabled]}
               IN  l[i].author # Owner =>
                     /\ role(TRUE) \cap l[i].past # {}
                     /\ \A d \in role(FALSE) : \/ i \in l[d].past
                                        \/ \E g \in role(TRUE) : d \in l[g].past /\ g \in l[i].past
    BY DEF DemotionsWin
  <2> DEFINE l == log[p]
             i == CHOOSE x \in DOMAIN l : l[x].kind = "invite" /\ l[x].data = c
  <2>1. /\ p \in Peers /\ SoundLog(l) /\ IsFiniteSet(DOMAIN l) /\ Meant(l)
        /\ model[p] = Rebuild(l)
    BY DEF ReplicaInv, IInv, SoundLogs, LogsMeant, ModelsDerived, Holders
  <2>2. PICK k \in DOMAIN l : l[k].kind = "invite" /\ l[k].data = c /\ Authorized(l, k)
    BY <2>1, InvitesStand DEF InvitedUnder
  <2>3. i \in DOMAIN l /\ l[i].kind = "invite" /\ l[i].data = c
    BY <2>2
  <2>4. i = k
    <3> HIDE DEF i
    <3> QED BY <2>1, <2>2, <2>3 DEF ReplicaInv, CodesIssuedOnce
  <2>5. Authorized(l, i)
    BY <2>2, <2>4
  <2> HIDE DEF l, i
  <2> QED
    BY <2>1, <2>3, <2>5, GrantsOutlast DEF l, i
<1> QED
  BY <1>1, ReplicasInvariant, PTL

\* Every log holds well-formed operations, every model is made of peers, codes,
\* channels and names, with a grant at hand for exactly the admins.
THEOREM ReplicaTypesThm == Spec => []TypeOK
<1>1. ReplicaInv => TypeOK
  <2> SUFFICES ASSUME ReplicaInv, NEW p \in Peers
        PROVE  /\ DOMAIN log[p] \subseteq Ids
               /\ \A i \in DOMAIN log[p] : OperationOK(log[p][i])
               /\ ModelOK(model[p])
    BY DEF TypeOK, ReplicaInv, IInv, ModelsDerived
  <2>1. SoundLog(log[p]) /\ IsFiniteSet(DOMAIN log[p]) /\ Meant(log[p])
    BY DEF ReplicaInv, IInv, SoundLogs, LogsMeant, Holds, SoundLog
  <2>2. DOMAIN log[p] \subseteq Ids /\ \A i \in DOMAIN log[p] : log[p][i].past \subseteq DOMAIN log[p]
    BY <2>1 DEF SoundLog
  <2>3. DOMAIN log[p] \subseteq AllIds
    BY DEF AllIds
  <2>4. \A i \in DOMAIN log[p] : OperationOK(log[p][i])
    BY <2>1, <2>2, <2>3 DEF OperationOK, Meant
  <2>5. CASE Holds(p)
    <3>1. Fits(log[p], model[p])
      BY <2>1, <2>5, RebuiltFits DEF ReplicaInv, ModelsDerived
    <3> DEFINE m == model[p]
    <3>2. m.members \in UNION {[S -> [admin : BOOLEAN, profile : Names]] : S \in SUBSET Peers}
      BY <3>1 DEF Fits, RolesFit
    <3>3. m.channels \in UNION {[S -> Names] : S \in SUBSET Channels}
      BY <3>1 DEF Fits, SettingsFit
    <3>4. DOMAIN m.grants = {q \in DOMAIN m.members \ {Owner} : m.members[q].admin}
      BY <3>1 DEF Fits, RolesFit
    <3> QED
      BY <2>2, <2>4, <3>1, <3>2, <3>3, <3>4 DEF ModelOK, Fits, SettingsFit
  <2>6. CASE ~ Holds(p)
    <3>1. model[p] = Blank
      BY <2>6 DEF ReplicaInv, ModelsDerived
    <3>2. /\ Blank.deleted = FALSE /\ Blank.name = FirstName /\ Blank.members = <<>>
          /\ Blank.channels = <<>> /\ Blank.priority = <<>> /\ Blank.revoked = {}
          /\ Blank.banned = {} /\ Blank.invites = {} /\ Blank.grants = <<>>
      BY DEF Blank
    <3>3. FirstName \in Names
      BY ModelAssumption DEF FirstName
    <3>4. <<>> \in [{} -> [admin : BOOLEAN, profile : Names]] /\ <<>> \in [{} -> Names]
          /\ <<>> \in Seq(Peers) /\ DOMAIN <<>> = {}
      OBVIOUS
    <3> DEFINE m == Blank
    <3>5. m.members \in UNION {[S -> [admin : BOOLEAN, profile : Names]] : S \in SUBSET Peers}
      BY <3>2, <3>4
    <3>6. m.channels \in UNION {[S -> Names] : S \in SUBSET Channels}
      BY <3>2, <3>4
    <3>7. ModelOK(m)
      BY <3>2, <3>3, <3>4, <3>5, <3>6 DEF ModelOK
    <3> QED
      BY <2>2, <2>4, <3>1, <3>7
  <2> QED
    BY <2>5, <2>6
<1> QED
  BY <1>1, ReplicasInvariant, PTL

\* An edit that passed the checks of Model::change or of acceptsIntent does what it
\* says on the device that makes it, whatever its log holds: a demoted admin's
\* concurrent edits, earlier removals and readmissions, bans and unbans.  rebuild
\* applies the new operation last, to what its loop made of the log without it, and
\* the authority, the membership and the order that it asks of it are those that the
\* checks have found in the model.  The limit of channels (model.cpp:507) is the one
\* thing it asks that they do not: a new channel beyond it changes nothing.
THEOREM EditsTakeEffectThm == Spec => EditsTakeEffect
<1>1. ReplicaInv /\ [Next]_vars
        => [\A p \in Peers : \A i \in Appended(p) : Shows(model[p], model'[p], log'[p][i])]_vars
  <2> SUFFICES ASSUME ReplicaInv, Next, NEW p \in Peers, NEW i \in Appended(p)
        PROVE  Shows(model[p], model'[p], log'[p][i])
    OBVIOUS
  <2>1. EditMade(p, i)
    BY StepsMake
  <2> QED
    BY <2>1, EditShows DEF EditMade
<1> QED
  BY <1>1, ReplicasInvariant, PTL DEF Spec, EditsTakeEffect

\* An edit changes nothing but its subject on the device that makes it: removing a host
\* keeps the members he admitted, demoting an admin keeps the settings he made, revoking
\* an invite keeps everyone, because each of those, made before, is among what the new
\* operation has seen (couldAct, authorized and the admission checks of rebuild).
THEOREM EditsTouchOnlyTheirSubjectThm == Spec => EditsTouchOnlyTheirSubject
<1> DEFINE Touches(p, i) ==
          LET op == log'[p][i]
              others(m) == Restrict(m.members, DOMAIN m.members \ Target(op))
          IN  /\ others(model'[p]) = others(model[p])
              /\ op.kind # "rename" => model'[p].name = model[p].name
              /\ op.kind \notin {"channel", "delete-channel"} =>
                    model'[p].channels = model[p].channels
              /\ op.kind # "priority" => model'[p].priority = model[p].priority
              /\ op.kind # "invite" => model'[p].invites = model[p].invites
<1>1. ReplicaInv /\ [Next]_vars => [\A p \in Peers : \A i \in Appended(p) : Touches(p, i)]_vars
  <2> SUFFICES ASSUME ReplicaInv, Next, NEW p \in Peers, NEW i \in Appended(p)
        PROVE  Touches(p, i)
    OBVIOUS
  <2>1. EditMade(p, i)
    BY StepsMake
  <2>2. TouchesOnly(Rebuild(log[p]), Rebuild(log'[p]), log'[p][i])
    BY <2>1, EditTouches DEF EditMade
  <2>3. TouchesOnly(model[p], model'[p], log'[p][i])
    BY <2>1, <2>2 DEF EditMade
  <2> QED
    BY <2>3 DEF TouchesOnly
<1> QED
  BY <1>1, ReplicasInvariant, PTL DEF Spec, EditsTouchOnlyTheirSubject
=============================================================================
