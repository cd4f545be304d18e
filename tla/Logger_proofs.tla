---------------------------- MODULE Logger_proofs ----------------------------
(***************************************************************************)
(* The queues of AsyncLogger lose nothing, and none of them starves, for    *)
(* any number of threads, queues and messages and any capacities.           *)
(***************************************************************************)
EXTENDS Logger, SequenceTheorems, TLAPS

-----------------------------------------------------------------------------
(* The invariant *)

\* A submit_guaranteed() in progress, and one that has the mutex of its queue
Guaranteeing == {"lock", "check", "block", "push", "append"}
Inside == {"check", "block", "push", "append"}

\* Nothing is submitted before the logger starts, or pushed once it is stopping.
Intake ==
  /\ phase = "new" =>
       ~accepting /\ worker = "none" /\ \A p \in Producers : at[p] = "idle"
  /\ accepting => phase = "up"

\* Each submit has a message of its own, not pushed yet, and a queue of its kind.
Submits ==
  /\ \A p \in Producers : at[p] # "idle" => msg[p] \in 1 .. submitted
  /\ \A p \in Producers : at[p] = "trylock" => ~IsGuaranteed(into[p])
  /\ \A p \in Producers : at[p] \in Guaranteeing => IsGuaranteed(into[p])
  /\ \A p, q \in Producers :
       at[p] # "idle" /\ at[q] # "idle" /\ msg[p] = msg[q] => p = q
  /\ \A p \in Producers, q \in Queues : at[p] # "idle" => ~Contains(accepted[q], msg[p])

\* A message is pushed on one queue.
Pushed ==
  /\ \A q \in Queues, m \in Messages : Contains(accepted[q], m) => m <= submitted
  /\ \A q, r \in Queues, m \in Messages :
       Contains(accepted[q], m) /\ Contains(accepted[r], m) => q = r
  /\ \A m \in evicted : \E q \in Queues : ~IsGuaranteed(q) /\ Contains(accepted[q], m)
  /\ \A q \in Queues : Conserved(accepted[q], evicted, Kept(q))

\* The mutex is held over the test for room and the push, so the room found is
\* still there, unless the logger is stopping, which wakes threads without room.
Room ==
  /\ \A p \in Producers : at[p] \in Inside => holder[into[p]] = p
  /\ \A p \in Producers :
       at[p] = "append" \/ (at[p] = "push" /\ accepting) => ~Full(into[p])

\* The worker's steps from queue i to queue q
Distance(i, q) == IF q >= i THEN q - i ELSE q - i + QueueCount

\* The longer a queue has waited the nearer it is to its turn.
Turns ==
  /\ worker \in {"none", "test", "emit", "exited"} => scanned = 0
  /\ worker = "search" => scanned < QueueCount
  /\ worker = "emit" => hand.message \in Messages
  /\ bypassed \in [Queues -> Nat]
  /\ \A q \in Queues : queue[q] = <<>> => bypassed[q] = 0
  /\ \A q \in Queues : bypassed[q] + Distance(nextIdx, q) < QueueCount
  /\ worker = "scan" =>
       \A q \in Queues : Distance(nextIdx, q) < scanned => bypassed[q] = 0

BacklogInv == LoggerTypeOK /\ Intake /\ Submits /\ Pushed /\ Room /\ Turns

-----------------------------------------------------------------------------
(* Sequences of messages *)

LEMMA AppendedTo ==
  ASSUME NEW list \in Seq(Messages), NEW m \in Messages
  PROVE  /\ Append(list, m) \in Seq(Messages) /\ Len(Append(list, m)) = Len(list) + 1
         /\ Len(list) \in Nat /\ DOMAIN list = 1 .. Len(list)
         /\ DOMAIN Append(list, m) = 1 .. Len(list) + 1
         /\ \A k \in 1 .. Len(list) : Append(list, m)[k] = list[k]
         /\ Append(list, m)[Len(list) + 1] = m
OBVIOUS

\* What a list contains once a message is appended.
LEMMA AppendContains ==
  ASSUME NEW list \in Seq(Messages), NEW m \in Messages
  PROVE  \A n : Contains(Append(list, m), n) <=> Contains(list, n) \/ n = m
<1> DEFINE new == Append(list, m)
           len == Len(list)
<1>1. /\ len \in Nat /\ DOMAIN list = 1 .. len /\ DOMAIN new = 1 .. len + 1
      /\ \A k \in 1 .. len : new[k] = list[k]
      /\ new[len + 1] = m
  BY AppendedTo
<1> HIDE DEF new, len
<1>2. \A k \in 1 .. len + 1 : k \in 1 .. len \/ k = len + 1
  BY <1>1
<1>3. \A k \in 1 .. len : k \in 1 .. len + 1
  BY <1>1
<1>4. len + 1 \in 1 .. len + 1
  BY <1>1
<1>5. \A n : Contains(new, n) <=> Contains(list, n) \/ n = m
  BY <1>1, <1>2, <1>3, <1>4 DEF Contains
<1> QED BY <1>5 DEF new

\* A message pushed at the end of both is kept.
LEMMA ConservedPush ==
  ASSUME NEW pushed \in Seq(Messages), NEW kept \in Seq(Messages), NEW lost,
         NEW m \in Messages, Conserved(pushed, lost, kept),
         ~Contains(pushed, m), m \notin lost
  PROVE  Conserved(Append(pushed, m), lost, Append(kept, m))
<1> DEFINE new == Append(pushed, m)
           keeps == Append(kept, m)
           a == Len(pushed)
           b == Len(kept)
<1>1. /\ a \in Nat /\ DOMAIN pushed = 1 .. a /\ DOMAIN new = 1 .. a + 1
      /\ \A k \in 1 .. a : new[k] = pushed[k]
      /\ new[a + 1] = m
  BY AppendedTo
<1>2. /\ b \in Nat /\ DOMAIN kept = 1 .. b /\ DOMAIN keeps = 1 .. b + 1
      /\ \A k \in 1 .. b : keeps[k] = kept[k] /\ kept[k] \in Messages
      /\ keeps[b + 1] = m
  BY AppendedTo
<1>3. /\ \A n : Contains(new, n) <=> Contains(pushed, n) \/ n = m
      /\ \A n : Contains(keeps, n) <=> Contains(kept, n) \/ n = m
  BY AppendContains
<1> HIDE DEF new, keeps, a, b
<1>4. \A j, k \in 1 .. a + 1 : new[j] = new[k] => j = k
  <2> SUFFICES ASSUME NEW j \in 1 .. a + 1, NEW k \in 1 .. a + 1, new[j] = new[k]
               PROVE  j = k
    OBVIOUS
  <2>1. \A i \in 1 .. a : pushed[i] # m
    BY <1>1 DEF Contains
  <2>2. CASE j \in 1 .. a /\ k \in 1 .. a
    BY <1>1, <2>2 DEF Conserved
  <2>3. CASE j \notin 1 .. a \/ k \notin 1 .. a
    <3>1. (j \in 1 .. a \/ j = a + 1) /\ (k \in 1 .. a \/ k = a + 1)
      BY <1>1
    <3> QED BY <1>1, <2>1, <2>3, <3>1
  <2> QED BY <2>2, <2>3
<1>5. \A n \in Messages : Contains(keeps, n) <=> Contains(new, n) /\ n \notin lost
  BY <1>3 DEF Conserved
<1>6. \A j, k \in 1 .. b + 1 : j < k => Precedes(new, keeps[j], keeps[k])
  <2> SUFFICES ASSUME NEW j \in 1 .. b + 1, NEW k \in 1 .. b + 1, j < k
               PROVE  Precedes(new, keeps[j], keeps[k])
    OBVIOUS
  <2>1. j \in 1 .. b /\ keeps[j] = kept[j]
    BY <1>2
  <2>2. CASE k \in 1 .. b
    <3>1. PICK x \in 1 .. a, y \in 1 .. a :
            x < y /\ pushed[x] = kept[j] /\ pushed[y] = kept[k]
      <4>1. Precedes(pushed, kept[j], kept[k])
        BY <1>2, <2>1, <2>2 DEF Conserved
      <4> QED BY <1>1, <4>1 DEF Precedes
    <3>2. x \in 1 .. a + 1 /\ y \in 1 .. a + 1
      BY <1>1
    <3> QED BY <1>1, <1>2, <2>1, <2>2, <3>1, <3>2 DEF Precedes
  <2>3. CASE k = b + 1
    <3>1. Contains(kept, kept[j]) /\ kept[j] \in Messages
      BY <1>2, <2>1 DEF Contains
    <3>2. PICK x \in 1 .. a : pushed[x] = kept[j]
      BY <1>1, <3>1 DEF Conserved, Contains
    <3>3. x \in 1 .. a + 1 /\ a + 1 \in 1 .. a + 1 /\ x < a + 1
      BY <1>1
    <3> QED BY <1>1, <1>2, <2>1, <2>3, <3>2, <3>3 DEF Precedes
  <2> QED BY <1>2, <2>2, <2>3
<1>7. Conserved(new, lost, keeps)
  BY <1>1, <1>2, <1>4, <1>5, <1>6 DEF Conserved
<1> QED BY <1>7 DEF new, keeps

\* The places of two lists joined.
LEMMA Joined ==
  ASSUME NEW a \in Seq(Messages), NEW b \in Seq(Messages)
  PROVE  /\ a \o b \in Seq(Messages) /\ Len(a \o b) = Len(a) + Len(b)
         /\ Len(a) \in Nat /\ Len(b) \in Nat
         /\ DOMAIN a = 1 .. Len(a) /\ DOMAIN b = 1 .. Len(b)
         /\ DOMAIN (a \o b) = 1 .. Len(a) + Len(b)
         /\ \A k \in 1 .. Len(a) : (a \o b)[k] = a[k]
         /\ \A k \in 1 .. Len(b) : (a \o b)[Len(a) + k] = b[k]
<1> DEFINE c == a \o b
<1>1. /\ c \in Seq(Messages) /\ Len(c) = Len(a) + Len(b)
      /\ \A i \in 1 .. Len(a) + Len(b) : c[i] = IF i <= Len(a) THEN a[i] ELSE b[i - Len(a)]
  BY ConcatProperties
<1>2. Len(a) \in Nat /\ Len(b) \in Nat /\ DOMAIN a = 1 .. Len(a) /\ DOMAIN b = 1 .. Len(b)
  OBVIOUS
<1> DEFINE n == Len(a)
           m == Len(b)
<1> HIDE DEF c, n, m
<1>3. /\ c \in Seq(Messages) /\ Len(c) = n + m /\ n \in Nat /\ m \in Nat
      /\ \A i \in 1 .. n + m : c[i] = IF i <= n THEN a[i] ELSE b[i - n]
  BY <1>1, <1>2 DEF n, m
<1>4. DOMAIN c = 1 .. n + m
  BY <1>3
<1>5. \A k \in 1 .. n : c[k] = a[k]
  BY <1>3
<1>6. \A k \in 1 .. m : c[n + k] = b[k]
  <2> SUFFICES ASSUME NEW k \in 1 .. m PROVE c[n + k] = b[k]
    OBVIOUS
  <2>1. n + k \in 1 .. n + m /\ ~(n + k <= n) /\ (n + k) - n = k
    BY <1>3
  <2>2. c[n + k] = b[(n + k) - n]
    BY <1>3, <2>1
  <2> QED BY <2>1, <2>2
<1> QED BY <1>1, <1>2, <1>4, <1>5, <1>6 DEF c, n, m

\* A message may be lost anywhere: the others keep their order.
LEMMA ConservedLose ==
  ASSUME NEW pushed \in Seq(Messages), NEW lost, NEW m \in Messages,
         NEW a \in Seq(Messages), NEW b \in Seq(Messages),
         Conserved(pushed, lost, a \o (<<m>> \o b))
  PROVE  Conserved(pushed, lost \union {m}, a \o b) /\ Contains(pushed, m)
<1> DEFINE old == a \o (<<m>> \o b)
           new == a \o b
           x == Len(a)
           y == Len(b)
           from(k) == IF k <= x THEN k ELSE k + 1
<1>1. <<m>> \in Seq(Messages) /\ Len(<<m>>) = 1 /\ <<m>>[1] = m
  OBVIOUS
<1>2. /\ x \in Nat /\ y \in Nat /\ DOMAIN new = 1 .. x + y
      /\ \A k \in 1 .. x : new[k] = a[k]
      /\ \A k \in 1 .. y : new[x + k] = b[k]
      /\ \A k \in 1 .. x + y : new[k] \in Messages
  <2>1. new \in Seq(Messages)
    BY Joined
  <2> QED BY <2>1, Joined
<1>3. /\ <<m>> \o b \in Seq(Messages) /\ Len(<<m>> \o b) = 1 + y
      /\ (<<m>> \o b)[1] = m
      /\ \A k \in 1 .. y : (<<m>> \o b)[1 + k] = b[k]
  BY <1>1, Joined
<1>4. /\ DOMAIN old = 1 .. x + (1 + y)
      /\ \A k \in 1 .. x : old[k] = a[k]
      /\ \A k \in 1 .. 1 + y : old[x + k] = (<<m>> \o b)[k]
  <2> DEFINE c == <<m>> \o b
  <2>1. c \in Seq(Messages) /\ Len(c) = 1 + y
    BY <1>3
  <2> HIDE DEF c
  <2>2. /\ DOMAIN (a \o c) = 1 .. x + Len(c)
        /\ \A k \in 1 .. x : (a \o c)[k] = a[k]
        /\ \A k \in 1 .. Len(c) : (a \o c)[x + k] = c[k]
    BY <2>1, Joined
  <2> QED BY <2>1, <2>2 DEF c
<1>5. Conserved(pushed, lost, old)
  OBVIOUS
<1> HIDE DEF old, new, x, y
<1>6. x + 1 \in 1 .. x + (1 + y) /\ old[x + 1] = m
  BY <1>2, <1>3, <1>4
<1>7. \A k \in 1 .. x + y :
        from(k) \in 1 .. x + (1 + y) /\ old[from(k)] = new[k] /\ from(k) # x + 1
  <2> SUFFICES ASSUME NEW k \in 1 .. x + y
               PROVE  /\ from(k) \in 1 .. x + (1 + y) /\ old[from(k)] = new[k]
                      /\ from(k) # x + 1
    OBVIOUS
  <2>1. CASE k <= x
    <3>1. from(k) = k /\ k \in 1 .. x /\ k \in 1 .. x + (1 + y) /\ k # x + 1
      <4>1. x \in Nat /\ y \in Nat
        BY <1>2
      <4>2. from(k) = k
        BY <2>1
      <4>3. k \in 1 .. x /\ k \in 1 .. x + (1 + y) /\ k # x + 1
        BY <2>1, <4>1
      <4> QED BY <4>2, <4>3
    <3> HIDE DEF from
    <3> QED BY <1>2, <1>4, <3>1
  <2>2. CASE ~(k <= x)
    <3> DEFINE i == k - x
    <3>1. i \in 1 .. y /\ 1 + i \in 1 .. 1 + y /\ k = x + i /\ k + 1 = x + (1 + i)
          /\ from(k) = k + 1 /\ k + 1 \in 1 .. x + (1 + y) /\ k + 1 # x + 1
      BY <1>2, <2>2
    <3> HIDE DEF i, from
    <3>2. new[k] = b[i]
      BY <1>2, <3>1
    <3>3. old[k + 1] = b[i]
      BY <1>3, <1>4, <3>1
    <3> QED BY <3>1, <3>2, <3>3
  <2> QED BY <2>1, <2>2
<1>8. \A k \in 1 .. x + (1 + y) : k = x + 1 \/ \E j \in 1 .. x + y : from(j) = k
  <2> SUFFICES ASSUME NEW k \in 1 .. x + (1 + y), k # x + 1
               PROVE  \E j \in 1 .. x + y : from(j) = k
    OBVIOUS
  <2>1. CASE k <= x
    <3>1. k \in 1 .. x + y /\ from(k) = k
      BY <1>2, <2>1
    <3> QED BY <3>1
  <2>2. CASE ~(k <= x)
    <3>1. k - 1 \in 1 .. x + y /\ from(k - 1) = k
      BY <1>2, <2>2
    <3> QED BY <3>1
  <2> QED BY <2>1, <2>2
<1>9. \A j, k \in 1 .. x + y : j < k => from(j) < from(k)
  BY <1>2
<1> HIDE DEF from
<1>10. Contains(old, m)
  BY <1>4, <1>6 DEF Contains
<1>11. \A j, k \in 1 .. x + (1 + y) : j < k => old[j] # old[k]
  <2> SUFFICES ASSUME NEW j \in 1 .. x + (1 + y), NEW k \in 1 .. x + (1 + y), j < k,
                      old[j] = old[k]
               PROVE  FALSE
    OBVIOUS
  <2>1. PICK u \in DOMAIN pushed, v \in DOMAIN pushed :
          u < v /\ pushed[u] = old[j] /\ pushed[v] = old[k]
    BY <1>4, <1>5 DEF Conserved, Precedes
  <2>2. u = v
    BY <1>5, <2>1 DEF Conserved
  <2>3. u \in Nat
    OBVIOUS
  <2> QED BY <2>1, <2>2, <2>3
<1>12. \A k \in 1 .. x + y : new[k] # m
  <2> SUFFICES ASSUME NEW k \in 1 .. x + y, new[k] = m PROVE FALSE
    OBVIOUS
  <2>1. from(k) \in 1 .. x + (1 + y) /\ old[from(k)] = old[x + 1] /\ from(k) # x + 1
    BY <1>6, <1>7
  <2>2. from(k) < x + 1 \/ x + 1 < from(k)
    BY <1>2, <2>1
  <2> QED BY <1>6, <1>11, <2>1, <2>2
<1>13. \A n : Contains(old, n) <=> Contains(new, n) \/ n = m
  <2> SUFFICES ASSUME NEW n PROVE Contains(old, n) <=> Contains(new, n) \/ n = m
    OBVIOUS
  <2>1. ASSUME Contains(old, n) PROVE Contains(new, n) \/ n = m
    <3>1. PICK k \in 1 .. x + (1 + y) : old[k] = n
      BY <1>4, <2>1 DEF Contains
    <3>2. CASE k = x + 1
      BY <1>6, <3>1, <3>2
    <3>3. CASE k # x + 1
      <4>1. PICK j \in 1 .. x + y : from(j) = k
        BY <1>8, <3>3
      <4>2. new[j] = n
        BY <1>7, <3>1, <4>1
      <4> QED BY <1>2, <4>2 DEF Contains
    <3> QED BY <3>2, <3>3
  <2>2. ASSUME Contains(new, n) PROVE Contains(old, n)
    <3>1. PICK k \in 1 .. x + y : new[k] = n
      BY <1>2, <2>2 DEF Contains
    <3>2. from(k) \in DOMAIN old /\ old[from(k)] = n
      BY <1>4, <1>7, <3>1
    <3> QED BY <3>2 DEF Contains
  <2> QED BY <1>10, <2>1, <2>2
<1>14. ~Contains(new, m)
  BY <1>2, <1>12 DEF Contains
<1>15. \A n \in Messages :
         Contains(new, n) <=> Contains(pushed, n) /\ n \notin lost \union {m}
  BY <1>5, <1>13, <1>14 DEF Conserved
<1>16. \A j, k \in DOMAIN new : j < k => Precedes(pushed, new[j], new[k])
  BY <1>2, <1>4, <1>5, <1>7, <1>9 DEF Conserved
<1>17. Conserved(pushed, lost \union {m}, new)
  BY <1>5, <1>15, <1>16 DEF Conserved
<1>18. Contains(pushed, m)
  BY <1>5, <1>10 DEF Conserved
<1> QED BY <1>17, <1>18 DEF new

\* A message lost elsewhere is not missed.
LEMMA ConservedElse ==
  ASSUME NEW pushed, NEW lost, NEW kept, NEW m,
         Conserved(pushed, lost, kept), ~Contains(pushed, m)
  PROVE  Conserved(pushed, lost \union {m}, kept)
BY DEF Conserved

\* A list is its head and then its tail.
LEMMA HeadFirst ==
  ASSUME NEW list \in Seq(Messages), list # <<>>
  PROVE  /\ <<Head(list)>> \o Tail(list) = list
         /\ Head(list) \in Messages /\ Tail(list) \in Seq(Messages)
         /\ Len(list) \in Nat \ {0} /\ Len(Tail(list)) = Len(list) - 1
<1>1. Head(list) \in Messages /\ Tail(list) \in Seq(Messages) /\ Len(Tail(list)) = Len(list) - 1
      /\ \A i \in 1 .. Len(Tail(list)) : Tail(list)[i] = list[i + 1]
      /\ Len(list) \in Nat \ {0} /\ Head(list) = list[1]
  BY HeadTailProperties, EmptySeq
<1>2. <<Head(list)>> \in Seq(Messages) /\ Len(<<Head(list)>>) = 1
      /\ <<Head(list)>>[1] = Head(list)
  BY <1>1
<1> DEFINE new == <<Head(list)>> \o Tail(list)
<1>3. /\ new \in Seq(Messages) /\ Len(new) = Len(list)
      /\ \A i \in 1 .. Len(list) : new[i] = list[i]
  <2> HIDE DEF new
  <2>1. /\ new \in Seq(Messages) /\ Len(new) = 1 + Len(Tail(list))
        /\ \A i \in 1 .. 1 + Len(Tail(list)) :
             new[i] = IF i <= 1 THEN <<Head(list)>>[i] ELSE Tail(list)[i - 1]
    BY <1>1, <1>2, ConcatProperties DEF new
  <2> QED BY <1>1, <1>2, <2>1
<1>4. new = list
  BY <1>3, SeqEqual
<1> QED BY <1>1, <1>4

\* Appending is joining a list of one.
LEMMA LastAppended ==
  ASSUME NEW list \in Seq(Messages), NEW m \in Messages
  PROVE  Append(list, m) = list \o <<m>>
<1> DEFINE new == list \o <<m>>
<1>1. <<m>> \in Seq(Messages) /\ Len(<<m>>) = 1 /\ <<m>>[1] = m
  OBVIOUS
<1>2. /\ new \in Seq(Messages) /\ Len(new) = Len(list) + 1
      /\ \A i \in 1 .. Len(list) + 1 :
           new[i] = IF i <= Len(list) THEN list[i] ELSE <<m>>[i - Len(list)]
  BY <1>1, ConcatProperties
<1>3. /\ Append(list, m) \in Seq(Messages) /\ Len(Append(list, m)) = Len(list) + 1
      /\ \A i \in 1 .. Len(list) + 1 :
           Append(list, m)[i] = IF i <= Len(list) THEN list[i] ELSE m
  OBVIOUS
<1> HIDE DEF new
<1>4. \A i \in 1 .. Len(new) : new[i] = Append(list, m)[i]
  BY <1>1, <1>2, <1>3
<1>5. new = Append(list, m)
  BY <1>2, <1>3, <1>4, SeqEqual
<1> QED BY <1>5 DEF new

-----------------------------------------------------------------------------
(* Types *)

LEMMA Ranges ==
  /\ QueueCount \in Nat \ {0} /\ MaxMessages \in Nat
  /\ Queues \subseteq Nat /\ Messages \subseteq Nat
  /\ \A q \in Queues : Capacity[q] \in Nat \ {0}
  /\ 0 \in Queues /\ 0 \in 0 .. MaxMessages
BY LoggerAssumption DEF Queues, Messages

\* The queue and the message of a submit in progress
LEMMA InProgress ==
  ASSUME BacklogInv, NEW p \in Producers, at[p] # "idle"
  PROVE  msg[p] \in Messages /\ into[p] \in Queues /\ msg[p] \in 0 .. MaxMessages
<1>1. msg[p] \in 1 .. submitted /\ submitted \in 0 .. MaxMessages /\ into[p] \in Queues
  BY DEF BacklogInv, Submits, LoggerTypeOK
<1> QED BY <1>1, Ranges DEF Messages

\* A submit that returns leaves its thread idle and the others alone.
LEMMA ReturnTypes ==
  ASSUME BacklogInv, NEW p \in Producers, NEW pushed, at[p] # "idle", Return(p, pushed)
  PROVE  /\ at' \in [Producers -> {"idle", "trylock", "lock", "check", "block", "push", "append"}]
         /\ into' \in [Producers -> Queues] /\ msg' \in [Producers -> 0 .. MaxMessages]
         /\ settled' \subseteq Messages
         /\ at'[p] = "idle"
         /\ \A r \in Producers : r # p => at'[r] = at[r] /\ into'[r] = into[r] /\ msg'[r] = msg[r]
BY InProgress, Ranges DEF Return, BacklogInv, LoggerTypeOK

\* Start and shutdown keep the types.
LEMMA TypesOfIntake ==
  ASSUME BacklogInv, Start \/ StopAccepting \/ NotifyAll
  PROVE  LoggerTypeOK'
<1>1. CASE Start
  BY <1>1 DEF Start, BacklogInv, LoggerTypeOK, submit
<1>2. CASE StopAccepting
  BY <1>2 DEF StopAccepting, BacklogInv, LoggerTypeOK, submit, pass
<1>3. CASE NotifyAll
  BY <1>3 DEF NotifyAll, BacklogInv, LoggerTypeOK, pass
<1> QED BY <1>1, <1>2, <1>3

\* The worker keeps the types.
LEMMA TypesOfWorker ==
  ASSUME BacklogInv, Working
  PROVE  LoggerTypeOK'
<1> USE DEF intake, submit
<1>1. CASE Test
  BY <1>1 DEF Test, BacklogInv, LoggerTypeOK
<1>2. CASE Search
  <2>1. scanned' \in 0 .. QueueCount
    BY <1>2, Ranges DEF Search, BacklogInv, LoggerTypeOK
  <2> QED BY <1>2, <2>1 DEF Search, BacklogInv, LoggerTypeOK
<1>3. CASE LookOn
  <2>1. scanned' \in 0 .. QueueCount
    BY <1>3, Ranges DEF LookOn, BacklogInv, LoggerTypeOK
  <2> QED BY <1>3, <2>1 DEF LookOn, BacklogInv, LoggerTypeOK
<1>4. CASE Pause
  <2>1. scanned' \in 0 .. QueueCount
    BY <1>4, Ranges DEF Pause
  <2> QED BY <1>4, <2>1 DEF Pause, BacklogInv, LoggerTypeOK
<1>5. CASE Pop
  <2> DEFINE q == Looked
  <2>1. /\ q \in Queues /\ StartsAfter(q) \in Queues /\ 0 \in 0 .. QueueCount
    BY Ranges DEF Looked, StartsAfter, Queues, BacklogInv, LoggerTypeOK
  <2>2. /\ queue[q] \in Seq(Messages) /\ queue[q] # <<>>
    BY <1>5, <2>1 DEF Pop, BacklogInv, LoggerTypeOK
  <2>3. /\ Head(queue[q]) \in Messages /\ Tail(queue[q]) \in Seq(Messages)
        /\ Len(Tail(queue[q])) = Len(queue[q]) - 1 /\ Len(queue[q]) \in Nat
    BY <2>2, HeadFirst
  <2>4. /\ queue' = [queue EXCEPT ![q] = Tail(queue[q])]
        /\ hand' = [queue |-> q, message |-> Head(queue[q])]
    BY <1>5 DEF Pop
  <2> HIDE DEF q
  <2>5. queue' \in [Queues -> Seq(Messages)]
    BY <2>1, <2>3, <2>4 DEF BacklogInv, LoggerTypeOK
  <2>6. \A r \in Queues : Len(queue'[r]) <= Capacity[r]
    <3> SUFFICES ASSUME NEW r \in Queues PROVE Len(queue'[r]) <= Capacity[r]
      OBVIOUS
    <3>1. queue \in [Queues -> Seq(Messages)] /\ Len(queue[r]) <= Capacity[r]
          /\ Capacity[r] \in Nat
      BY Ranges DEF BacklogInv, LoggerTypeOK
    <3>2. CASE r = q
      <4>1. queue'[r] = Tail(queue[q])
        BY <2>1, <2>4, <3>1, <3>2
      <4> QED BY <2>3, <3>1, <3>2, <4>1
    <3>3. CASE r # q
      BY <2>4, <3>1, <3>3
    <3> QED BY <3>2, <3>3
  <2>7. hand' \in [queue : Queues, message : 0 .. MaxMessages]
    BY <2>1, <2>3, <2>4, Ranges DEF Messages
  <2>8. nextIdx' \in Queues /\ scanned' \in 0 .. QueueCount /\ worker' = "emit"
    BY <1>5, <2>1 DEF Pop, q
  <2> QED BY <1>5, <2>5, <2>6, <2>7, <2>8 DEF Pop, BacklogInv, LoggerTypeOK
<1>6. CASE Emit
  <2>1. asleep' \subseteq Producers
    BY <1>6 DEF Emit, NotifyRoom, BacklogInv, LoggerTypeOK
  <2>2. written' \in [Queues -> Seq(Messages)]
    BY <1>6 DEF Emit, BacklogInv, LoggerTypeOK, Turns
  <2>3. hand' \in [queue : Queues, message : 0 .. MaxMessages]
    BY <1>6, Ranges DEF Emit, Nothing
  <2> QED BY <1>6, <2>1, <2>2, <2>3 DEF Emit, BacklogInv, LoggerTypeOK
<1> QED BY <1>1, <1>2, <1>3, <1>4, <1>5, <1>6 DEF Working

\* A submit keeps the types.
LEMMA TypesOfSubmit ==
  ASSUME BacklogInv, NEW p \in Producers, Submit(p) \/ Submitting(p)
  PROVE  LoggerTypeOK'
<1> USE DEF intake, pass
<1>1. CASE Submit(p)
  <2>1. submitted' \in 0 .. MaxMessages /\ submitted + 1 \in 0 .. MaxMessages
    BY <1>1, Ranges DEF Submit, BacklogInv, LoggerTypeOK
  <2>2. msg' \in [Producers -> 0 .. MaxMessages]
    <3>1. msg' = msg \/ msg' = [msg EXCEPT ![p] = submitted + 1]
      BY <1>1 DEF Submit
    <3> QED BY <2>1, <3>1 DEF BacklogInv, LoggerTypeOK
  <2>3. /\ into' \in [Producers -> Queues]
        /\ at' \in [Producers -> {"idle", "trylock", "lock", "check", "block", "push", "append"}]
    BY <1>1 DEF Submit, BacklogInv, LoggerTypeOK
  <2> QED BY <1>1, <2>1, <2>2, <2>3 DEF Submit, BacklogInv, LoggerTypeOK
<1>2. CASE GiveUp(p)
  BY <1>2, ReturnTypes DEF GiveUp, BacklogInv, LoggerTypeOK
<1>3. CASE PushRealtime(p)
  <2> DEFINE q == into[p]
             m == msg[p]
             room == MakesRoom(q)
  <2>1. q \in Queues /\ m \in Messages /\ at[p] = "trylock"
    BY <1>3, InProgress DEF PushRealtime
  <2>2. /\ queue' = [queue EXCEPT ![q] = Append(room, m)]
        /\ accepted' = [accepted EXCEPT ![q] = Append(accepted[q], m)]
        /\ evicted' = IF Len(queue[q]) >= Capacity[q]
                      THEN evicted \union {Head(queue[q])} ELSE evicted
        /\ Return(p, TRUE)
    BY <1>3 DEF PushRealtime
  <2>3. /\ queue \in [Queues -> Seq(Messages)] /\ accepted \in [Queues -> Seq(Messages)]
        /\ evicted \subseteq Messages /\ Capacity[q] \in Nat \ {0}
        /\ Len(queue[q]) <= Capacity[q] /\ queue[q] \in Seq(Messages)
    BY <2>1, Ranges DEF BacklogInv, LoggerTypeOK
  <2>4. /\ room \in Seq(Messages) /\ Len(room) + 1 <= Capacity[q]
        /\ evicted' \subseteq Messages
    <3>1. CASE Len(queue[q]) >= Capacity[q]
      <4>1. queue[q] # <<>>
        BY <2>3, <3>1
      <4>2. room = Tail(queue[q])
        BY <3>1 DEF MakesRoom
      <4>3. /\ Head(queue[q]) \in Messages /\ Tail(queue[q]) \in Seq(Messages)
            /\ Len(Tail(queue[q])) = Len(queue[q]) - 1 /\ Len(queue[q]) \in Nat
        BY <2>3, <4>1, HeadFirst
      <4>4. Len(queue[q]) - 1 + 1 <= Capacity[q]
        BY <2>3, <4>3
      <4> QED BY <2>2, <2>3, <3>1, <4>2, <4>3, <4>4
    <3>2. CASE ~(Len(queue[q]) >= Capacity[q])
      <4>1. room = queue[q]
        BY <3>2 DEF MakesRoom
      <4>2. Len(queue[q]) \in Nat /\ Capacity[q] \in Nat
        BY <2>3
      <4> QED BY <2>2, <2>3, <3>2, <4>1, <4>2
    <3> QED BY <3>1, <3>2
  <2> HIDE DEF q, m, room
  <2>5. /\ Append(room, m) \in Seq(Messages) /\ Len(Append(room, m)) <= Capacity[q]
        /\ Append(accepted[q], m) \in Seq(Messages)
    BY <2>1, <2>3, <2>4, AppendedTo
  <2>6. /\ queue' \in [Queues -> Seq(Messages)] /\ accepted' \in [Queues -> Seq(Messages)]
        /\ \A r \in Queues : Len(queue'[r]) <= Capacity[r]
    BY <2>1, <2>2, <2>3, <2>5 DEF BacklogInv, LoggerTypeOK
  <2> QED BY <1>3, <2>1, <2>2, <2>4, <2>6, ReturnTypes DEF PushRealtime, BacklogInv, LoggerTypeOK
<1>4. CASE Lock(p)
  BY <1>4 DEF Lock, BacklogInv, LoggerTypeOK
<1>5. CASE CheckRoom(p)
  BY <1>5 DEF CheckRoom, BacklogInv, LoggerTypeOK
<1>6. CASE Block(p)
  BY <1>6 DEF Block, BacklogInv, LoggerTypeOK
<1>7. CASE PushGuaranteed(p)
  <2>1. CASE accepting /\ at' = [at EXCEPT ![p] = "append"] /\ UNCHANGED <<into, msg, holder, settled>>
    BY <1>7, <2>1 DEF PushGuaranteed, BacklogInv, LoggerTypeOK
  <2>2. CASE holder' = [holder EXCEPT ![into[p]] = Nobody] /\ Return(p, FALSE)
    BY <1>7, <2>2, ReturnTypes DEF PushGuaranteed, BacklogInv, LoggerTypeOK
  <2> QED BY <1>7, <2>1, <2>2 DEF PushGuaranteed
<1>8. CASE AppendGuaranteed(p)
  <2> DEFINE q == into[p]
             m == msg[p]
  <2>1. q \in Queues /\ m \in Messages /\ at[p] = "append" /\ ~Full(q)
    BY <1>8, InProgress DEF AppendGuaranteed, BacklogInv, Room
  <2>2. /\ queue' = [queue EXCEPT ![q] = Append(queue[q], m)]
        /\ accepted' = [accepted EXCEPT ![q] = Append(accepted[q], m)]
        /\ holder' = [holder EXCEPT ![q] = Nobody]
        /\ Return(p, TRUE)
    BY <1>8 DEF AppendGuaranteed
  <2> HIDE DEF q, m
  <2>3. /\ queue \in [Queues -> Seq(Messages)] /\ accepted \in [Queues -> Seq(Messages)]
        /\ Capacity[q] \in Nat /\ queue[q] \in Seq(Messages)
    BY <2>1, Ranges DEF BacklogInv, LoggerTypeOK
  <2>4. /\ Append(queue[q], m) \in Seq(Messages) /\ Len(Append(queue[q], m)) <= Capacity[q]
        /\ Append(accepted[q], m) \in Seq(Messages)
    BY <2>1, <2>3, AppendedTo DEF Full
  <2>5. /\ queue' \in [Queues -> Seq(Messages)] /\ accepted' \in [Queues -> Seq(Messages)]
        /\ \A r \in Queues : Len(queue'[r]) <= Capacity[r]
    BY <2>1, <2>2, <2>3, <2>4 DEF BacklogInv, LoggerTypeOK
  <2>6. holder' \in [Queues -> Producers \union {Nobody}]
    BY <2>2 DEF BacklogInv, LoggerTypeOK
  <2> QED BY <1>8, <2>1, <2>2, <2>5, <2>6, ReturnTypes
          DEF AppendGuaranteed, BacklogInv, LoggerTypeOK
<1> QED BY <1>1, <1>2, <1>3, <1>4, <1>5, <1>6, <1>7, <1>8 DEF Submitting

-----------------------------------------------------------------------------
(* The intake, the submits and the mutexes *)

LEMMA IntakeStep ==
  ASSUME BacklogInv, Next
  PROVE  Intake'
<1> USE DEF BacklogInv, LoggerTypeOK, Intake, intake, submit, pass
<1>1. CASE Start
  BY <1>1 DEF Start
<1>2. CASE StopAccepting
  BY <1>2 DEF StopAccepting
<1>3. CASE NotifyAll
  <2>1. phase = "notifying" /\ phase' \in {"notifying", "joining"} /\ UNCHANGED accepting
    BY <1>3 DEF NotifyAll
  <2> QED BY <2>1
<1>4. CASE Working
  BY <1>4 DEF Working, Test, Search, Pop, LookOn, Pause, Emit
<1>5. ASSUME NEW p \in Producers, Submit(p) PROVE Intake'
  BY <1>5 DEF Submit
<1>6. ASSUME NEW p \in Producers, Submitting(p) PROVE Intake'
  <2>1. UNCHANGED intake
    BY <1>6 DEF Submitting, GiveUp, PushRealtime, Lock, CheckRoom, Block,
                PushGuaranteed, AppendGuaranteed
  <2>2. phase # "new"
    BY <1>6 DEF Submitting, GiveUp, PushRealtime, Lock, CheckRoom, Block,
                PushGuaranteed, AppendGuaranteed
  <2> QED BY <2>1, <2>2
<1> QED BY <1>1, <1>2, <1>3, <1>4, <1>5, <1>6 DEF Next

\* A step of a submit that pushes nothing: its message and its queue stay, or
\* it returns.
LEMMA SubmitsFrame ==
  ASSUME BacklogInv, NEW p \in Producers, UNCHANGED <<accepted, submitted>>,
         \A r \in Producers : r # p =>
           at'[r] = at[r] /\ into'[r] = into[r] /\ msg'[r] = msg[r],
         at[p] # "idle",
         \/ at'[p] = "idle"
         \/ /\ at[p] \in Guaranteeing /\ at'[p] \in Guaranteeing
            /\ UNCHANGED <<into, msg>>
  PROVE  Submits'
BY DEF BacklogInv, Submits, Guaranteeing

\* The message that is pushed belongs to nobody else, and its submit returns.
LEMMA SubmitsPush ==
  ASSUME BacklogInv, NEW p \in Producers, at[p] # "idle", at'[p] = "idle",
         \A r \in Producers : r # p =>
           at'[r] = at[r] /\ into'[r] = into[r] /\ msg'[r] = msg[r],
         accepted' = [accepted EXCEPT ![into[p]] = Append(accepted[into[p]], msg[p])],
         UNCHANGED submitted
  PROVE  Submits'
<1> DEFINE q == into[p]
           m == msg[p]
<1>1. q \in Queues /\ m \in Messages /\ accepted \in [Queues -> Seq(Messages)]
  BY InProgress DEF BacklogInv, LoggerTypeOK
<1>2. \A r \in Queues : \A n : Contains(accepted'[r], n) =>
        Contains(accepted[r], n) \/ n = m
  <2> HIDE DEF q, m
  <2>1. accepted' = [accepted EXCEPT ![q] = Append(accepted[q], m)]
    BY DEF q, m
  <2>2. accepted[q] \in Seq(Messages)
    BY <1>1
  <2>3. \A n : Contains(Append(accepted[q], m), n) <=> Contains(accepted[q], n) \/ n = m
    BY <1>1, <2>2, AppendContains
  <2> QED BY <1>1, <2>1, <2>3
<1>3. \A r \in Producers : at'[r] # "idle" =>
        /\ r # p /\ at[r] # "idle" /\ at'[r] = at[r] /\ into'[r] = into[r]
        /\ msg'[r] = msg[r] /\ msg[r] # m
  BY DEF BacklogInv, Submits
<1>4. \A r \in Producers, s \in Queues : at'[r] # "idle" => ~Contains(accepted'[s], msg'[r])
  BY <1>2, <1>3 DEF BacklogInv, Submits
<1> HIDE DEF q, m
<1> QED BY <1>3, <1>4 DEF BacklogInv, Submits, Guaranteeing

\* Every step keeps the messages of the submits apart.
LEMMA SubmitsStep ==
  ASSUME BacklogInv, Next
  PROVE  Submits'
<1> USE DEF intake, submit, pass
<1>1. CASE Start \/ StopAccepting \/ NotifyAll
  BY <1>1 DEF Start, StopAccepting, NotifyAll, BacklogInv, Submits
<1>2. CASE Working
  BY <1>2 DEF Working, Test, Search, Pop, LookOn, Pause, Emit, BacklogInv, Submits
<1>3. ASSUME NEW p \in Producers, Submit(p) PROVE Submits'
  <2>1. UNCHANGED accepted /\ submitted' = submitted + 1 /\ submitted \in Nat
        /\ at[p] = "idle"
    BY <1>3, Ranges DEF Submit, BacklogInv, LoggerTypeOK
  <2>2. CASE UNCHANGED <<into, at, msg>>
    <3>1. \A r \in Producers : at[r] # "idle" => msg[r] \in 1 .. submitted + 1
      BY <2>1 DEF BacklogInv, Submits
    <3> QED BY <2>1, <2>2, <3>1 DEF BacklogInv, Submits
  <2>3. ASSUME NEW q \in Queues, msg' = [msg EXCEPT ![p] = submitted + 1],
               into' = [into EXCEPT ![p] = q],
               at' = [at EXCEPT ![p] = IF IsGuaranteed(q) THEN "lock" ELSE "trylock"]
        PROVE  Submits'
    <3>1. /\ \A r \in Producers : r # p =>
               at'[r] = at[r] /\ into'[r] = into[r] /\ msg'[r] = msg[r]
          /\ at'[p] = (IF IsGuaranteed(q) THEN "lock" ELSE "trylock")
          /\ into'[p] = q /\ msg'[p] = submitted + 1
      BY <2>3 DEF BacklogInv, LoggerTypeOK
    <3>2. \A r \in Producers : at[r] # "idle" =>
            r # p /\ msg[r] \in 1 .. submitted + 1 /\ msg[r] # submitted + 1
      BY <2>1 DEF BacklogInv, Submits
    <3>3. \A s \in Queues : ~Contains(accepted[s], submitted + 1)
      <4>1. submitted + 1 \in Messages
        BY <1>3, <2>1, Ranges DEF Submit, Messages
      <4>2. ~(submitted + 1 <= submitted)
        BY <2>1
      <4> QED BY <4>1, <4>2 DEF BacklogInv, Pushed
    <3>4. submitted + 1 \in 1 .. submitted + 1
      BY <2>1
    <3>5. \A r \in Producers : at'[r] # "idle" => msg'[r] \in 1 .. submitted'
      BY <2>1, <3>1, <3>2, <3>4
    <3>6. \A r \in Producers : at'[r] = "trylock" => ~IsGuaranteed(into'[r])
      BY <3>1 DEF BacklogInv, Submits
    <3>7. \A r \in Producers : at'[r] \in Guaranteeing => IsGuaranteed(into'[r])
      BY <3>1 DEF BacklogInv, Submits, Guaranteeing
    <3>8. \A r, s \in Producers :
            at'[r] # "idle" /\ at'[s] # "idle" /\ msg'[r] = msg'[s] => r = s
      BY <3>1, <3>2 DEF BacklogInv, Submits
    <3>9. \A r \in Producers, s \in Queues :
            at'[r] # "idle" => ~Contains(accepted'[s], msg'[r])
      BY <2>1, <3>1, <3>3 DEF BacklogInv, Submits
    <3> QED BY <3>5, <3>6, <3>7, <3>8, <3>9 DEF Submits
  <2> QED BY <1>3, <2>2, <2>3 DEF Submit
<1>4. ASSUME NEW p \in Producers, GiveUp(p) PROVE Submits'
  <2>1. at[p] # "idle" /\ UNCHANGED <<accepted, submitted>> /\ Return(p, FALSE)
    BY <1>4 DEF GiveUp
  <2> QED BY <2>1, ReturnTypes, SubmitsFrame
<1>5. ASSUME NEW p \in Producers, PushRealtime(p) PROVE Submits'
  <2>1. /\ at[p] # "idle" /\ UNCHANGED submitted /\ Return(p, TRUE)
        /\ accepted' = [accepted EXCEPT ![into[p]] = Append(accepted[into[p]], msg[p])]
    BY <1>5 DEF PushRealtime
  <2> QED BY <2>1, ReturnTypes, SubmitsPush
<1>6. ASSUME NEW p \in Producers, Lock(p) \/ CheckRoom(p) \/ Block(p) PROVE Submits'
  <2>1. /\ UNCHANGED <<accepted, submitted, into, msg>> /\ at[p] \in Guaranteeing
        /\ at'[p] \in Guaranteeing /\ \A r \in Producers : r # p => at'[r] = at[r]
    BY <1>6 DEF Lock, CheckRoom, Block, Guaranteeing, BacklogInv, LoggerTypeOK
  <2>2. at[p] # "idle"
    BY <2>1 DEF Guaranteeing
  <2> QED BY <2>1, <2>2, SubmitsFrame
<1>7. ASSUME NEW p \in Producers, PushGuaranteed(p) PROVE Submits'
  <2>1. UNCHANGED <<accepted, submitted>> /\ at[p] = "push"
    BY <1>7 DEF PushGuaranteed
  <2>2. CASE at' = [at EXCEPT ![p] = "append"] /\ UNCHANGED <<into, msg>>
    <3>1. at'[p] \in Guaranteeing /\ \A r \in Producers : r # p => at'[r] = at[r]
      BY <2>2 DEF Guaranteeing, BacklogInv, LoggerTypeOK
    <3> QED BY <2>1, <2>2, <3>1, SubmitsFrame DEF Guaranteeing
  <2>3. CASE Return(p, FALSE)
    BY <2>1, <2>3, ReturnTypes, SubmitsFrame
  <2> QED BY <1>7, <2>2, <2>3 DEF PushGuaranteed
<1>8. ASSUME NEW p \in Producers, AppendGuaranteed(p) PROVE Submits'
  <2>1. /\ at[p] # "idle" /\ UNCHANGED submitted /\ Return(p, TRUE)
        /\ accepted' = [accepted EXCEPT ![into[p]] = Append(accepted[into[p]], msg[p])]
    BY <1>8 DEF AppendGuaranteed
  <2> QED BY <2>1, ReturnTypes, SubmitsPush
<1> QED BY <1>1, <1>2, <1>3, <1>4, <1>5, <1>6, <1>7, <1>8 DEF Next, Submitting

\* Two threads inside have different queues, so each finds what it left.
LEMMA RoomStep ==
  ASSUME BacklogInv, Next
  PROVE  Room'
<1> USE DEF intake, submit, pass
<1>0. Nobody \notin Producers
  BY LoggerAssumption DEF Nobody
<1>1. CASE Start
  <2>1. \A p \in Producers : at[p] = "idle"
    BY <1>1 DEF Start, BacklogInv, Intake
  <2> QED BY <1>1, <2>1 DEF Start, Room, Inside
<1>2. CASE StopAccepting \/ NotifyAll
  BY <1>2 DEF StopAccepting, NotifyAll, BacklogInv, Room, Inside, Full
<1>3. CASE Test \/ Search \/ LookOn \/ Pause \/ Emit
  BY <1>3 DEF Test, Search, LookOn, Pause, Emit, BacklogInv, Room, Inside, Full
<1>4. CASE Pop
  <2>1. /\ UNCHANGED <<accepting, holder, at, into>> /\ Looked \in Queues
        /\ queue' = [queue EXCEPT ![Looked] = Tail(queue[Looked])]
        /\ queue[Looked] # <<>>
    BY <1>4, Ranges DEF Pop, Looked, Queues, BacklogInv, LoggerTypeOK
  <2>2. /\ queue \in [Queues -> Seq(Messages)] /\ queue[Looked] \in Seq(Messages)
        /\ \A q \in Queues : Capacity[q] \in Nat
    BY <2>1, Ranges DEF BacklogInv, LoggerTypeOK
  <2>3. /\ Len(Tail(queue[Looked])) = Len(queue[Looked]) - 1 /\ Len(queue[Looked]) \in Nat
    BY <2>1, <2>2, HeadFirst
  <2>4. \A q \in Queues : ~Full(q) => ~(Full(q))'
    <3> SUFFICES ASSUME NEW q \in Queues, ~Full(q) PROVE ~(Len(queue'[q]) >= Capacity[q])
      BY DEF Full
    <3>1. CASE q = Looked
      BY <2>1, <2>2, <2>3, <3>1 DEF Full
    <3>2. CASE q # Looked
      BY <2>1, <2>2, <3>2 DEF Full
    <3> QED BY <3>1, <3>2
  <2>5. \A p \in Producers : into[p] \in Queues
    BY DEF BacklogInv, LoggerTypeOK
  <2>6. \A p \in Producers :
          at'[p] = "append" \/ (at'[p] = "push" /\ accepting') => ~(Full(into[p]))'
    BY <2>1, <2>4, <2>5 DEF BacklogInv, Room
  <2>7. \A p \in Producers : (Full(into[p]))' <=> Len(queue'[into'[p]]) >= Capacity[into'[p]]
    BY DEF Full
  <2>8. \A p \in Producers : at'[p] \in Inside => holder'[into'[p]] = p
    BY <2>1 DEF BacklogInv, Room
  <2> QED BY <2>6, <2>8 DEF Room
<1>5. ASSUME NEW p \in Producers, Submit(p) PROVE Room'
  <2>1. /\ UNCHANGED <<accepting, holder, queue>> /\ at[p] = "idle"
        /\ \A r \in Producers : r # p => at'[r] = at[r] /\ into'[r] = into[r]
        /\ at'[p] \in {"idle", "lock", "trylock"}
    BY <1>5 DEF Submit, BacklogInv, LoggerTypeOK
  <2> QED BY <2>1 DEF BacklogInv, Room, Inside, Full
<1>6. ASSUME NEW p \in Producers, GiveUp(p) PROVE Room'
  <2>1. UNCHANGED <<accepting, holder, queue>> /\ at[p] # "idle" /\ Return(p, FALSE)
    BY <1>6 DEF GiveUp
  <2>2. at'[p] = "idle" /\ \A r \in Producers : r # p => at'[r] = at[r] /\ into'[r] = into[r]
    BY <2>1, ReturnTypes
  <2> QED BY <2>1, <2>2 DEF BacklogInv, Room, Inside, Full
<1>7. ASSUME NEW p \in Producers, PushRealtime(p) PROVE Room'
  <2>1. /\ UNCHANGED <<accepting, holder>> /\ at[p] = "trylock" /\ Return(p, TRUE)
        /\ queue' = [queue EXCEPT ![into[p]] = Append(MakesRoom(into[p]), msg[p])]
    BY <1>7 DEF PushRealtime
  <2>2. at'[p] = "idle" /\ \A r \in Producers : r # p => at'[r] = at[r] /\ into'[r] = into[r]
    BY <2>1, ReturnTypes
  <2>3. \A r \in Producers : at[r] \in Guaranteeing =>
          into[r] # into[p] /\ queue'[into[r]] = queue[into[r]]
    <3>1. \A r \in Producers : at[r] \in Guaranteeing => into[r] # into[p]
      BY <2>1 DEF BacklogInv, Submits
    <3>2. queue \in [Queues -> Seq(Messages)] /\ \A r \in Producers : into[r] \in Queues
      BY DEF BacklogInv, LoggerTypeOK
    <3> QED BY <2>1, <3>1, <3>2
  <2> QED BY <2>1, <2>2, <2>3 DEF BacklogInv, Room, Inside, Full, Guaranteeing
<1>8. ASSUME NEW p \in Producers, Lock(p) PROVE Room'
  <2>1. /\ UNCHANGED <<accepting, queue, into>> /\ at[p] = "lock" /\ holder[into[p]] = Nobody
        /\ holder' = [holder EXCEPT ![into[p]] = p]
        /\ at' = [at EXCEPT ![p] = "check"]
    BY <1>8 DEF Lock, Free
  <2>2. \A r \in Producers : r # p => at'[r] = at[r]
    BY <2>1 DEF BacklogInv, LoggerTypeOK
  <2>3. at'[p] = "check" /\ holder'[into[p]] = p
    BY <2>1 DEF BacklogInv, LoggerTypeOK
  <2>4. \A r \in Producers : r # p /\ at[r] \in Inside => holder'[into[r]] = r
    BY <1>0, <2>1 DEF BacklogInv, LoggerTypeOK, Room
  <2>5. \A r \in Producers : at'[r] \in Inside => holder'[into'[r]] = r
    BY <2>1, <2>2, <2>3, <2>4
  <2> QED BY <2>1, <2>2, <2>3, <2>5 DEF BacklogInv, Room, Full
<1>9. ASSUME NEW p \in Producers, CheckRoom(p) PROVE Room'
  <2>1. /\ UNCHANGED <<accepting, queue, into, holder>> /\ at[p] = "check"
        /\ at' = [at EXCEPT ![p] = IF accepting /\ Full(into[p]) THEN "block" ELSE "push"]
    BY <1>9 DEF CheckRoom
  <2>2. \A r \in Producers : r # p => at'[r] = at[r]
    BY <2>1 DEF BacklogInv, LoggerTypeOK
  <2>3. at'[p] = IF accepting /\ Full(into[p]) THEN "block" ELSE "push"
    BY <2>1 DEF BacklogInv, LoggerTypeOK
  <2>4. holder[into[p]] = p
    BY <2>1 DEF BacklogInv, Room, Inside
  <2> QED BY <2>1, <2>2, <2>3, <2>4 DEF BacklogInv, Room, Full
<1>10. ASSUME NEW p \in Producers, at[p] \in Inside, at'[p] \notin Inside,
              \A r \in Producers : r # p => at'[r] = at[r] /\ into'[r] = into[r],
              holder' = [holder EXCEPT ![into[p]] = Nobody], UNCHANGED <<accepting>>,
              \A q \in Queues : q # into[p] => queue'[q] = queue[q]
       PROVE  Room'
  <2>1. \A r \in Producers : r # p /\ at[r] \in Inside =>
          into[r] # into[p] /\ into[r] \in Queues /\ holder'[into[r]] = r
    BY <1>10 DEF BacklogInv, LoggerTypeOK, Room
  <2>2. \A r \in Producers : at'[r] \in Inside =>
          r # p /\ holder'[into'[r]] = r /\ at'[r] = at[r] /\ into'[r] = into[r]
          /\ queue'[into'[r]] = queue[into[r]]
    BY <1>10, <2>1
  <2> QED BY <1>10, <2>2 DEF BacklogInv, Room, Full, Inside
<1>11. ASSUME NEW p \in Producers, Block(p) PROVE Room'
  <2>1. /\ at[p] \in Inside /\ at'[p] \notin Inside
        /\ \A r \in Producers : r # p => at'[r] = at[r] /\ into'[r] = into[r]
        /\ holder' = [holder EXCEPT ![into[p]] = Nobody] /\ UNCHANGED <<accepting, queue>>
    BY <1>11 DEF Block, Inside, BacklogInv, LoggerTypeOK
  <2> QED BY <2>1, <1>10
<1>12. ASSUME NEW p \in Producers, PushGuaranteed(p) PROVE Room'
  <2>1. at[p] = "push" /\ UNCHANGED <<accepting, queue>>
    BY <1>12 DEF PushGuaranteed
  <2>2. CASE accepting /\ at' = [at EXCEPT ![p] = "append"] /\ UNCHANGED <<into, holder>>
    <3>1. at'[p] = "append" /\ \A r \in Producers : r # p => at'[r] = at[r]
      BY <2>2 DEF BacklogInv, LoggerTypeOK
    <3> QED BY <2>1, <2>2, <3>1 DEF BacklogInv, Room, Full, Inside
  <2>3. CASE holder' = [holder EXCEPT ![into[p]] = Nobody] /\ Return(p, FALSE)
    BY <1>10, <2>1, <2>3, ReturnTypes DEF Inside
  <2> QED BY <1>12, <2>2, <2>3 DEF PushGuaranteed
<1>13. ASSUME NEW p \in Producers, AppendGuaranteed(p) PROVE Room'
  <2>1. /\ at[p] \in Inside /\ at[p] # "idle" /\ Return(p, TRUE)
        /\ holder' = [holder EXCEPT ![into[p]] = Nobody] /\ UNCHANGED accepting
        /\ queue' = [queue EXCEPT ![into[p]] = Append(queue[into[p]], msg[p])]
    BY <1>13 DEF AppendGuaranteed, Inside
  <2>2. \A q \in Queues : q # into[p] => queue'[q] = queue[q]
    BY <2>1 DEF BacklogInv, LoggerTypeOK
  <2> QED BY <1>10, <2>1, <2>2, ReturnTypes DEF Inside
<1> QED BY <1>1, <1>2, <1>3, <1>4, <1>5, <1>6, <1>7, <1>8, <1>9, <1>11, <1>12, <1>13
    DEF Next, Submitting, Working

-----------------------------------------------------------------------------
(* What was pushed is kept *)

LEMMA KeptTypes ==
  ASSUME BacklogInv, NEW q \in Queues
  PROVE  /\ accepted[q] \in Seq(Messages) /\ queue[q] \in Seq(Messages)
         /\ written[q] \in Seq(Messages) /\ InHand(q) \in Seq(Messages)
         /\ written[q] \o InHand(q) \in Seq(Messages) /\ Kept(q) \in Seq(Messages)
<1>1. /\ accepted[q] \in Seq(Messages) /\ queue[q] \in Seq(Messages)
      /\ written[q] \in Seq(Messages)
  BY DEF BacklogInv, LoggerTypeOK
<1>2. InHand(q) \in Seq(Messages)
  <2>1. <<>> \in Seq(Messages) /\ \A m \in Messages : <<m>> \in Seq(Messages)
    OBVIOUS
  <2> QED BY <2>1 DEF InHand, BacklogInv, Turns
<1>3. written[q] \o InHand(q) \in Seq(Messages)
  BY <1>1, <1>2, Joined
<1>4. Kept(q) \in Seq(Messages)
  BY <1>1, <1>3, Joined DEF Kept
<1> QED BY <1>1, <1>2, <1>3, <1>4

\* The worker takes the head of a queue in hand: what is kept stays as it is.
LEMMA PopKeeps ==
  ASSUME BacklogInv, Pop, NEW q \in Queues
  PROVE  (Kept(q))' = Kept(q)
<1> DEFINE h == <<Head(queue[q])>>
           t == Tail(queue[q])
           w == written[q]
<1>1. /\ worker = "scan" /\ worker' = "emit" /\ UNCHANGED written
      /\ hand' = [queue |-> Looked, message |-> Head(queue[Looked])]
      /\ queue' = [queue EXCEPT ![Looked] = Tail(queue[Looked])]
      /\ queue[Looked] # <<>>
  BY DEF Pop
<1>2. InHand(q) = <<>>
  BY <1>1 DEF InHand
<1>3. w \in Seq(Messages) /\ queue \in [Queues -> Seq(Messages)] /\ queue[q] \in Seq(Messages)
  BY DEF BacklogInv, LoggerTypeOK
<1>4. w \o <<>> = w
  BY <1>3, ConcatEmptySeq
<1>5. CASE q = Looked
  <2>1. h \o t = queue[q] /\ h \in Seq(Messages) /\ t \in Seq(Messages)
    <3>1. h \o t = queue[q] /\ Head(queue[q]) \in Messages /\ t \in Seq(Messages)
      BY <1>1, <1>3, <1>5, HeadFirst
    <3> QED BY <3>1
  <2>2. (InHand(q))' = h /\ queue'[q] = t
    BY <1>1, <1>3, <1>5 DEF InHand
  <2> HIDE DEF h, t, w
  <2>3. (w \o h) \o t = w \o (h \o t)
    <3>1. w \in Seq(Messages) /\ h \in Seq(Messages) /\ t \in Seq(Messages)
      BY <1>3, <2>1
    <3> QED BY <3>1, ConcatAssociative
  <2> QED BY <1>1, <1>2, <1>4, <2>1, <2>2, <2>3 DEF Kept, w
<1>6. CASE q # Looked
  <2>1. (InHand(q))' = <<>> /\ queue'[q] = queue[q]
    BY <1>1, <1>3, <1>6 DEF InHand
  <2> QED BY <1>1, <1>2, <2>1 DEF Kept
<1> QED BY <1>5, <1>6

\* The line in hand is written.
LEMMA EmitKeeps ==
  ASSUME BacklogInv, Emit, NEW q \in Queues
  PROVE  (Kept(q))' = Kept(q)
<1>1. /\ worker = "emit" /\ worker' = "test" /\ UNCHANGED queue
      /\ written' = [written EXCEPT ![hand.queue] = Append(written[hand.queue], hand.message)]
      /\ hand.message \in Messages
  BY DEF Emit, BacklogInv, Turns
<1>2. (InHand(q))' = <<>>
  BY <1>1 DEF InHand
<1>3. written \in [Queues -> Seq(Messages)] /\ written[q] \in Seq(Messages)
  BY DEF BacklogInv, LoggerTypeOK
<1>4. CASE q = hand.queue
  <2>1. InHand(q) = <<hand.message>> /\ written'[q] = Append(written[q], hand.message)
    BY <1>1, <1>3, <1>4 DEF InHand
  <2>2. /\ Append(written[q], hand.message) = written[q] \o <<hand.message>>
        /\ Append(written[q], hand.message) \in Seq(Messages)
    BY <1>1, <1>3, LastAppended
  <2>3. Append(written[q], hand.message) \o <<>> = Append(written[q], hand.message)
    BY <2>2, ConcatEmptySeq
  <2> QED BY <1>1, <1>2, <2>1, <2>2, <2>3 DEF Kept
<1>5. CASE q # hand.queue
  <2>1. InHand(q) = <<>> /\ written'[q] = written[q]
    BY <1>1, <1>3, <1>5 DEF InHand
  <2> QED BY <1>1, <1>2, <2>1 DEF Kept
<1> QED BY <1>4, <1>5

\* The message of a submit has not been pushed, lost or kept before.
LEMMA FreshMessage ==
  ASSUME BacklogInv, NEW p \in Producers, at[p] # "idle"
  PROVE  msg[p] \notin evicted
BY InProgress DEF BacklogInv, Submits, Pushed

\* Steps that push, take and evict nothing leave Pushed.
LEMMA PushedFrame ==
  ASSUME BacklogInv, UNCHANGED <<accepted, evicted>>, submitted' >= submitted,
         submitted' \in Nat, \A q \in Queues : (Kept(q))' = Kept(q)
  PROVE  Pushed'
<1>1. \A q \in Queues, m \in Messages : Contains(accepted[q], m) => m <= submitted'
  <2>1. submitted \in Nat /\ Messages \subseteq Nat
    BY Ranges DEF BacklogInv, LoggerTypeOK
  <2> QED BY <2>1 DEF BacklogInv, Pushed
<1>2. \A q \in Queues : Conserved(accepted[q], evicted, (Kept(q))')
  BY DEF BacklogInv, Pushed
<1> QED BY <1>1, <1>2 DEF BacklogInv, Pushed, Contains, Conserved

\* A message is pushed at the end of its queue, into room that is there.
LEMMA PushedAppend ==
  ASSUME BacklogInv, NEW p \in Producers, at[p] # "idle",
         NEW q \in Queues, q = into[p], NEW lost,
         accepted' = [accepted EXCEPT ![q] = Append(accepted[q], msg[p])],
         evicted' = lost, UNCHANGED submitted,
         \A m \in lost : \E r \in Queues : ~IsGuaranteed(r) /\ Contains(accepted[r], m),
         msg[p] \notin lost,
         \A r \in Queues \ {q} : (Kept(r))' = Kept(r),
         \A r \in Queues \ {q} : Conserved(accepted[r], lost, Kept(r)),
         NEW kept \in Seq(Messages), Conserved(accepted[q], lost, kept),
         (Kept(q))' = Append(kept, msg[p])
  PROVE  Pushed'
<1> DEFINE m == msg[p]
<1>1. /\ m \in Messages /\ m <= submitted /\ \A r \in Queues : ~Contains(accepted[r], m)
      /\ accepted \in [Queues -> Seq(Messages)]
  <2>1. m \in Messages /\ accepted \in [Queues -> Seq(Messages)]
    BY InProgress DEF BacklogInv, LoggerTypeOK
  <2>2. m \in 1 .. submitted /\ \A r \in Queues : ~Contains(accepted[r], m)
    BY DEF BacklogInv, Submits
  <2> QED BY <2>1, <2>2
<1>2. accepted[q] \in Seq(Messages) /\ ~Contains(accepted[q], m)
  BY <1>1
<1>3. accepted' = [accepted EXCEPT ![q] = Append(accepted[q], m)]
  OBVIOUS
<1> HIDE DEF m
<1>4. /\ \A n : Contains(accepted'[q], n) <=> Contains(accepted[q], n) \/ n = m
      /\ \A r \in Queues \ {q} : accepted'[r] = accepted[r]
      /\ accepted'[q] = Append(accepted[q], m)
  <2>1. \A n : Contains(Append(accepted[q], m), n) <=> Contains(accepted[q], n) \/ n = m
    BY <1>1, <1>2, AppendContains
  <2> QED BY <1>1, <1>3, <2>1
<1>5. Conserved(accepted'[q], evicted', (Kept(q))')
  <2>1. Conserved(Append(accepted[q], m), lost, Append(kept, m))
    <3>1. m \notin lost
      BY DEF m
    <3> QED BY <1>1, <1>2, <3>1, ConservedPush
  <2> QED BY <1>4, <2>1 DEF m
<1>6. \A r \in Queues : Conserved(accepted'[r], evicted', (Kept(r))')
  <2> SUFFICES ASSUME NEW r \in Queues \ {q}
               PROVE  Conserved(accepted'[r], evicted', (Kept(r))')
    BY <1>5
  <2>1. accepted'[r] = accepted[r] /\ (Kept(r))' = Kept(r) /\ evicted' = lost
    BY <1>4
  <2> QED BY <2>1
<1>7. \A r \in Queues, n \in Messages : Contains(accepted'[r], n) => n <= submitted'
  BY <1>1, <1>4 DEF BacklogInv, Pushed
<1>8. \A r, s \in Queues, n \in Messages :
        Contains(accepted'[r], n) /\ Contains(accepted'[s], n) => r = s
  <2> SUFFICES ASSUME NEW r \in Queues, NEW s \in Queues, NEW n \in Messages,
                      Contains(accepted'[r], n), Contains(accepted'[s], n)
               PROVE  r = s
    OBVIOUS
  <2>1. CASE n = m
    BY <1>1, <1>4, <2>1
  <2>2. CASE n # m
    <3>1. Contains(accepted[r], n) /\ Contains(accepted[s], n)
      BY <1>4, <2>2
    <3> QED BY <3>1 DEF BacklogInv, Pushed
  <2> QED BY <2>1, <2>2
<1>9. \A n \in evicted' : \E r \in Queues : ~IsGuaranteed(r) /\ Contains(accepted'[r], n)
  BY <1>4
<1>10. (\A r \in Queues, n \in Messages : Contains(accepted[r], n) => n <= submitted)'
  BY <1>7 DEF Contains
<1>11. (\A r, s \in Queues, n \in Messages :
          Contains(accepted[r], n) /\ Contains(accepted[s], n) => r = s)'
  BY <1>8 DEF Contains
<1>12. (\A n \in evicted : \E r \in Queues : ~IsGuaranteed(r) /\ Contains(accepted[r], n))'
  BY <1>9 DEF Contains, IsGuaranteed
<1>13. (\A r \in Queues : Conserved(accepted[r], evicted, Kept(r)))'
  BY <1>6 DEF Conserved, Contains, Precedes
<1> QED BY <1>10, <1>11, <1>12, <1>13 DEF Pushed

\* A real-time message goes to the end, and the oldest may make way for it.
LEMMA PushRealtimeKeeps ==
  ASSUME BacklogInv, NEW p \in Producers, PushRealtime(p)
  PROVE  Pushed'
<1>0. PICK q \in Queues : q = into[p]
  BY InProgress DEF PushRealtime
<1> DEFINE m == msg[p]
           a == written[q] \o InHand(q)
<1>1. at[p] # "idle" /\ at[p] = "trylock" /\ q \in Queues /\ m \in Messages
  BY InProgress DEF PushRealtime
<1>2. ~IsGuaranteed(q)
  BY <1>0, <1>1 DEF BacklogInv, Submits
<1>3. /\ queue' = [queue EXCEPT ![q] = Append(MakesRoom(q), m)]
      /\ accepted' = [accepted EXCEPT ![q] = Append(accepted[q], m)]
      /\ evicted' = IF Len(queue[q]) >= Capacity[q]
                    THEN evicted \union {Head(queue[q])} ELSE evicted
      /\ UNCHANGED <<submitted, written, worker, hand>>
  BY <1>0 DEF PushRealtime, pass
<1>4. /\ a \in Seq(Messages) /\ queue[q] \in Seq(Messages) /\ accepted[q] \in Seq(Messages)
      /\ queue \in [Queues -> Seq(Messages)]
      /\ Conserved(accepted[q], evicted, a \o queue[q])
  BY <1>1, KeptTypes DEF BacklogInv, LoggerTypeOK, Pushed, Kept
<1>5. \A r \in Queues : (InHand(r))' = InHand(r)
  BY <1>3 DEF InHand
<1>6. \A r \in Queues \ {q} : (Kept(r))' = Kept(r)
  BY <1>3, <1>4, <1>5 DEF Kept
<1>7. m \notin evicted
  BY <1>1, FreshMessage
<1>8. ASSUME NEW room \in Seq(Messages), MakesRoom(q) = room
      PROVE  a \o room \in Seq(Messages) /\ (Kept(q))' = Append(a \o room, m)
  <2>1. a \o room \in Seq(Messages)
    BY <1>4, <1>8, Joined
  <2>2. (Kept(q))' = a \o Append(room, m)
    <3>1. queue'[q] = Append(room, m)
      BY <1>1, <1>3, <1>4, <1>8
    <3> QED BY <1>1, <1>3, <1>5, <3>1 DEF Kept
  <2> HIDE DEF a, m
  <2>3. /\ Append(room, m) = room \o <<m>>
        /\ Append(a \o room, m) = (a \o room) \o <<m>>
    BY <1>1, <1>8, <2>1, LastAppended
  <2>4. (a \o room) \o <<m>> = a \o (room \o <<m>>)
    <3>1. a \in Seq(Messages) /\ room \in Seq(Messages) /\ <<m>> \in Seq(Messages)
      BY <1>1, <1>4
    <3> QED BY <3>1, ConcatAssociative
  <2> QED BY <2>1, <2>2, <2>3, <2>4
<1>9. CASE Len(queue[q]) >= Capacity[q]
  <2> DEFINE h == Head(queue[q])
             t == Tail(queue[q])
             lost == evicted \union {h}
  <2>1. queue[q] # <<>>
    <3>1. Capacity[q] \in Nat \ {0}
      BY <1>1, Ranges
    <3> QED BY <1>4, <1>9, <3>1
  <2>2. <<h>> \o t = queue[q] /\ h \in Messages /\ t \in Seq(Messages)
    BY <1>4, <2>1, HeadFirst
  <2>3. MakesRoom(q) = t
    BY <1>9 DEF MakesRoom
  <2>4. evicted' = lost
    BY <1>3, <1>9
  <2> HIDE DEF h, t
  <2>5. Conserved(accepted[q], lost, a \o t) /\ Contains(accepted[q], h)
    <3> HIDE DEF a
    <3>1. Conserved(accepted[q], evicted, a \o (<<h>> \o t))
      BY <1>4, <2>2
    <3> QED BY <1>4, <2>2, <3>1, ConservedLose
  <2>6. \A r \in Queues \ {q} : ~Contains(accepted[r], h)
    BY <1>1, <2>2, <2>5 DEF BacklogInv, Pushed
  <2>7. \A r \in Queues \ {q} : Conserved(accepted[r], lost, Kept(r))
    BY <2>6, ConservedElse DEF BacklogInv, Pushed
  <2>8. m \notin lost
    <3>1. ~Contains(accepted[q], m)
      BY <1>1 DEF BacklogInv, Submits
    <3> QED BY <1>7, <2>5, <3>1
  <2>9. \A n \in lost : \E r \in Queues : ~IsGuaranteed(r) /\ Contains(accepted[r], n)
    BY <1>1, <1>2, <2>5 DEF BacklogInv, Pushed
  <2>10. a \o t \in Seq(Messages) /\ (Kept(q))' = Append(a \o t, m)
    BY <1>8, <2>2, <2>3
  <2> HIDE DEF lost, a
  <2> QED BY <1>0, <1>1, <1>3, <1>6, <2>4, <2>5, <2>7, <2>8, <2>9, <2>10, PushedAppend
<1>10. CASE ~(Len(queue[q]) >= Capacity[q])
  <2>1. evicted' = evicted /\ MakesRoom(q) = queue[q]
    BY <1>3, <1>10 DEF MakesRoom
  <2>2. a \o queue[q] \in Seq(Messages) /\ (Kept(q))' = Append(a \o queue[q], m)
    BY <1>4, <1>8, <2>1
  <2>3. /\ \A r \in Queues \ {q} : Conserved(accepted[r], evicted, Kept(r))
        /\ \A n \in evicted : \E r \in Queues : ~IsGuaranteed(r) /\ Contains(accepted[r], n)
    BY DEF BacklogInv, Pushed
  <2> HIDE DEF a
  <2> QED BY <1>0, <1>1, <1>3, <1>4, <1>6, <1>7, <2>1, <2>2, <2>3, PushedAppend
<1> QED BY <1>9, <1>10

\* A guaranteed push puts its message last and loses none.
LEMMA AppendGuaranteedKeeps ==
  ASSUME BacklogInv, NEW p \in Producers, AppendGuaranteed(p)
  PROVE  Pushed'
<1>0. PICK q \in Queues : q = into[p]
  BY InProgress DEF AppendGuaranteed
<1> DEFINE m == msg[p]
           a == written[q] \o InHand(q)
<1>1. at[p] # "idle" /\ q \in Queues /\ m \in Messages
  BY InProgress DEF AppendGuaranteed
<1>2. /\ queue' = [queue EXCEPT ![q] = Append(queue[q], m)]
      /\ accepted' = [accepted EXCEPT ![q] = Append(accepted[q], m)]
      /\ UNCHANGED <<submitted, written, worker, hand, evicted>>
  BY <1>0 DEF AppendGuaranteed, pass
<1>3. /\ a \in Seq(Messages) /\ queue[q] \in Seq(Messages) /\ accepted[q] \in Seq(Messages)
      /\ queue \in [Queues -> Seq(Messages)] /\ Kept(q) \in Seq(Messages)
      /\ Conserved(accepted[q], evicted, Kept(q)) /\ Kept(q) = a \o queue[q]
  BY <1>1, KeptTypes DEF BacklogInv, LoggerTypeOK, Pushed, Kept
<1>4. \A r \in Queues : (InHand(r))' = InHand(r)
  BY <1>2 DEF InHand
<1>5. \A r \in Queues \ {q} : (Kept(r))' = Kept(r)
  BY <1>2, <1>3, <1>4 DEF Kept
<1>6. (Kept(q))' = Append(Kept(q), m)
  <2>1. (Kept(q))' = a \o Append(queue[q], m)
    <3>1. queue'[q] = Append(queue[q], m)
      BY <1>1, <1>2, <1>3
    <3> QED BY <1>1, <1>2, <1>4, <3>1 DEF Kept
  <2> DEFINE list == queue[q]
  <2> HIDE DEF a, m, list
  <2>2. a \in Seq(Messages) /\ list \in Seq(Messages) /\ <<m>> \in Seq(Messages)
        /\ m \in Messages /\ Kept(q) \in Seq(Messages)
    BY <1>1, <1>3 DEF list
  <2>3. Append(list, m) = list \o <<m>> /\ Append(Kept(q), m) = Kept(q) \o <<m>>
    BY <2>2, LastAppended
  <2>4. (a \o list) \o <<m>> = a \o (list \o <<m>>)
    <3>1. a \in Seq(Messages) /\ list \in Seq(Messages) /\ <<m>> \in Seq(Messages)
      BY <2>2
    <3> QED BY <3>1, ConcatAssociative
  <2> QED BY <1>3, <2>1, <2>3, <2>4 DEF list
<1>7. m \notin evicted
  BY <1>1, FreshMessage
<1>8. /\ \A r \in Queues \ {q} : Conserved(accepted[r], evicted, Kept(r))
      /\ \A n \in evicted : \E r \in Queues : ~IsGuaranteed(r) /\ Contains(accepted[r], n)
  BY DEF BacklogInv, Pushed
<1> QED BY <1>0, <1>1, <1>2, <1>3, <1>5, <1>6, <1>7, <1>8, PushedAppend

\* Every step conserves what was pushed.
LEMMA PushedStep ==
  ASSUME BacklogInv, Next
  PROVE  Pushed'
<1> USE DEF intake, submit, pass
<1>0. submitted \in Nat /\ submitted + 1 \in Nat /\ submitted >= submitted
      /\ submitted + 1 >= submitted
  BY Ranges DEF BacklogInv, LoggerTypeOK
<1>1. ASSUME UNCHANGED <<accepted, evicted, submitted>>, UNCHANGED <<queue, written, hand>>,
             worker = "emit" <=> worker' = "emit"
      PROVE  Pushed'
  <2>1. \A q \in Queues : (Kept(q))' = Kept(q)
    BY <1>1 DEF Kept, InHand
  <2> QED BY <1>0, <1>1, <2>1, PushedFrame
<1>2. CASE Start
  <2>1. worker # "emit" /\ worker' # "emit"
    BY <1>2 DEF Start, BacklogInv, Intake
  <2> QED BY <1>1, <1>2, <2>1 DEF Start
<1>3. CASE StopAccepting \/ NotifyAll
  BY <1>1, <1>3 DEF StopAccepting, NotifyAll
<1>4. CASE Test \/ Search \/ LookOn \/ Pause
  BY <1>1, <1>4 DEF Test, Search, LookOn, Pause
<1>5. CASE Pop
  <2>1. \A q \in Queues : (Kept(q))' = Kept(q)
    BY <1>5, PopKeeps
  <2> QED BY <1>0, <1>5, <2>1, PushedFrame DEF Pop
<1>6. CASE Emit
  <2>1. \A q \in Queues : (Kept(q))' = Kept(q)
    BY <1>6, EmitKeeps
  <2> QED BY <1>0, <1>6, <2>1, PushedFrame DEF Emit
<1>7. ASSUME NEW p \in Producers, Submit(p) PROVE Pushed'
  <2>1. \A q \in Queues : (Kept(q))' = Kept(q)
    BY <1>7 DEF Submit, Kept, InHand
  <2> QED BY <1>0, <1>7, <2>1, PushedFrame DEF Submit
<1>8. ASSUME NEW p \in Producers, GiveUp(p) \/ Lock(p) \/ CheckRoom(p) \/ Block(p)
                                   \/ PushGuaranteed(p)
      PROVE  Pushed'
  BY <1>1, <1>8 DEF GiveUp, Lock, CheckRoom, Block, PushGuaranteed
<1> QED BY <1>2, <1>3, <1>4, <1>5, <1>6, <1>7, <1>8, PushRealtimeKeeps, AppendGuaranteedKeeps
    DEF Next, Submitting, Working

-----------------------------------------------------------------------------
(* The turns of the queues *)

\* The queue looked at is `scanned` steps away, and no other is.
LEMMA LookedAt ==
  ASSUME nextIdx \in Queues, scanned \in 0 .. QueueCount, scanned < QueueCount
  PROVE  /\ Looked \in Queues /\ Distance(nextIdx, Looked) = scanned
         /\ \A q \in Queues : Distance(nextIdx, q) = scanned => q = Looked
<1> DEFINE n == QueueCount
           i == nextIdx
           s == scanned
<1>1. n \in Nat \ {0} /\ i \in 0 .. n - 1 /\ s \in 0 .. n - 1 /\ Queues = 0 .. n - 1
  BY Ranges DEF Queues
<1>2. /\ i + s < n => (i + s) % n = i + s
      /\ i + s >= n => (i + s) % n = i + s - n
  <2> HIDE DEF n, i, s
  <2> QED BY <1>1
<1>3. Looked = IF i + s < n THEN i + s ELSE i + s - n
  <2> HIDE DEF n, i, s
  <2>1. i + s < n \/ i + s >= n
    BY <1>1
  <2>2. Looked = (i + s) % n
    BY DEF Looked, n, i, s
  <2> QED BY <1>1, <1>2, <2>1, <2>2
<1> HIDE DEF n, i, s
<1>4. Looked \in 0 .. n - 1
  BY <1>1, <1>3
<1>5. \A q \in 0 .. n - 1 : Distance(i, q) = IF q >= i THEN q - i ELSE q - i + n
  BY DEF Distance, n
<1>6. Distance(i, Looked) = s /\ \A q \in 0 .. n - 1 : Distance(i, q) = s => q = Looked
  BY <1>1, <1>3, <1>4, <1>5
<1> QED BY <1>1, <1>4, <1>6 DEF i, s, n

\* A queue is fewer steps away than there are queues.
LEMMA DistanceInside ==
  ASSUME NEW i \in Queues, NEW q \in Queues
  PROVE  Distance(i, q) \in Nat /\ Distance(i, q) < QueueCount
<1> DEFINE n == QueueCount
<1>1. n \in Nat \ {0} /\ i \in 0 .. n - 1 /\ q \in 0 .. n - 1
  BY Ranges DEF Queues
<1>2. Distance(i, q) = IF q >= i THEN q - i ELSE q - i + n
  BY DEF Distance
<1> HIDE DEF n
<1>3. Distance(i, q) \in Nat /\ Distance(i, q) < n
  BY <1>1, <1>2
<1> QED BY <1>3 DEF n

\* The search that follows starts at a queue.
LEMMA StartsInside ==
  ASSUME NEW from \in Queues
  PROVE  StartsAfter(from) \in Queues
<1> DEFINE n == QueueCount
           p == from + 1
<1>1. n \in Nat \ {0} /\ p \in Nat
  BY Ranges DEF Queues
<1> HIDE DEF n, p
<1>2. p % n \in 0 .. n - 1
  BY <1>1
<1> QED BY <1>2 DEF StartsAfter, Queues, n, p

\* When the turn of queue `at` has come, the others are nearer to theirs, and
\* those it has passed are the farthest.
LEMMA NextTurn ==
  ASSUME NEW i \in Queues, NEW from \in Queues, NEW q \in Queues, q # from
  PROVE  /\ Distance(i, q) \in Nat /\ Distance(i, from) \in Nat
         /\ Distance(i, from) < QueueCount
         /\ Distance(i, q) > Distance(i, from) =>
              Distance(StartsAfter(from), q) = Distance(i, q) - Distance(i, from) - 1
         /\ Distance(i, q) < Distance(i, from) =>
              Distance(StartsAfter(from), q) < QueueCount - 1
         /\ Distance(i, q) # Distance(i, from)
<1> DEFINE n == QueueCount
<1>1. n \in Nat \ {0} /\ i \in 0 .. n - 1 /\ from \in 0 .. n - 1 /\ q \in 0 .. n - 1
  BY Ranges DEF Queues
<1>2. /\ from + 1 < n => (from + 1) % n = from + 1
      /\ from + 1 = n => (from + 1) % n = 0
  <2> HIDE DEF n
  <2> QED BY <1>1
<1>3. StartsAfter(from) = IF from + 1 < n THEN from + 1 ELSE 0
  <2> HIDE DEF n
  <2>1. from + 1 < n \/ from + 1 = n
    BY <1>1
  <2>2. StartsAfter(from) = (from + 1) % n
    BY DEF StartsAfter, n
  <2> QED BY <1>1, <1>2, <2>1, <2>2
<1> DEFINE next == StartsAfter(from)
<1>4. next = IF from + 1 < n THEN from + 1 ELSE 0
  BY <1>3
<1> HIDE DEF next
<1>5. /\ Distance(i, q) = IF q >= i THEN q - i ELSE q - i + n
      /\ Distance(i, from) = IF from >= i THEN from - i ELSE from - i + n
      /\ Distance(next, q) = IF q >= next THEN q - next ELSE q - next + n
  BY DEF Distance
<1> HIDE DEF n
<1>6. /\ Distance(i, q) \in Nat /\ Distance(i, from) \in Nat
      /\ Distance(i, from) < n /\ Distance(i, q) # Distance(i, from)
  BY <1>1, <1>5
<1>7. Distance(i, q) > Distance(i, from) =>
        Distance(next, q) = Distance(i, q) - Distance(i, from) - 1
  BY <1>1, <1>4, <1>5
<1>8. Distance(i, q) < Distance(i, from) => Distance(next, q) < n - 1
  BY <1>1, <1>4, <1>5
<1> QED BY <1>6, <1>7, <1>8 DEF n, next

\* A queue passed over has waited for none, so it may wait for all the others.
LEMMA PopTurns ==
  ASSUME BacklogInv, Pop
  PROVE  Turns'
<1> DEFINE from == Looked
<1>1. /\ worker = "scan" /\ scanned < QueueCount /\ queue[from] # <<>>
      /\ hand' = [queue |-> from, message |-> Head(queue[from])]
      /\ queue' = [queue EXCEPT ![from] = Tail(queue[from])]
      /\ nextIdx' = StartsAfter(from)
      /\ worker' = "emit" /\ scanned' = 0
      /\ bypassed' = [q \in Queues |-> IF q = from \/ queue[q] = <<>>
                                       THEN 0 ELSE bypassed[q] + 1]
  BY DEF Pop
<1>2. /\ nextIdx \in Queues /\ scanned \in 0 .. QueueCount
      /\ queue \in [Queues -> Seq(Messages)] /\ bypassed \in [Queues -> Nat]
  BY DEF BacklogInv, LoggerTypeOK, Turns
<1>3. from \in Queues /\ Distance(nextIdx, from) = scanned
  BY <1>1, <1>2, LookedAt
<1>4. hand'.message \in Messages
  BY <1>1, <1>2, <1>3, HeadFirst
<1>5. /\ QueueCount \in Nat \ {0} /\ Queues = 0 .. QueueCount - 1
  BY Ranges DEF Queues
<1> HIDE DEF from
<1>6. bypassed' \in [Queues -> Nat]
  BY <1>1, <1>2
<1>7. \A q \in Queues : queue'[q] = <<>> => bypassed'[q] = 0
  BY <1>1, <1>2, <1>3
<1>8. \A q \in Queues : bypassed'[q] + Distance(nextIdx', q) < QueueCount
  <2> SUFFICES ASSUME NEW q \in Queues
               PROVE  bypassed'[q] + Distance(nextIdx', q) < QueueCount
    OBVIOUS
  <2>1. /\ Distance(nextIdx', q) \in Nat /\ Distance(nextIdx', q) < QueueCount
        /\ nextIdx' \in Queues
    <3>1. nextIdx' \in Queues
      BY <1>1, <1>3, StartsInside
    <3> QED BY <3>1, DistanceInside
  <2>2. CASE q = from \/ queue[q] = <<>>
    <3>1. bypassed'[q] = 0
      BY <1>1, <2>2
    <3> QED BY <2>1, <3>1
  <2>3. CASE ~(q = from \/ queue[q] = <<>>)
    <3>1. bypassed'[q] = bypassed[q] + 1 /\ bypassed[q] \in Nat
      BY <1>1, <1>2, <2>3
    <3>2. bypassed[q] + Distance(nextIdx, q) < QueueCount
      BY DEF BacklogInv, Turns
    <3>3. /\ Distance(nextIdx, q) \in Nat /\ Distance(nextIdx, q) # scanned
          /\ Distance(nextIdx, q) > scanned =>
               Distance(nextIdx', q) = Distance(nextIdx, q) - scanned - 1
          /\ Distance(nextIdx, q) < scanned => Distance(nextIdx', q) < QueueCount - 1
      BY <1>1, <1>2, <1>3, <2>3, NextTurn
    <3>4. CASE Distance(nextIdx, q) > scanned
      <4> DEFINE x == Distance(nextIdx, q)
                 y == Distance(nextIdx', q)
                 b == bypassed[q]
      <4>1. b \in Nat /\ x \in Nat /\ scanned \in Nat /\ QueueCount \in Nat
        BY <1>2, <1>5, <3>1, <3>3
      <4>2. y = x - scanned - 1 /\ b + x < QueueCount /\ bypassed'[q] = b + 1
        BY <3>1, <3>2, <3>3, <3>4
      <4> HIDE DEF x, y, b
      <4>3. bypassed'[q] + y < QueueCount
        BY <4>1, <4>2
      <4> QED BY <4>3 DEF y
    <3>5. CASE Distance(nextIdx, q) < scanned
      <4>1. bypassed[q] = 0
        BY <1>1, <3>5 DEF BacklogInv, Turns
      <4> QED BY <1>5, <2>1, <3>1, <3>3, <3>5, <4>1
    <3> QED BY <1>2, <3>3, <3>4, <3>5
  <2> QED BY <2>2, <2>3
<1> QED BY <1>1, <1>4, <1>6, <1>7, <1>8 DEF Turns, Distance

\* Every step keeps the turns of the queues.
LEMMA TurnsStep ==
  ASSUME BacklogInv, Next
  PROVE  Turns'
<1> USE DEF intake, submit, pass
<1>1. CASE Start
  BY <1>1 DEF Start, BacklogInv, Intake, Turns, Distance
<1>2. CASE StopAccepting \/ NotifyAll
  BY <1>2 DEF StopAccepting, NotifyAll, BacklogInv, Turns, Distance
<1>3. CASE Test
  <2>1. \A q \in Queues : ~(Distance(nextIdx, q) < 0)
    BY Ranges DEF Distance, Queues, BacklogInv, LoggerTypeOK
  <2>2. worker = "test" /\ scanned = 0 /\ worker' \in {"scan", "search"} /\ 0 < QueueCount
    BY <1>3, Ranges DEF Test, BacklogInv, Turns
  <2>3. UNCHANGED <<scanned, nextIdx, hand, bypassed, queue>>
    BY <1>3 DEF Test
  <2> QED BY <2>1, <2>2, <2>3 DEF BacklogInv, Turns, Distance
<1>4. CASE Search
  <2>1. UNCHANGED <<nextIdx, hand, bypassed, queue>> /\ worker = "search"
    BY <1>4 DEF Search
  <2>2. \A q \in Queues : ~(Distance(nextIdx, q) < 0)
    BY Ranges DEF Distance, Queues, BacklogInv, LoggerTypeOK
  <2>3. \/ worker' = "scan" /\ scanned' = 0
        \/ worker' = "search" /\ scanned' < QueueCount
        \/ worker' = "exited" /\ scanned' = 0
    BY <1>4 DEF Search
  <2> QED BY <2>1, <2>2, <2>3 DEF BacklogInv, Turns, Distance
<1>5. CASE LookOn
  <2>1. /\ worker = "scan" /\ worker' = "scan" /\ scanned' = scanned + 1
        /\ scanned < QueueCount /\ queue[Looked] = <<>>
        /\ UNCHANGED <<nextIdx, hand, bypassed, queue>>
    BY <1>5 DEF LookOn
  <2>2. /\ nextIdx \in Queues /\ scanned \in 0 .. QueueCount
    BY DEF BacklogInv, LoggerTypeOK
  <2>3. /\ Looked \in Queues /\ \A q \in Queues : Distance(nextIdx, q) = scanned => q = Looked
    BY <2>1, <2>2, LookedAt
  <2>4. \A q \in Queues : Distance(nextIdx, q) < scanned + 1 =>
          Distance(nextIdx, q) < scanned \/ Distance(nextIdx, q) = scanned
    BY <2>2, Ranges DEF Distance, Queues
  <2>5. \A q \in Queues : Distance(nextIdx, q) < scanned + 1 => bypassed[q] = 0
    BY <2>1, <2>3, <2>4 DEF BacklogInv, Turns
  <2> QED BY <2>1, <2>5 DEF BacklogInv, Turns, Distance
<1>6. CASE Pause
  BY <1>6 DEF Pause, BacklogInv, Turns, Distance
<1>7. CASE Emit
  BY <1>7 DEF Emit, BacklogInv, Turns, Distance
<1>8. ASSUME NEW p \in Producers, NEW q \in Queues, NEW room,
             queue' = [queue EXCEPT ![q] = Append(room, msg[p])], room \in Seq(Messages),
             msg[p] \in Messages,
             UNCHANGED <<pass, bypassed>>
      PROVE  Turns'
  <2>1. queue \in [Queues -> Seq(Messages)]
    BY DEF BacklogInv, LoggerTypeOK
  <2>2. Append(room, msg[p]) # <<>>
    <3>1. Len(Append(room, msg[p])) = Len(room) + 1 /\ Len(room) \in Nat
      BY <1>8, AppendedTo
    <3> QED BY <3>1
  <2>3. \A r \in Queues : queue'[r] = <<>> => queue[r] = <<>>
    BY <1>8, <2>1, <2>2
  <2> QED BY <1>8, <2>3 DEF BacklogInv, Turns, Distance
<1>9. ASSUME NEW p \in Producers, PushRealtime(p) PROVE Turns'
  <2>1. PICK q \in Queues : q = into[p]
    BY <1>9, InProgress DEF PushRealtime
  <2>2. msg[p] \in Messages
    BY <1>9, InProgress DEF PushRealtime
  <2>3. MakesRoom(q) \in Seq(Messages)
    <3>1. queue[q] \in Seq(Messages) /\ Capacity[q] \in Nat \ {0}
      BY Ranges DEF BacklogInv, LoggerTypeOK
    <3>2. CASE Len(queue[q]) >= Capacity[q]
      <4>1. queue[q] # <<>>
        BY <3>1, <3>2
      <4> QED BY <3>1, <3>2, <4>1, HeadFirst DEF MakesRoom
    <3>3. CASE ~(Len(queue[q]) >= Capacity[q])
      BY <3>1, <3>3 DEF MakesRoom
    <3> QED BY <3>2, <3>3
  <2>4. queue' = [queue EXCEPT ![q] = Append(MakesRoom(q), msg[p])] /\ UNCHANGED <<pass, bypassed>>
    BY <1>9, <2>1 DEF PushRealtime
  <2> QED BY <1>8, <2>2, <2>3, <2>4
<1>10. ASSUME NEW p \in Producers, AppendGuaranteed(p) PROVE Turns'
  <2>1. PICK q \in Queues : q = into[p]
    BY <1>10, InProgress DEF AppendGuaranteed
  <2>2. msg[p] \in Messages /\ queue[q] \in Seq(Messages)
    BY <1>10, InProgress DEF AppendGuaranteed, BacklogInv, LoggerTypeOK
  <2>3. queue' = [queue EXCEPT ![q] = Append(queue[q], msg[p])] /\ UNCHANGED <<pass, bypassed>>
    BY <1>10, <2>1 DEF AppendGuaranteed
  <2> QED BY <1>8, <2>2, <2>3
<1>11. ASSUME NEW p \in Producers, Submit(p) \/ GiveUp(p) \/ Lock(p) \/ CheckRoom(p)
                                    \/ Block(p) \/ PushGuaranteed(p)
       PROVE  Turns'
  <2>1. UNCHANGED <<worker, scanned, nextIdx, hand, bypassed, queue>>
    BY <1>11 DEF Submit, GiveUp, Lock, CheckRoom, Block, PushGuaranteed
  <2> QED BY <2>1 DEF BacklogInv, Turns, Distance
<1> QED BY <1>1, <1>2, <1>3, <1>4, <1>5, <1>6, <1>7, <1>9, <1>10, <1>11, PopTurns
    DEF Next, Submitting, Working

-----------------------------------------------------------------------------
(* The theorems *)

LEMMA BacklogInit == Init => BacklogInv
<1> SUFFICES ASSUME Init PROVE BacklogInv
  OBVIOUS
<1> USE DEF Init
<1>1. LoggerTypeOK
  <2>1. /\ queue \in [Queues -> Seq(Messages)] /\ accepted \in [Queues -> Seq(Messages)]
        /\ written \in [Queues -> Seq(Messages)]
    <3>1. <<>> \in Seq(Messages)
      OBVIOUS
    <3> QED BY <3>1
  <2>2. \A q \in Queues : Len(queue[q]) <= Capacity[q]
    <3> SUFFICES ASSUME NEW q \in Queues PROVE Len(queue[q]) <= Capacity[q]
      OBVIOUS
    <3>1. queue[q] = <<>> /\ Capacity[q] \in Nat
      BY Ranges
    <3> QED BY <3>1
  <2>3. /\ into \in [Producers -> Queues] /\ msg \in [Producers -> 0 .. MaxMessages]
        /\ nextIdx \in Queues /\ submitted \in 0 .. MaxMessages /\ scanned \in 0 .. QueueCount
        /\ hand \in [queue : Queues, message : 0 .. MaxMessages]
    BY Ranges DEF Nothing
  <2>4. /\ holder \in [Queues -> Producers \union {Nobody}]
        /\ at \in [Producers -> {"idle", "trylock", "lock", "check", "block", "push", "append"}]
        /\ evicted \subseteq Messages /\ settled \subseteq Messages /\ asleep \subseteq Producers
    OBVIOUS
  <2> QED BY <2>1, <2>2, <2>3, <2>4 DEF LoggerTypeOK
<1>2. Intake /\ Room
  BY DEF Intake, Room, Inside
<1>3. \A q \in Queues : \A m : ~Contains(accepted[q], m)
  BY DEF Contains
<1>4. Submits
  BY <1>3 DEF Submits, Guaranteeing
<1>5. Pushed
  <2>1. \A q \in Queues : Kept(q) = <<>>
    <3>1. <<>> \in Seq(Messages)
      OBVIOUS
    <3> QED BY <3>1, ConcatEmptySeq DEF Kept, InHand
  <2>2. \A q \in Queues : Conserved(accepted[q], evicted, Kept(q))
    BY <2>1 DEF Conserved, Contains, Precedes
  <2> QED BY <1>3, <2>2 DEF Pushed
<1>6. Turns
  <2>1. \A q \in Queues : Distance(0, q) = q /\ 0 + q < QueueCount
    BY Ranges DEF Distance, Queues
  <2> QED BY <2>1 DEF Turns
<1> QED BY <1>1, <1>2, <1>4, <1>5, <1>6 DEF BacklogInv

\* Every step keeps the invariant.
LEMMA BacklogStep == BacklogInv /\ [Next]_vars => BacklogInv'
<1> SUFFICES ASSUME BacklogInv, [Next]_vars PROVE BacklogInv'
  OBVIOUS
<1>1. CASE Next
  <2>1. LoggerTypeOK'
    BY <1>1, TypesOfIntake, TypesOfWorker, TypesOfSubmit DEF Next
  <2> QED BY <1>1, <2>1, IntakeStep, SubmitsStep, PushedStep, RoomStep, TurnsStep DEF BacklogInv
<1>2. CASE UNCHANGED vars
  <2>1. LoggerTypeOK' /\ Intake' /\ Submits' /\ Room' /\ Turns'
    BY <1>2 DEF vars, BacklogInv, LoggerTypeOK, Intake, Submits, Room, Turns, Full, Contains,
                Distance
  <2>2. \A q \in Queues : (Kept(q))' = Kept(q)
    BY <1>2 DEF vars, Kept, InHand
  <2>3. submitted' = submitted /\ submitted \in Nat
    BY <1>2, Ranges DEF vars, BacklogInv, LoggerTypeOK
  <2>4. Pushed'
    BY <1>2, <2>2, <2>3, PushedFrame DEF vars
  <2> QED BY <2>1, <2>4 DEF BacklogInv
<1> QED BY <1>1, <1>2

\* The invariant of AsyncLogger.cpp: while a submit holds the mutex the room it
\* found stays, a message is pushed on one queue only, and the longer a queue
\* has waited for the worker the nearer it is to its turn.
THEOREM BacklogInvariant == Spec => []BacklogInv
BY BacklogInit, BacklogStep, PTL DEF Spec

\* For any number of threads, queues and messages: no guaranteed message is
\* lost, none is written twice or overtaken in its queue, no queue outgrows its
\* capacity, and none is served later than after one message of each other.
THEOREM LoggerSound == Spec => []LoggerInv
<1>1. BacklogInv => LoggerInv
  <2> SUFFICES ASSUME BacklogInv PROVE LoggerInv
    OBVIOUS
  <2>1. MessagesAreConserved
    <3>1. \A q \in Queues : Conserved(accepted[q], evicted, Kept(q))
      BY DEF BacklogInv, Pushed
    <3>2. \A q \in Queues : IsGuaranteed(q) => \A m \in evicted : ~Contains(accepted[q], m)
      BY DEF BacklogInv, Pushed, LoggerTypeOK
    <3> QED BY <3>1, <3>2 DEF MessagesAreConserved
  <2>2. NoQueueStarves
    <3> SUFFICES ASSUME NEW q \in Queues PROVE bypassed[q] < QueueCount
      BY DEF NoQueueStarves
    <3>1. /\ bypassed[q] \in Nat /\ nextIdx \in Queues
          /\ bypassed[q] + Distance(nextIdx, q) < QueueCount
      BY DEF BacklogInv, Turns, LoggerTypeOK
    <3>2. Distance(nextIdx, q) \in Nat
      BY <3>1, Ranges DEF Distance, Queues
    <3> QED BY <3>1, <3>2, Ranges
  <2> QED BY <2>1, <2>2 DEF BacklogInv, LoggerInv
<1> QED BY <1>1, BacklogInvariant, PTL
=============================================================================
