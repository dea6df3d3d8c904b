---------------------------- MODULE FanOutProofs ----------------------------
(***************************************************************************)
(* Proofs about the communicator for every finite set of callers, every    *)
(* number of recipients and of calls, and both modes.                      *)
(***************************************************************************)
EXTENDS FanOut, FiniteSetTheorems, TLAPS

(* The recipients that have nothing to answer, the callers in the queue. *)
Answered == {i \in Recipients : inbox[i] = <<>>}
Queued == {c \in Callers : pc[c] = "queued"}

(* The types of the variables the argument is about. *)
Types ==
  /\ current \in Rounds \cup {None}
  /\ values \in [Rounds -> Seq(Rounds)]
  /\ fired \subseteq Rounds
  /\ inbox \in [Recipients -> Seq(Rounds)]
  /\ pc \in [Callers -> {"idle", "queued", "waiting", "failed"}]
  /\ mine \in [Callers -> Rounds \cup {None}]
  /\ DOMAIN result = Callers
  /\ sent \in Nat /\ calls \in 0 .. MaxCalls

(* The round in flight is the last one; a recipient that has not answered    *)
(* has exactly its request, and the list has one answer of every other one.  *)
RoundOpen ==
  /\ current = sent
  /\ \A i \in Recipients : inbox[i] \in {<<>>, <<sent>>}
  /\ Len(values[sent]) = Cardinality(Answered)
  /\ sent \in fired <=> Answered = Recipients

(* A list holds answers to its own round only, and its event is set when it  *)
(* is complete.                                                              *)
ListsOwn ==
  /\ \A k \in Rounds : k > sent => values[k] = <<>> /\ k \notin fired
  /\ \A k \in Rounds : \A j \in 1 .. Len(values[k]) : values[k][j] = k
  /\ \A k \in fired : Len(values[k]) = FanOutSize

(* A caller waits for the round in flight or for one that is complete; a     *)
(* queueing caller is the only one that waits.                               *)
WaitersOwn ==
  \A c \in Callers : pc[c] = "waiting" =>
    /\ mine[c] \in Rounds /\ mine[c] <= sent
    /\ mine[c] = current \/ mine[c] \in fired
    /\ mode = "queueing" =>
         /\ mine[c] = current
         /\ \A e \in Callers : pc[e] = "waiting" => e = c

(* The inductive invariant. *)
IInv ==
  /\ Types
  /\ broken = FALSE
  /\ current = None => Answered = Recipients
  /\ current # None => RoundOpen
  /\ ListsOwn
  /\ WaitersOwn
  /\ sent + Cardinality(Queued) <= calls
  /\ ResultIsOwn

(* There are FanOutSize recipients, and all of them have answered exactly    *)
(* when FanOutSize of them have.                                             *)
LEMMA AnsweredFacts ==
    /\ IsFiniteSet(Answered) /\ Cardinality(Answered) \in Nat
    /\ Cardinality(Recipients) = FanOutSize
    /\ Cardinality(Answered) = FanOutSize <=> Answered = Recipients
<1>1. IsFiniteSet(Recipients) /\ Cardinality(Recipients) = FanOutSize
    BY FanOutAssumption, FS_Interval DEF Recipients
<1>2. Answered \subseteq Recipients
    BY DEF Answered
<1>3. IsFiniteSet(Answered) /\ Cardinality(Answered) \in Nat
    BY <1>1, <1>2, FS_Subset, FS_CardinalityType
<1>4. Cardinality(Answered) = Cardinality(Recipients) => Answered = Recipients
    BY <1>1, <1>2, FS_Subset
<1> QED BY <1>1, <1>3, <1>4

(* When one caller moves, the length of the queue changes by that caller.    *)
LEMMA QueuedMove ==
    ASSUME NEW c \in Callers, NEW s, pc \in [Callers -> {"idle", "queued", "waiting", "failed"}],
           pc' = [pc EXCEPT ![c] = s]
    PROVE  /\ Cardinality(Queued) \in Nat
           /\ s # "queued" /\ pc[c] = "queued" => Cardinality(Queued') = Cardinality(Queued) - 1
           /\ s = "queued" /\ pc[c] # "queued" => Cardinality(Queued') = Cardinality(Queued) + 1
           /\ s # "queued" /\ pc[c] # "queued" => Cardinality(Queued') = Cardinality(Queued)
<1>1. IsFiniteSet(Queued) /\ Cardinality(Queued) \in Nat
    <2> Queued \subseteq Callers
        BY DEF Queued
    <2> QED BY FanOutAssumption, FS_Subset, FS_CardinalityType
<1>2. \A e \in Callers : pc'[e] = IF e = c THEN s ELSE pc[e]
    OBVIOUS
<1>3. ASSUME s # "queued", pc[c] = "queued"
      PROVE  Cardinality(Queued') = Cardinality(Queued) - 1
    <2>1. Queued' = Queued \ {c} /\ c \in Queued
        BY <1>2, <1>3 DEF Queued
    <2> QED BY <1>1, <2>1, FS_RemoveElement
<1>4. ASSUME s = "queued", pc[c] # "queued"
      PROVE  Cardinality(Queued') = Cardinality(Queued) + 1
    <2>1. Queued' = Queued \cup {c} /\ c \notin Queued
        BY <1>2, <1>4 DEF Queued
    <2> QED BY <1>1, <2>1, FS_AddElement
<1>5. ASSUME s # "queued", pc[c] # "queued"
      PROVE  Queued' = Queued
    BY <1>2, <1>5 DEF Queued
<1> QED BY <1>1, <1>3, <1>4, <1>5

LEMMA InitIInv == Init => IInv
<1> SUFFICES ASSUME Init PROVE IInv
    OBVIOUS
<1>1. Types
    BY FanOutAssumption DEF Init, Types, Rounds, Recipients
<1>2. Answered = Recipients
    BY DEF Init, Answered
<1>3. Queued = {} /\ Cardinality(Queued) = 0
    BY FS_EmptySet, Zenon DEF Init, Queued
<1>4. ListsOwn /\ WaitersOwn /\ ResultIsOwn
    BY DEF Init, ListsOwn, WaitersOwn, ResultIsOwn
<1> QED BY <1>1, <1>2, <1>3, <1>4 DEF Init, IInv

(* A round begins when none is in flight: the recipients get its request and *)
(* nothing else, and its list is empty.                                      *)
LEMMA StartInv ==
    ASSUME IInv, NEW c \in Callers, Start(c), current = None, sent < MaxCalls,
           pc[c] \in {"idle", "queued"}, calls' \in 0 .. MaxCalls,
           UNCHANGED <<mode, values, fired, result, broken>>,
           sent' + Cardinality(Queued') <= calls'
    PROVE  IInv'
<1> USE DEF IInv
<1>1. sent' = sent + 1 /\ sent' \in Rounds /\ sent' # None /\ current' = sent'
    BY FanOutAssumption DEF Start, Types, Rounds
<1>2. \A i \in Recipients : inbox[i] = <<>> /\ inbox'[i] = <<sent'>>
    <2>1. \A i \in Recipients : inbox[i] = <<>>
        <3> Answered = Recipients
            OBVIOUS
        <3> HIDE DEF IInv
        <3> QED BY DEF Answered
    <2>2. \A i \in Recipients : inbox'[i] = Append(<<>>, sent')
        BY <2>1, <1>1, Zenon DEF Start
    <2>3. Append(<<>>, sent') = <<sent'>>
        BY <1>1
    <2> QED BY <2>1, <2>2, <2>3
<1>3. inbox' \in [Recipients -> Seq(Rounds)]
    <2>1. <<sent'>> \in Seq(Rounds)
        BY <1>1
    <2>2. inbox' = [i \in Recipients |-> inbox'[i]]
        BY DEF Start
    <2> HIDE DEF IInv
    <2> QED BY <2>1, <2>2, <1>2, Zenon
<1>4. Types'
    BY <1>1, <1>3 DEF Start, Types
<1>5. Answered' = {} /\ Cardinality(Answered') = 0 /\ Answered' # Recipients
    <2>1. Answered' = {}
        BY <1>2 DEF Answered
    <2>2. 1 \in Recipients
        BY FanOutAssumption DEF Recipients
    <2> QED BY <2>1, <2>2, FS_EmptySet
<1>6. RoundOpen'
    <2>1. values'[sent'] = <<>> /\ sent' \notin fired'
        BY <1>1 DEF ListsOwn, Types
    <2> QED BY <1>1, <1>2, <1>5, <2>1, Zenon DEF RoundOpen
<1>7. ListsOwn'
    BY <1>1 DEF ListsOwn, Types, Rounds
<1>8. WaitersOwn'
    <2>1. mode = "queueing" => \A e \in Callers : pc[e] # "waiting"
        BY FanOutAssumption DEF WaitersOwn, Rounds
    <2>2. /\ pc'[c] = "waiting" /\ mine'[c] = sent'
          /\ \A e \in Callers \ {c} : pc'[e] = pc[e] /\ mine'[e] = mine[e]
        BY DEF Start, Types
    <2>3. \A e \in Callers \ {c} : pc[e] = "waiting" => mine[e] \in fired
        BY FanOutAssumption DEF WaitersOwn, Rounds
    <2> QED BY <1>1, <2>1, <2>2, <2>3 DEF WaitersOwn, Types, Rounds
<1>9. ResultIsOwn'
    BY DEF ResultIsOwn, Start, Types
<1> QED BY <1>1, <1>4, <1>6, <1>7, <1>8, <1>9

(* The answer list of a complete round has one answer of every recipient.    *)
LEMMA CompleteList ==
    ASSUME Types, ListsOwn, NEW k \in fired
    PROVE  values[k] = [i \in Recipients |-> k]
<1>1. values[k] \in Seq(Rounds) /\ Len(values[k]) = FanOutSize
    BY DEF Types, ListsOwn
<1>2. \A j \in 1 .. FanOutSize : values[k][j] = k
    BY <1>1 DEF Types, ListsOwn
<1>3. DOMAIN values[k] = 1 .. FanOutSize /\ values[k] = [j \in 1 .. FanOutSize |-> values[k][j]]
    BY <1>1
<1> QED BY <1>2, <1>3 DEF Recipients

(* Clearing the round in flight is safe once its event is set: nothing is    *)
(* left to be answered.                                                      *)
LEMMA ClearedQuiet ==
    ASSUME IInv, current # None, current \in fired
    PROVE  Answered = Recipients
BY DEF IInv, RoundOpen

(* A coroutine calls the communicator. *)
LEMMA CallInv ==
    ASSUME IInv, NEW c \in Callers, Call(c)
    PROVE  IInv'
<1> USE DEF IInv
<1>1. /\ pc[c] = "idle" /\ calls < MaxCalls /\ calls' = calls + 1
      /\ calls' \in 0 .. MaxCalls
      /\ UNCHANGED <<mode, values, fired, broken>>
    BY FanOutAssumption DEF Call, Types
<1>2. Cardinality(Queued) \in Nat /\ sent < MaxCalls
    <2>1. pc' \in [Callers -> {"idle", "queued", "waiting", "failed"}] /\ Cardinality(Queued) \in Nat
        <3> Queued \subseteq Callers
            BY DEF Queued
        <3>1. Cardinality(Queued) \in Nat
            BY FanOutAssumption, FS_Subset, FS_CardinalityType
        <3>2. pc' = pc \/ \E x \in {"queued", "waiting"} : pc' = [pc EXCEPT ![c] = x]
            BY DEF Call, QueueingCall, WatchingCall, Start
        <3> QED BY <3>1, <3>2 DEF Types
    <2> QED BY <2>1, <1>1, FanOutAssumption DEF Types
<1>3. CASE current = None /\ Start(c) /\ UNCHANGED result
    <2>1. pc' = [pc EXCEPT ![c] = "waiting"] /\ sent' = sent + 1
        BY <1>3 DEF Start
    <2>2. Cardinality(Queued') = Cardinality(Queued)
        <3> "waiting" # "queued" /\ "idle" # "queued" /\ pc[c] = "idle"
            BY <1>1
        <3> pc \in [Callers -> {"idle", "queued", "waiting", "failed"}]
            BY DEF Types
        <3> HIDE DEF IInv
        <3> QED BY <2>1, QueuedMove, Zenon
    <2>3. sent' + Cardinality(Queued') <= calls'
        BY <1>1, <1>2, <2>1, <2>2 DEF Types
    <2> HIDE DEF IInv
    <2> QED BY <1>1, <1>2, <1>3, <2>3, StartInv
<1>4. ASSUME pc' = [pc EXCEPT ![c] = "queued"],
             UNCHANGED <<current, inbox, mine, sent, result>>
      PROVE  IInv'
    <2>1. Cardinality(Queued') = Cardinality(Queued) + 1
        BY <1>1, <1>4, QueuedMove, Zenon DEF Types
    <2>2. sent' + Cardinality(Queued') <= calls'
        BY <1>1, <1>2, <1>4, <2>1 DEF Types
    <2>3. Types'
        BY <1>1, <1>4 DEF Types
    <2>4. Answered' = Answered
        BY <1>4 DEF Answered
    <2>5. ListsOwn' /\ (current # None => RoundOpen')
        BY <1>1, <1>4, <2>4 DEF ListsOwn, RoundOpen
    <2>6. WaitersOwn' /\ ResultIsOwn'
        BY <1>1, <1>4 DEF WaitersOwn, ResultIsOwn, Types
    <2> QED BY <1>1, <1>4, <2>2, <2>3, <2>4, <2>5, <2>6
<1>5. ASSUME mode # "queueing", current # None, current \notin fired,
             mine' = [mine EXCEPT ![c] = current], pc' = [pc EXCEPT ![c] = "waiting"],
             UNCHANGED <<current, inbox, sent, result>>
      PROVE  IInv'
    <2>1. Cardinality(Queued') = Cardinality(Queued)
        <3> "waiting" # "queued" /\ "idle" # "queued" /\ pc[c] = "idle"
            BY <1>1
        <3> pc \in [Callers -> {"idle", "queued", "waiting", "failed"}]
            BY DEF Types
        <3> HIDE DEF IInv
        <3> QED BY <1>5, QueuedMove, Zenon
    <2>2. sent' + Cardinality(Queued') <= calls'
        BY <1>1, <1>2, <1>5, <2>1 DEF Types
    <2>3. Types'
        BY <1>1, <1>5 DEF Types
    <2>4. Answered' = Answered
        BY <1>5 DEF Answered
    <2>5. ListsOwn' /\ (current # None => RoundOpen')
        BY <1>1, <1>5, <2>4 DEF ListsOwn, RoundOpen
    <2>6. WaitersOwn' /\ ResultIsOwn'
        BY <1>1, <1>5 DEF WaitersOwn, ResultIsOwn, Types, RoundOpen, Rounds
    <2> QED BY <1>1, <1>5, <2>2, <2>3, <2>4, <2>5, <2>6
<1>6. ASSUME mode # "queueing", current # None, current \in fired,
             mine' = [mine EXCEPT ![c] = current], result' = [result EXCEPT ![c] = values[current]],
             current' = None, UNCHANGED <<inbox, sent, pc>>
      PROVE  IInv'
    <2>1. sent' + Cardinality(Queued') <= calls'
        BY <1>1, <1>2, <1>6 DEF Types, Queued
    <2>2. Types'
        BY <1>1, <1>6 DEF Types
    <2>3. Answered' = Recipients
        BY <1>6, ClearedQuiet, Zenon DEF Answered
    <2>4. ListsOwn'
        BY <1>1, <1>6 DEF ListsOwn
    <2>5. WaitersOwn'
        BY <1>1, <1>6 DEF WaitersOwn, Types
    <2>6. values[current] = [i \in Recipients |-> current]
        BY <1>6, CompleteList, Zenon
    <2>7. ResultIsOwn'
        BY <1>1, <1>6, <2>6 DEF ResultIsOwn, Types
    <2> QED BY <1>1, <1>6, <2>1, <2>2, <2>3, <2>4, <2>5, <2>7
<1>7. \/ current = None /\ Start(c) /\ UNCHANGED result
      \/ /\ pc' = [pc EXCEPT ![c] = "queued"]
         /\ UNCHANGED <<current, inbox, mine, sent, result>>
      \/ /\ mode # "queueing" /\ current # None /\ current \notin fired
         /\ mine' = [mine EXCEPT ![c] = current] /\ pc' = [pc EXCEPT ![c] = "waiting"]
         /\ UNCHANGED <<current, inbox, sent, result>>
      \/ /\ mode # "queueing" /\ current # None /\ current \in fired
         /\ mine' = [mine EXCEPT ![c] = current]
         /\ result' = [result EXCEPT ![c] = values[current]]
         /\ current' = None /\ UNCHANGED <<inbox, sent, pc>>
    BY DEF Call, QueueingCall, WatchingCall
<1> QED
    <2> HIDE DEF IInv
    <2> QED BY <1>3, <1>4, <1>5, <1>6, <1>7

(* A queued caller wakes: it starts a round of its own, or its assertion     *)
(* fails and it leaves the round in flight alone.                            *)
LEMMA ResumeInv ==
    ASSUME IInv, NEW c \in Callers, QueueingResume(c)
    PROVE  IInv'
<1> USE DEF IInv
<1>1. pc[c] = "queued" /\ UNCHANGED <<mode, values, fired, result, calls, broken>>
    BY DEF QueueingResume
<1>2. Cardinality(Queued) \in Nat /\ Cardinality(Queued') = Cardinality(Queued) - 1
    <2>1. PICK s \in {"waiting", "failed"} : pc' = [pc EXCEPT ![c] = s]
        BY DEF QueueingResume, Start
    <2>2. s # "queued"
        OBVIOUS
    <2>3. pc \in [Callers -> {"idle", "queued", "waiting", "failed"}]
        BY DEF Types
    <2> HIDE DEF IInv
    <2> QED BY <1>1, <2>1, <2>2, <2>3, QueuedMove, Zenon
<1>3. /\ sent \in Nat /\ sent + Cardinality(Queued) <= calls /\ calls' \in 0 .. MaxCalls
      /\ calls \in Nat /\ calls <= MaxCalls /\ calls' = calls
    BY <1>1, FanOutAssumption DEF Types
<1>4. CASE current = None
    <2>1. Start(c)
        BY <1>4 DEF QueueingResume
    <2>2. sent' = sent + 1
        BY <2>1 DEF Start
    <2>3. Cardinality(Queued) >= 1
        <3>1. Queued \subseteq Callers /\ c \in Queued
            BY <1>1 DEF Queued
        <3>2. IsFiniteSet(Queued) /\ Queued # {}
            BY <3>1, FanOutAssumption, FS_Subset
        <3> QED BY <3>2, <1>2, FS_EmptySet
    <2>4. sent < MaxCalls /\ sent' + Cardinality(Queued') <= calls'
        <3> HIDE DEF IInv
        <3> QED BY <1>2, <1>3, <2>2, <2>3, FanOutAssumption
    <2> HIDE DEF IInv
    <2> QED BY <1>1, <1>3, <1>4, <2>1, <2>4, StartInv
<1>5. CASE current # None
    <2>1. pc' = [pc EXCEPT ![c] = "failed"] /\ UNCHANGED <<current, inbox, mine, sent>>
        BY <1>5 DEF QueueingResume
    <2>2. sent' + Cardinality(Queued') <= calls'
        <3> HIDE DEF IInv
        <3> QED BY <1>2, <1>3, <2>1
    <2>3. Types'
        BY <1>1, <1>3, <2>1 DEF Types
    <2>4. Answered' = Answered
        BY <2>1 DEF Answered
    <2>5. ListsOwn' /\ RoundOpen'
        BY <1>1, <1>5, <2>1, <2>4 DEF ListsOwn, RoundOpen
    <2>6. WaitersOwn' /\ ResultIsOwn'
        BY <1>1, <2>1 DEF WaitersOwn, ResultIsOwn, Types
    <2> QED BY <1>1, <1>5, <2>1, <2>2, <2>3, <2>5, <2>6
<1> QED BY <1>4, <1>5, Zenon

(* A waiting caller takes its answers; what it clears is complete. *)
LEMMA ReturnInv ==
    ASSUME IInv, NEW c \in Callers, Return(c)
    PROVE  IInv'
<1> USE DEF IInv
<1>1. /\ pc[c] = "waiting" /\ mine[c] \in fired /\ pc' = [pc EXCEPT ![c] = "idle"]
      /\ UNCHANGED <<mode, values, fired, inbox, mine, sent, calls, broken>>
    BY DEF Return
<1>2. mine[c] \in Rounds /\ mine[c] # None
    BY <1>1, FanOutAssumption DEF WaitersOwn, Rounds
<1>3. /\ current' = IF current = mine[c] THEN None ELSE current
      /\ result' = [result EXCEPT ![c] = values[mine[c]]]
    <2>1. CASE mode = "queueing"
        <3>1. mine[c] = current
            BY <1>1, <2>1 DEF WaitersOwn
        <3> QED BY <1>2, <2>1, <3>1 DEF Return, QueueingReturn
    <2>2. CASE mode # "queueing"
        BY <2>2 DEF Return, WatchingReturn
    <2> QED BY <2>1, <2>2
<1>4. Types'
    BY <1>1, <1>3 DEF Types
<1>5. Answered' = Answered /\ Cardinality(Queued') = Cardinality(Queued)
    <2>1. Answered' = Answered
        BY <1>1 DEF Answered
    <2>2. "idle" # "queued" /\ pc[c] # "queued" /\ "waiting" # "queued"
        BY <1>1
    <2>3. pc \in [Callers -> {"idle", "queued", "waiting", "failed"}]
        BY DEF Types
    <2> HIDE DEF IInv
    <2> QED BY <1>1, <2>1, <2>2, <2>3, QueuedMove, Zenon
<1>6. current' = None => Answered' = Recipients
    BY <1>1, <1>2, <1>3, <1>5, ClearedQuiet, Zenon
<1>7. ListsOwn' /\ (current' # None => RoundOpen')
    BY <1>1, <1>3, <1>5 DEF ListsOwn, RoundOpen
<1>8. WaitersOwn'
    <2> SUFFICES ASSUME NEW e \in Callers, pc'[e] = "waiting"
                 PROVE  /\ mine'[e] \in Rounds /\ mine'[e] <= sent'
                        /\ mine'[e] = current' \/ mine'[e] \in fired'
                        /\ mode' = "queueing" =>
                             /\ mine'[e] = current'
                             /\ \A g \in Callers : pc'[g] = "waiting" => g = e
        BY DEF WaitersOwn
    <2>1. e # c /\ pc[e] = "waiting" /\ \A g \in Callers : pc'[g] = "waiting" => pc[g] = "waiting"
        BY <1>1 DEF Types
    <2>2. mode # "queueing"
        BY <1>1, <2>1 DEF WaitersOwn
    <2>3. /\ mine[e] \in Rounds /\ mine[e] <= sent
          /\ mine[e] = current \/ mine[e] \in fired
        BY <2>1 DEF WaitersOwn
    <2> HIDE DEF IInv
    <2> QED BY <1>1, <1>3, <2>2, <2>3
<1>9. ResultIsOwn'
    <2>1. values[mine[c]] = [i \in Recipients |-> mine[c]]
        BY <1>1, CompleteList, Zenon
    <2> QED BY <1>1, <1>3, <2>1 DEF ResultIsOwn, Types
<1> QED BY <1>1, <1>4, <1>5, <1>6, <1>7, <1>8, <1>9

(* A recipient answers: it had the request of the round in flight, and only  *)
(* the last answer sets the event.                                           *)
LEMMA HandleRecvInv ==
    ASSUME IInv, NEW i \in Recipients, HandleRecv(i)
    PROVE  IInv'
<1> USE DEF IInv
<1>1. current # None
    <2>1. Answered # Recipients
        BY DEF HandleRecv, Answered
    <2> QED BY <2>1
<1>2. RoundOpen /\ sent \in Rounds /\ inbox[i] = <<sent>>
    <2>1. RoundOpen /\ sent \in Rounds
        BY <1>1 DEF RoundOpen, Types
    <2> QED BY <2>1 DEF RoundOpen, HandleRecv
<1>3. /\ inbox' = [inbox EXCEPT ![i] = <<>>]
      /\ values' = [values EXCEPT ![sent] = Append(@, sent)]
      /\ fired' = IF Len(values[sent]) + 1 = FanOutSize THEN fired \cup {sent} ELSE fired
      /\ broken' = FALSE
      /\ UNCHANGED <<mode, current, pc, mine, result, sent, calls>>
    <2>1. Tail(<<sent>>) = <<>> /\ Head(<<sent>>) = sent /\ current = sent
        BY <1>2 DEF RoundOpen
    <2>2. /\ inbox' = [inbox EXCEPT ![i] = Tail(inbox[i])]
          /\ values' = [values EXCEPT ![current] = Append(values[current], Head(inbox[i]))]
          /\ fired' = IF Len(values[current]) + 1 = FanOutSize THEN fired \cup {current} ELSE fired
          /\ broken' = FALSE
          /\ UNCHANGED <<mode, current, pc, mine, result, sent, calls>>
        BY <1>1, Zenon DEF HandleRecv
    <2> HIDE DEF IInv
    <2> QED BY <1>2, <2>1, <2>2
<1>4. Answered' = Answered \cup {i} /\ i \notin Answered
    <2>1. inbox[i] # <<>>
        BY DEF HandleRecv
    <2>2. \A h \in Recipients : inbox'[h] = IF h = i THEN <<>> ELSE inbox[h]
        BY <1>3 DEF Types
    <2> HIDE DEF IInv
    <2> QED BY <2>1, <2>2 DEF Answered
<1>5. /\ IsFiniteSet(Answered) /\ Cardinality(Answered) \in Nat
      /\ Cardinality(Answered') = Cardinality(Answered) + 1
      /\ Cardinality(Answered') = FanOutSize <=> Answered' = Recipients
    <2>1. IsFiniteSet(Answered) /\ Cardinality(Answered) \in Nat
        BY AnsweredFacts
    <2>2. Cardinality(Answered') = Cardinality(Answered) + 1
        BY <1>4, <2>1, FS_AddElement
    <2>3. IsFiniteSet(Recipients) /\ Cardinality(Recipients) = FanOutSize
        BY FanOutAssumption, FS_Interval DEF Recipients
    <2>4. Answered' \subseteq Recipients
        BY DEF Answered
    <2>5. Cardinality(Answered') = FanOutSize <=> Answered' = Recipients
        BY <2>3, <2>4, FS_Subset
    <2> QED BY <2>1, <2>2, <2>5
<1>6. /\ values[sent] \in Seq(Rounds)
      /\ values'[sent] = Append(values[sent], sent)
      /\ Len(values'[sent]) = Len(values[sent]) + 1
      /\ \A k \in Rounds : k # sent => values'[k] = values[k]
    <2>1. values \in [Rounds -> Seq(Rounds)] /\ values[sent] \in Seq(Rounds)
        BY <1>2 DEF Types
    <2>2. values'[sent] = Append(values[sent], sent)
        BY <1>2, <1>3, <2>1
    <2>3. \A k \in Rounds : k # sent => values'[k] = values[k]
        BY <1>3, <2>1
    <2>4. Len(Append(values[sent], sent)) = Len(values[sent]) + 1
        BY <2>1, <1>2
    <2> HIDE DEF IInv
    <2> QED BY <2>1, <2>2, <2>3, <2>4
<1>7. Types'
    <2>1. values' \in [Rounds -> Seq(Rounds)]
        BY <1>2, <1>3, <1>6 DEF Types
    <2>2. <<>> \in Seq(Rounds)
        OBVIOUS
    <2>3. inbox' \in [Recipients -> Seq(Rounds)]
        BY <2>2, <1>3 DEF Types
    <2> QED BY <1>2, <1>3, <2>1, <2>3 DEF Types
<1>8. sent \notin fired
    BY <1>2, <1>4 DEF RoundOpen
<1>9. RoundOpen'
    <2>1. Len(values[sent]) = Cardinality(Answered) /\ current = sent
        BY <1>2 DEF RoundOpen
    <2>2. sent' \in fired' <=> Answered' = Recipients
        BY <1>3, <1>5, <1>8, <2>1
    <2>3. \A h \in Recipients : inbox'[h] \in {<<>>, <<sent>>}
        BY <1>2, <1>3 DEF RoundOpen, Types
    <2> QED BY <1>3, <1>5, <1>6, <2>1, <2>2, <2>3 DEF RoundOpen
<1>10. ListsOwn'
    <2>1. \A k \in Rounds : k > sent => values'[k] = <<>> /\ k \notin fired'
        BY <1>2, <1>3, <1>6 DEF ListsOwn, Types, Rounds
    <2>2. \A j \in 1 .. Len(values'[sent]) : values'[sent][j] = sent
        BY <1>2, <1>6 DEF ListsOwn
    <2>3. \A k \in Rounds : \A j \in 1 .. Len(values'[k]) : values'[k][j] = k
        BY <1>6, <2>2 DEF ListsOwn
    <2>4. \A k \in fired' : Len(values'[k]) = FanOutSize
        BY <1>3, <1>6, <1>8 DEF ListsOwn, Types
    <2> QED BY <1>3, <2>1, <2>3, <2>4 DEF ListsOwn
<1>11. WaitersOwn' /\ ResultIsOwn'
    BY <1>3 DEF WaitersOwn, ResultIsOwn, Types
<1>12. Queued' = Queued
    BY <1>3 DEF Queued
<1> QED BY <1>1, <1>3, <1>7, <1>9, <1>10, <1>11, <1>12

LEMMA NextIInv == IInv /\ [Next]_vars => IInv'
<1> SUFFICES ASSUME IInv, [Next]_vars PROVE IInv'
    OBVIOUS
<1>1. CASE UNCHANGED vars
    BY <1>1 DEF vars, IInv, Types, RoundOpen, ListsOwn, WaitersOwn, ResultIsOwn, Answered, Queued
<1>2. ASSUME NEW c \in Callers, Call(c) PROVE IInv'
    BY <1>2, CallInv
<1>3. ASSUME NEW c \in Callers, Step(c) PROVE IInv'
    BY <1>3, ResumeInv, ReturnInv DEF Step
<1>4. ASSUME NEW i \in Recipients, HandleRecv(i) PROVE IInv'
    BY <1>4, HandleRecvInv
<1> QED BY <1>1, <1>2, <1>3, <1>4 DEF Next

(* Every reachable state satisfies the inductive invariant. *)
THEOREM FanOutInvariant == Spec => []IInv
BY InitIInv, NextIInv, PTL DEF Spec

(* FanOutCommunicator has only one request in flight, in either mode and for *)
(* any number of callers: the recipients never have two different requests.  *)
THEOREM FanOutOneInFlight == Spec => []OneInFlight
<1>1. IInv => OneInFlight
    <2> SUFFICES ASSUME IInv PROVE OneInFlight
        OBVIOUS
    <2> DEFINE All == UNION {{inbox[i][j] : j \in DOMAIN inbox[i]} : i \in Recipients}
    <2>1. \A i \in Recipients : inbox[i] = <<>> \/ inbox[i] = <<sent>>
        BY DEF IInv, RoundOpen, Answered
    <2>2. All \subseteq {sent}
        <3> SUFFICES ASSUME NEW i \in Recipients, NEW j \in DOMAIN inbox[i]
                     PROVE  inbox[i][j] = sent
            OBVIOUS
        <3>1. inbox[i] = <<sent>>
            BY <2>1
        <3> QED BY <3>1
    <2>3. All = {} \/ All = {sent}
        BY <2>2
    <2>4. Cardinality({}) = 0 /\ Cardinality({sent}) = 1
        BY FS_EmptySet, FS_Singleton, Zenon
    <2>5. Cardinality(All) <= 1
        <3> HIDE DEF All
        <3>1. CASE All = {}
            BY <3>1, <2>4
        <3>2. CASE All = {sent}
            BY <3>2, <2>4
        <3> QED BY <2>3, <3>1, <3>2
    <2> QED BY <2>5 DEF OneInFlight
<1> QED BY <1>1, FanOutInvariant, PTL

(* What a call of FanOutCommunicator returns are the answers of all the      *)
(* recipients to the request of its own round, whoever else calls.           *)
THEOREM FanOutResultIsOwn == Spec => []ResultIsOwn
<1>1. IInv => ResultIsOwn
    BY DEF IInv
<1> QED BY <1>1, FanOutInvariant, PTL

(* handle_recv never meets _result_values = None. *)
THEOREM FanOutAnswerExpected == Spec => []AnswerExpected
<1>1. IInv => AnswerExpected
    BY DEF IInv, AnswerExpected
<1> QED BY <1>1, FanOutInvariant, PTL

=============================================================================
