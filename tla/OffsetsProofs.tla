--------------------------- MODULE OffsetsProofs ---------------------------
(* Proofs about Offsets, for any topic, batch size, limits and number of     *)
(* faults.                                                                   *)
EXTENDS Offsets, FiniteSetTheorems, SequenceTheorems, TLAPS

SetOf(q) == {q[i] : i \in DOMAIN q}
InRest == SetOf(rest)
UpTo(n) == UNION {SpansOf(m) : m \in 1..n}

\* Between runs nothing is in hand, and the consumer is gone.
IdleHoldsNothing ==
  pc = "idle" => /\ ~dry /\ stored = 0 /\ consumed = 0 /\ given = 0
                 /\ rest = <<>> /\ batch = <<>>

OnlyDryRunsPrint == ~dry => printed = {}

\* The generator is closed, and its consumer with it, before the final batch goes out.
TailIsClosed == pc = "tail" => committed = stored /\ rest = <<>>

\* There is room for one event more unless the generator is suspended, and then the
\* message in hand has been begun.
RoomAhead ==
  /\ pc # "held" => Len(batch) < BatchSize
  /\ pc = "held" => stored \in Messages /\ Len(rest) < Len(Topic[stored])
  /\ pc = "poll" /\ limit # NoLimit => given < limit

\* What is in the batch has been read, and is not read again by this run.
BatchIsRead == InBatch \subseteq UpTo(stored) /\ InBatch \cap InRest = {}

\* What is still to be sent or read has been sent only by runs broken unclosed.
Ahead == Spans \ UpTo(IF pc = "idle" THEN committed ELSE stored)
AheadNotCounted ==
  /\ \A s \in InBatch \cup InRest \cup Ahead : copies[s] <= unclosed
  /\ \A s \in Spans : copies[s] <= 1 + unclosed

\* What this run has read is accepted or in hand, though its offset may be committed
\* any time.
ReadAccountedFor ==
  pc # "idle" =>
    \A s \in Passed(stored) : s \in Passed(committed) \/ copies[s] > 0 \/ s \in InHand

IInv ==
  /\ TypeOK
  /\ IdleHoldsNothing /\ OnlyDryRunsPrint /\ TailIsClosed /\ RoomAhead /\ BatchIsRead
  /\ AheadNotCounted /\ ReadAccountedFor
-----------------------------------------------------------------------------
(* Messages and their spans. *)

LEMMA TopicFacts ==
  /\ Len(Topic) \in Nat \ {0} /\ Messages = 1..Len(Topic)
  /\ \A m \in Messages : /\ Topic[m] \in Seq(Spans) /\ Len(Topic[m]) \in Nat
                         /\ DOMAIN Topic[m] = 1..Len(Topic[m])
                         /\ SpansOf(m) = SetOf(Topic[m]) /\ SpansOf(m) \subseteq Spans
<1>1. Topic \in Seq(Seq(Spans)) /\ Topic # <<>>
  BY OffsetsAssumption
<1>2. Len(Topic) \in Nat \ {0} /\ DOMAIN Topic = 1..Len(Topic)
  BY <1>1, LenProperties, EmptySeq
<1>3. \A m \in 1..Len(Topic) : Topic[m] \in Seq(Spans)
  BY <1>1, ElementOfSeq
<1>4. \A q \in Seq(Spans) : Len(q) \in Nat /\ DOMAIN q = 1..Len(q)
  BY LenProperties
<1>5. \A m \in Messages : SpansOf(m) = SetOf(Topic[m]) /\ SpansOf(m) \subseteq Spans
  BY DEF SpansOf, SetOf, Spans
<1> QED
  BY <1>2, <1>3, <1>4, <1>5 DEF Messages

\* The messages from the first to one and to the next.
LEMMA UpToFacts ==
  ASSUME NEW n \in 0..Len(Topic)
  PROVE  /\ UpTo(n) \subseteq Spans /\ UpTo(0) = {}
         /\ n > 0 => SpansOf(n) \subseteq UpTo(n)
         /\ \A k \in 0..n : UpTo(k) \subseteq UpTo(n)
         /\ n < Len(Topic) => /\ UpTo(n + 1) = UpTo(n) \cup SpansOf(n + 1)
                              /\ SpansOf(n + 1) \cap UpTo(n) = {}
         /\ Passed(n) = {s \in UpTo(n) : KindOf[s] = "span"}
<1> USE TopicFacts
<1>1. UpTo(n) \subseteq Spans /\ UpTo(0) = {}
  BY DEF UpTo
<1>2. n > 0 => SpansOf(n) \subseteq UpTo(n)
  BY DEF UpTo
<1>3. \A k \in 0..n : UpTo(k) \subseteq UpTo(n)
  BY DEF UpTo
<1>4. ASSUME n < Len(Topic)
      PROVE  UpTo(n + 1) = UpTo(n) \cup SpansOf(n + 1) /\ SpansOf(n + 1) \cap UpTo(n) = {}
  <2>1. 1..(n + 1) = 1..n \cup {n + 1} /\ n + 1 \notin 1..n /\ 1..(n + 1) \subseteq Messages
    BY <1>4
  <2>2. UpTo(n + 1) = UpTo(n) \cup SpansOf(n + 1)
    BY <2>1 DEF UpTo
  <2>3. \A m \in 1..n : SpansOf(n + 1) \cap SpansOf(m) = {}
    BY <2>1, OffsetsAssumption
  <2> QED
    BY <2>2, <2>3 DEF UpTo
<1>5. Passed(n) = {s \in UpTo(n) : KindOf[s] = "span"}
  BY DEF Passed, UpTo
<1> QED
  BY <1>1, <1>2, <1>3, <1>4, <1>5

\* What is left of a message, and what is left when its next span is taken.
LEMMA LeftOfMessage ==
  ASSUME NEW t \in Seq(Spans), NEW i \in 1..Len(t), NEW q, q = SubSeq(t, i, Len(t))
  PROVE  /\ q \in Seq(Spans) /\ Len(q) = Len(t) - i + 1
         /\ SetOf(q) = {t[k] : k \in i..Len(t)} /\ Head(q) = t[i]
         /\ Tail(q) = IF i = Len(t) THEN <<>> ELSE SubSeq(t, i + 1, Len(t))
<1>1. Len(t) \in Nat /\ i \in 1..Len(t) /\ Len(t) \in i..Len(t)
  BY LenProperties
<1>2. \A k \in i..Len(t) : t[k] \in Spans
  BY <1>1, ElementOfSeq
<1>3. /\ SubSeq(t, i, Len(t)) \in Seq(Spans)
      /\ Len(SubSeq(t, i, Len(t))) = IF i <= Len(t) THEN Len(t) - i + 1 ELSE 0
      /\ \A k \in 1..Len(t) - i + 1 : SubSeq(t, i, Len(t))[k] = t[i + k - 1]
  BY <1>1, <1>2, SubSeqProperties
<1>4. /\ Head(SubSeq(t, i, Len(t))) = t[i]
      /\ Tail(SubSeq(t, i, Len(t))) = SubSeq(t, i + 1, Len(t))
  BY <1>1, HeadTailOfSubSeq
<1>5. i = Len(t) => SubSeq(t, i + 1, Len(t)) = <<>>
  BY <1>1, SubSeqEmpty
<1>6. q = SubSeq(t, i, Len(t))
  OBVIOUS
<1>7. /\ q \in Seq(Spans) /\ Len(q) = Len(t) - i + 1
      /\ \A k \in 1..Len(t) - i + 1 : q[k] = t[i + k - 1]
  BY <1>1, <1>3, <1>6
<1>8. DOMAIN q = 1..Len(t) - i + 1
  BY <1>7, LenProperties
<1>9. SetOf(q) = {t[k] : k \in i..Len(t)}
  <2> DEFINE n == Len(t)
  <2>1. n \in Nat /\ i \in 1..n /\ DOMAIN q = 1..n - i + 1
    BY <1>1, <1>8
  <2>2. \A k \in 1..n - i + 1 : q[k] = t[i + k - 1]
    BY <1>7
  <2> HIDE DEF n
  <2>3. \A k \in i..n : k - i + 1 \in DOMAIN q /\ q[k - i + 1] = t[k]
    <3> SUFFICES ASSUME NEW k \in i..n
                 PROVE  k - i + 1 \in DOMAIN q /\ q[k - i + 1] = t[k]
      OBVIOUS
    <3>1. k - i + 1 \in 1..n - i + 1 /\ i + (k - i + 1) - 1 = k
      BY <2>1
    <3>2. q[k - i + 1] = t[i + (k - i + 1) - 1]
      BY <2>2, <3>1
    <3> QED
      BY <2>1, <3>1, <3>2
  <2>4. \A k \in DOMAIN q : i + k - 1 \in i..n /\ q[k] = t[i + k - 1]
    <3> SUFFICES ASSUME NEW k \in 1..n - i + 1
                 PROVE  i + k - 1 \in i..n /\ q[k] = t[i + k - 1]
      BY <2>1
    <3>1. i + k - 1 \in i..n
      BY <2>1
    <3> QED
      BY <2>2, <3>1
  <2>5. \A e \in SetOf(q) : \E k \in i..n : e = t[k]
    BY <2>4 DEF SetOf
  <2>6. \A k \in i..n : t[k] \in SetOf(q)
    BY <2>3 DEF SetOf
  <2>7. SetOf(q) = {t[k] : k \in i..n}
    BY <2>5, <2>6
  <2> QED
    BY <2>7 DEF n
<1>10. /\ Head(q) = t[i]
       /\ Tail(q) = IF i = Len(t) THEN <<>> ELSE SubSeq(t, i + 1, Len(t))
  BY <1>4, <1>5, <1>6
<1> QED
  BY <1>7, <1>9, <1>10

LEMMA SetOfFacts ==
  /\ SetOf(<<>>) = {}
  /\ \A q \in Seq(Spans) : /\ SetOf(q) \subseteq Spans /\ Len(q) \in Nat
                           /\ q # <<>> <=> Len(q) > 0
                           /\ IsFiniteSet(SetOf(q)) /\ Cardinality(SetOf(q)) \in 0..Len(q)
  /\ \A q \in Seq(Spans), s \in Spans : /\ Append(q, s) \in Seq(Spans)
                                        /\ Len(Append(q, s)) = Len(q) + 1
                                        /\ SetOf(Append(q, s)) = SetOf(q) \cup {s}
<1>1. SetOf(<<>>) = {}
  <2>1. <<>> \in Seq({}) /\ Len(<<>>) = 0
    BY EmptySeq
  <2>2. DOMAIN <<>> = 1..0
    BY <2>1, LenProperties
  <2> QED
    BY <2>2 DEF SetOf
<1>2. ASSUME NEW q \in Seq(Spans)
      PROVE  /\ SetOf(q) \subseteq Spans /\ Len(q) \in Nat
             /\ q # <<>> <=> Len(q) > 0
             /\ IsFiniteSet(SetOf(q)) /\ Cardinality(SetOf(q)) \in 0..Len(q)
  <2>1. Len(q) \in Nat /\ q \in [1..Len(q) -> Spans] /\ DOMAIN q = 1..Len(q)
    BY LenProperties
  <2>2. q # <<>> <=> Len(q) > 0
    BY <2>1, EmptySeq
  <2>3. IsFiniteSet(1..Len(q)) /\ Cardinality(1..Len(q)) = Len(q)
    <3>1. 1 \in Int /\ Len(q) \in Int
      BY <2>1
    <3>2. /\ IsFiniteSet(1..Len(q))
          /\ Cardinality(1..Len(q)) = IF 1 > Len(q) THEN 0 ELSE Len(q) - 1 + 1
      BY <3>1, FS_Interval
    <3> QED
      BY <2>1, <3>2
  <2>4. q \in Surjection(1..Len(q), SetOf(q))
    BY <2>1 DEF Surjection, SetOf
  <2>5. IsFiniteSet(SetOf(q)) /\ Cardinality(SetOf(q)) <= Cardinality(1..Len(q))
    BY <2>3, <2>4, FS_Surjection
  <2>6. Cardinality(SetOf(q)) \in Nat
    BY <2>5, FS_CardinalityType
  <2>7. SetOf(q) \subseteq Spans
    BY <2>1 DEF SetOf
  <2> QED
    BY <2>1, <2>2, <2>3, <2>5, <2>6, <2>7
<1>3. ASSUME NEW q \in Seq(Spans), NEW s \in Spans
      PROVE  /\ Append(q, s) \in Seq(Spans)
             /\ Len(Append(q, s)) = Len(q) + 1
             /\ SetOf(Append(q, s)) = SetOf(q) \cup {s}
  <2> DEFINE a == Append(q, s)
  <2>1. /\ a \in Seq(Spans) /\ Len(a) = Len(q) + 1
        /\ \A i \in 1..Len(q) : a[i] = q[i]
        /\ a[Len(q) + 1] = s
    BY AppendProperties
  <2> HIDE DEF a
  <2>2. Len(q) \in Nat /\ DOMAIN q = 1..Len(q) /\ DOMAIN a = 1..Len(q) \cup {Len(q) + 1}
    BY <2>1, LenProperties
  <2>3. \A e \in SetOf(q) \cup {s} : e \in SetOf(a)
    BY <2>1, <2>2 DEF SetOf
  <2>4. \A e \in SetOf(a) : e \in SetOf(q) \cup {s}
    BY <2>1, <2>2 DEF SetOf
  <2>5. SetOf(a) = SetOf(q) \cup {s}
    BY <2>3, <2>4
  <2> QED
    BY <2>1, <2>5 DEF a
<1> QED
  BY <1>1, <1>2, <1>3

-----------------------------------------------------------------------------
(* The message in hand. *)

RestTypes ==
  rest # <<>> => /\ stored \in Messages
                 /\ \E i \in DOMAIN Topic[stored] :
                      rest = SubSeq(Topic[stored], i, Len(Topic[stored]))

LEMMA RestFacts ==
  ASSUME RestTypes, rest # <<>>
  PROVE  /\ stored \in Messages /\ NextSpan \in Spans
         /\ Len(rest) \in 1..Len(Topic[stored]) /\ Len(Tail(rest)) = Len(rest) - 1
         /\ Tail(rest) # <<>> => \E i \in DOMAIN Topic[stored] :
                                   Tail(rest) = SubSeq(Topic[stored], i, Len(Topic[stored]))
         /\ rest \in Seq(Spans) /\ Tail(rest) \in Seq(Spans)
         /\ InRest = {NextSpan} \cup SetOf(Tail(rest)) /\ NextSpan \notin SetOf(Tail(rest))
         /\ InRest \subseteq SpansOf(stored)
<1>0. PICK t : t = Topic[stored]
  OBVIOUS
<1>1. PICK i \in DOMAIN t : rest = SubSeq(t, i, Len(t))
  BY <1>0 DEF RestTypes
<1>2. stored \in Messages
  BY DEF RestTypes
<1>3. /\ Len(t) \in Nat /\ DOMAIN t = 1..Len(t) /\ i \in 1..Len(t)
      /\ t \in Seq(Spans) /\ SpansOf(stored) = SetOf(t) /\ SpansOf(stored) \subseteq Spans
      /\ \A j, k \in 1..Len(t) : t[j] = t[k] => j = k
  BY <1>0, <1>1, <1>2, TopicFacts, OffsetsAssumption
<1>4. /\ rest \in Seq(Spans) /\ Len(rest) = Len(t) - i + 1
      /\ InRest = {t[k] : k \in i..Len(t)} /\ NextSpan = t[i]
      /\ Tail(rest) = IF i = Len(t) THEN <<>> ELSE SubSeq(t, i + 1, Len(t))
  <2>1. /\ rest \in Seq(Spans) /\ Len(rest) = Len(t) - i + 1
        /\ SetOf(rest) = {t[k] : k \in i..Len(t)} /\ Head(rest) = t[i]
        /\ Tail(rest) = IF i = Len(t) THEN <<>> ELSE SubSeq(t, i + 1, Len(t))
    BY <1>1, <1>3, LeftOfMessage
  <2> QED
    BY <2>1 DEF InRest, NextSpan
<1>5. /\ Tail(rest) \in Seq(Spans) /\ Len(Tail(rest)) = Len(rest) - 1
      /\ SetOf(Tail(rest)) = {t[k] : k \in i + 1..Len(t)}
  <2>1. CASE i = Len(t)
    <3>1. Tail(rest) = <<>> /\ Len(rest) = 1
      BY <1>3, <1>4, <2>1
    <3>2. <<>> \in Seq(Spans) /\ Len(<<>>) = 0
      BY EmptySeq
    <3>3. i + 1..Len(t) = {}
      BY <1>3, <2>1
    <3>4. {t[k] : k \in i + 1..Len(t)} = {}
      BY <3>3
    <3>5. SetOf(<<>>) = {}
      BY SetOfFacts
    <3>6. SetOf(Tail(rest)) = {t[k] : k \in i + 1..Len(t)}
      BY <3>1, <3>4, <3>5
    <3>7. Tail(rest) \in Seq(Spans) /\ Len(Tail(rest)) = 0
      BY <3>1, <3>2, Zenon
    <3> QED
      BY <3>1, <3>6, <3>7
  <2>2. CASE i # Len(t)
    <3>1. i + 1 \in 1..Len(t) /\ Tail(rest) = SubSeq(t, i + 1, Len(t))
      BY <1>3, <1>4, <2>2
    <3>2. /\ Tail(rest) \in Seq(Spans) /\ Len(Tail(rest)) = Len(t) - (i + 1) + 1
          /\ SetOf(Tail(rest)) = {t[k] : k \in i + 1..Len(t)}
      BY <1>3, <3>1, LeftOfMessage
    <3> QED
      BY <1>3, <1>4, <3>2
  <2> QED
    BY <2>1, <2>2
<1>6. Tail(rest) # <<>> => \E j \in DOMAIN t : Tail(rest) = SubSeq(t, j, Len(t))
  <2>1. Tail(rest) # <<>> => i + 1 \in DOMAIN t
    BY <1>3, <1>4
  <2> QED
    BY <1>4, <2>1
<1>7. InRest \subseteq SpansOf(stored) /\ NextSpan \in Spans
  <2>1. \A k \in 1..Len(t) : t[k] \in SpansOf(stored)
    BY <1>3 DEF SetOf
  <2> QED
    BY <1>3, <1>4, <2>1
<1>8. i..Len(t) = {i} \cup (i + 1..Len(t)) /\ i \notin i + 1..Len(t)
  BY <1>3
<1>9. InRest = {NextSpan} \cup SetOf(Tail(rest))
  BY <1>4, <1>5, <1>8
<1>10. NextSpan \notin SetOf(Tail(rest))
  <2>1. \A k \in i + 1..Len(t) : t[k] # t[i]
    BY <1>3
  <2> QED
    BY <1>4, <1>5, <2>1
<1>11. Len(rest) \in 1..Len(t)
  BY <1>3, <1>4
<1> QED
  BY <1>2, <1>4, <1>5, <1>6, <1>7, <1>9, <1>10, <1>11, <1>0

\* A message that is begun.
LEMMA NewMessage ==
  ASSUME NEW m \in Messages
  PROVE  /\ Topic[m] # <<>> => 1 \in DOMAIN Topic[m]
         /\ Topic[m] = SubSeq(Topic[m], 1, Len(Topic[m]))
         /\ SetOf(Topic[m]) = SpansOf(m)
<1>1. Topic[m] \in Seq(Spans) /\ DOMAIN Topic[m] = 1..Len(Topic[m]) /\ SetOf(Topic[m]) = SpansOf(m)
  BY TopicFacts
<1> QED
  BY <1>1, SubSeqFull, SetOfFacts

-----------------------------------------------------------------------------
(* Types, in parts. *)

ScalarTypes ==
  /\ limit \in Limits /\ pc \in {"idle", "poll", "held", "tail"} /\ dry \in BOOLEAN
  /\ published \in 0..Len(Topic) /\ committed \in 0..published
  /\ pc # "idle" => stored \in committed..published
  /\ consumed \in 0..MaxMessages
  /\ given \in Nat /\ (limit # NoLimit => given <= limit)
  /\ lastPos \in Nat /\ ckpt \in Nat /\ faults \in Nat /\ dryRuns \in Nat /\ unclosed \in Nat

BatchTypes == batch \in Seq(Spans) /\ Len(batch) <= BatchSize /\ printed \subseteq Spans

CopiesTypes == copies \in [Spans -> Nat]

LEMMA TypeParts == TypeOK <=> ScalarTypes /\ RestTypes /\ BatchTypes /\ CopiesTypes
  BY DEF TypeOK, ScalarTypes, RestTypes, BatchTypes, CopiesTypes

LEMMA BoundFacts ==
  /\ BatchSize \in Nat \ {0} /\ MaxMessages \in Nat \ {0} /\ Limits \subseteq Nat
  /\ NoLimit = 0
  BY OffsetsAssumption DEF NoLimit

\* The runs that end before they are through, and the others.
Ends == \/ PollUnreadable \/ PollError \/ RaiseOnSpan
        \/ (\E arrived \in BOOLEAN : UploadFails(arrived)) \/ Kill \/ EndRun

\* However a run ends, the group stands at what its consumer has read, or the run is
\* counted as unclosed.
LEMMA Endings ==
  ASSUME IInv, Ends
  PROVE  /\ pc # "idle" /\ GiveUp(committed') /\ committed' \in committed..published
         /\ UNCHANGED <<limit, published, ckpt, dryRuns>> /\ faults' \in {faults, faults + 1}
         /\ copies' = copies \/ copies' = Accepted
         /\ \/ stored <= committed' /\ unclosed' = unclosed
            \/ unclosed' = unclosed + 1
<1>1. /\ ScalarTypes /\ published \in Nat /\ committed \in Nat
      /\ pc # "idle" => stored \in Nat /\ committed <= stored /\ stored <= published
  BY TopicFacts, TypeParts DEF IInv, ScalarTypes
<1>2. CASE PollUnreadable \/ PollError \/ RaiseOnSpan
  <2>1. pc = "poll" /\ UNCHANGED <<limit, published, ckpt, copies, dryRuns, unclosed>>
    BY <1>2 DEF PollUnreadable, PollError, RaiseOnSpan, counts
  <2>2. \/ GiveUp(stored)
        \/ GiveUp(stored + 1) /\ stored < published
    BY <1>2 DEF PollUnreadable, PollError, RaiseOnSpan
  <2>3. faults' \in {faults, faults + 1}
    BY <1>2 DEF PollUnreadable, PollError, RaiseOnSpan, counts
  <2> QED
    BY <1>1, <2>1, <2>2, <2>3 DEF GiveUp
<1>3. CASE (\E arrived \in BOOLEAN : UploadFails(arrived)) \/ Kill
  <2>1. \E offset \in {committed, stored} : Break(offset)
    BY <1>3 DEF UploadFails, Kill
  <2>2. pc # "idle"
    BY <1>3 DEF UploadFails, Kill, Sending
  <2>3. copies' = copies \/ copies' = Accepted
    BY <1>3 DEF UploadFails, Kill
  <2> QED
    BY <1>1, <2>1, <2>2, <2>3 DEF Break, GiveUp
<1>4. CASE EndRun
  <2>1. pc = "tail" /\ GiveUp(committed) /\ UNCHANGED <<limit, published, ckpt, copies, counts>>
    BY <1>4 DEF EndRun
  <2>2. committed = stored
    BY <2>1 DEF IInv, TailIsClosed
  <2> QED
    BY <1>1, <2>1, <2>2 DEF GiveUp, counts
<1> QED
  BY <1>2, <1>3, <1>4 DEF Ends

LEMMA ScalarTypesStep == IInv /\ [Next]_vars => ScalarTypes'
<1> SUFFICES ASSUME IInv, [Next]_vars
             PROVE  ScalarTypes'
  OBVIOUS
<1>0. /\ ScalarTypes /\ IdleHoldsNothing /\ RoomAhead /\ Len(Topic) \in Nat
      /\ BatchSize \in Nat \ {0} /\ MaxMessages \in Nat \ {0} /\ limit \in Nat /\ NoLimit = 0
  BY TopicFacts, TypeParts, BoundFacts DEF IInv, ScalarTypes
<1> USE <1>0 DEF ScalarTypes
<1>1. CASE Publish
  BY <1>1 DEF Publish, consumer, run, counts
<1>2. ASSUME NEW isDry \in BOOLEAN, StartRun(isDry)
      PROVE  ScalarTypes'
  BY <1>2 DEF StartRun, IdleHoldsNothing
<1>3. CASE AutoCommit \/ Stop \/ CutByLimit
  <2>1. /\ committed' = stored /\ stored \in committed..published /\ committed \in Nat
        /\ published \in Nat
    BY <1>3 DEF AutoCommit, Stop, CutByLimit
  <2>2. /\ pc' \in {pc, "tail"} /\ pc # "idle" /\ ckpt' \in Nat
        /\ UNCHANGED <<limit, published, stored, consumed, run, dryRuns, faults, unclosed>>
    BY <1>3 DEF AutoCommit, Stop, CutByLimit, consumer, run, counts
  <2> QED
    BY <2>1, <2>2 DEF run
<1>4. CASE PollMessage
  BY <1>4 DEF PollMessage, run, counts
<1>5. CASE Skip \/ Resume \/ UploadOk \/ UNCHANGED vars
  BY <1>5 DEF Skip, Resume, UploadOk, vars, consumer, run, counts
<1>6. CASE Yield
  <2>1. rest # <<>> /\ RestTypes
    BY <1>6, TypeParts DEF Yield, IInv
  <2>2. TimeOf[NextSpan] \in Nat
    BY <2>1, RestFacts, OffsetsAssumption
  <2> QED
    BY <1>6, <2>2 DEF Yield, RoomAhead, counts
<1>7. CASE Ends
  BY <1>7, Endings DEF GiveUp
<1> QED
  BY <1>1, <1>2, <1>3, <1>4, <1>5, <1>6, <1>7 DEF Next, Ends

-----------------------------------------------------------------------------
(* The run. *)

RunInv ==
  /\ RestTypes /\ BatchTypes /\ CopiesTypes
  /\ IdleHoldsNothing /\ OnlyDryRunsPrint /\ TailIsClosed /\ RoomAhead /\ BatchIsRead
  /\ AheadNotCounted /\ ReadAccountedFor

LEMMA InvParts == IInv <=> ScalarTypes /\ RunInv
  BY TypeParts DEF IInv, RunInv

LEMMA HandFacts == InBatch = SetOf(batch) /\ InHand = InBatch \cup printed \cup InRest
  BY DEF InBatch, InHand, InRest, SetOf

LEMMA OffsetFacts ==
  ASSUME ScalarTypes
  PROVE  /\ committed \in 0..Len(Topic) /\ published \in 0..Len(Topic)
         /\ pc # "idle" => stored \in 0..Len(Topic) /\ committed <= stored
         /\ given \in Nat /\ unclosed \in Nat /\ limit \in Nat /\ NoLimit = 0
         /\ BatchSize \in Nat \ {0}
  BY TopicFacts, BoundFacts DEF ScalarTypes

LEMMA NothingInHand ==
  ASSUME rest = <<>>, batch = <<>>
  PROVE  InRest = {} /\ InBatch = {} /\ Len(batch) = 0 /\ batch \in Seq(Spans)
  BY SetOfFacts, HandFacts, EmptySeq DEF InRest

LEMMA InitHolds == Init => IInv
<1> SUFFICES ASSUME Init
             PROVE  IInv
  OBVIOUS
<1>1. ScalarTypes
  <2>1. Len(Topic) \in Nat /\ MaxMessages \in Nat /\ limit \in Nat
    BY TopicFacts, BoundFacts DEF Init
  <2>2. published = 0 /\ committed = 0 /\ 0 \in 0..Len(Topic) /\ 0 \in 0..0 /\ 0 \in 0..MaxMessages
    BY <2>1 DEF Init
  <2>3. limit \in Limits /\ pc = "idle" /\ dry \in BOOLEAN
    BY DEF Init
  <2>4. /\ consumed = 0 /\ given = 0 /\ lastPos = 0 /\ ckpt = 0 /\ faults = 0 /\ dryRuns = 0
        /\ unclosed = 0
    BY DEF Init
  <2> QED
    BY <2>1, <2>2, <2>3, <2>4 DEF ScalarTypes
<1>2. RestTypes /\ BatchTypes /\ CopiesTypes
  BY NothingInHand, BoundFacts DEF Init, RestTypes, BatchTypes, CopiesTypes
<1>3. IdleHoldsNothing /\ OnlyDryRunsPrint /\ TailIsClosed
  BY DEF Init, IdleHoldsNothing, OnlyDryRunsPrint, TailIsClosed
<1>4. RoomAhead /\ BatchIsRead /\ ReadAccountedFor
  BY NothingInHand, BoundFacts DEF Init, RoomAhead, BatchIsRead, ReadAccountedFor
<1>5. AheadNotCounted
  BY NothingInHand DEF Init, AheadNotCounted, Ahead
<1> QED
  BY <1>1, <1>2, <1>3, <1>4, <1>5, InvParts DEF RunInv

LEMMA StillKeeps ==
  ASSUME IInv, UNCHANGED <<limit, committed, consumer, run, copies, unclosed>>,
         \/ pc' = pc
         \/ pc = "held" /\ pc' = "poll" /\ ~FullBatch /\ ~LimitReached
  PROVE  RunInv'
<1>1. /\ UNCHANGED <<limit, committed, stored, consumed, rest, dry, batch, given, printed,
                     copies, unclosed>>
      /\ UNCHANGED <<InBatch, InRest, InHand>>
  BY DEF consumer, run, InBatch, InRest, InHand, SetOf
<1>2. RunInv
  BY InvParts
<1>3. (RestTypes /\ BatchTypes /\ CopiesTypes)'
  BY <1>1, <1>2 DEF RunInv, RestTypes, BatchTypes, CopiesTypes
<1>4. (IdleHoldsNothing /\ OnlyDryRunsPrint /\ TailIsClosed /\ BatchIsRead)'
  BY <1>1, <1>2 DEF RunInv, IdleHoldsNothing, OnlyDryRunsPrint, TailIsClosed, BatchIsRead
<1>5. RoomAhead'
  <2>1. CASE pc' = pc
    BY <1>1, <1>2, <2>1 DEF RunInv, RoomAhead
  <2>2. CASE pc = "held" /\ pc' = "poll" /\ ~FullBatch /\ ~LimitReached
    <3>1. limit # NoLimit => given <= limit /\ given # limit
      BY <2>2, InvParts DEF ScalarTypes, LimitReached
    <3>2. Len(batch) < BatchSize
      BY <1>2, <2>2, OffsetFacts, InvParts, SetOfFacts DEF FullBatch, RunInv, BatchTypes
    <3> QED
      BY <1>1, <2>2, <3>1, <3>2, OffsetFacts, InvParts DEF RoomAhead
  <2> QED
    BY <2>1, <2>2
<1>6. AheadNotCounted'
  BY <1>1, <1>2 DEF RunInv, AheadNotCounted, Ahead
<1>7. ReadAccountedFor'
  BY <1>1, <1>2 DEF RunInv, ReadAccountedFor
<1> QED
  BY <1>3, <1>4, <1>5, <1>6, <1>7 DEF RunInv

LEMMA StartRunKeeps ==
  ASSUME IInv, NEW isDry \in BOOLEAN, StartRun(isDry)
  PROVE  RunInv'
<1>1. /\ pc = "idle" /\ pc' = "poll" /\ stored' = committed /\ dry' = isDry
      /\ UNCHANGED <<limit, committed, consumed, rest, batch, given, printed, copies, unclosed>>
      /\ UNCHANGED <<InBatch, InRest, InHand>>
  BY DEF StartRun, InBatch, InRest, InHand, SetOf
<1>2. RunInv /\ rest = <<>> /\ batch = <<>> /\ given = 0 /\ printed = {}
  BY <1>1, InvParts DEF RunInv, IdleHoldsNothing, OnlyDryRunsPrint
<1>3. /\ NoLimit = 0 /\ limit \in Nat /\ BatchSize \in Nat \ {0}
      /\ InRest = {} /\ InBatch = {} /\ Len(batch) = 0
  BY <1>2, NothingInHand, OffsetFacts, InvParts
<1>4. (RestTypes /\ BatchTypes /\ CopiesTypes)'
  BY <1>1, <1>2 DEF RunInv, RestTypes, BatchTypes, CopiesTypes
<1>5. (IdleHoldsNothing /\ OnlyDryRunsPrint /\ TailIsClosed /\ RoomAhead /\ BatchIsRead)'
  BY <1>1, <1>2, <1>3
     DEF IdleHoldsNothing, OnlyDryRunsPrint, TailIsClosed, RoomAhead, BatchIsRead
<1>6. AheadNotCounted'
  BY <1>1, <1>2 DEF RunInv, AheadNotCounted, Ahead
<1>7. ReadAccountedFor'
  BY <1>1 DEF ReadAccountedFor
<1> QED
  BY <1>4, <1>5, <1>6, <1>7 DEF RunInv

\* The offset of what has been read is committed.
LEMMA CommitKeeps ==
  ASSUME IInv, AutoCommit \/ Stop \/ CutByLimit
  PROVE  RunInv'
<1>1. /\ pc # "idle" /\ committed' = stored
      /\ UNCHANGED <<limit, stored, consumed, dry, batch, given, printed, copies, unclosed>>
      /\ UNCHANGED InBatch
      /\ \/ pc' = pc /\ rest' = rest
         \/ pc' = "tail" /\ rest' = <<>> /\ (pc = "poll" \/ (pc = "held" /\ ~FullBatch))
  <2>1. /\ pc # "idle" /\ committed' = stored
        /\ UNCHANGED <<limit, stored, consumed, dry, batch, given, printed, copies, unclosed>>
    BY DEF AutoCommit, Stop, CutByLimit, consumer, run, counts
  <2>2. UNCHANGED InBatch
    BY <2>1 DEF InBatch
  <2>3. \/ pc' = pc /\ rest' = rest
        \/ pc' = "tail" /\ rest' = <<>> /\ (pc = "poll" \/ (pc = "held" /\ ~FullBatch))
    BY DEF AutoCommit, Stop, CutByLimit, consumer
  <2> QED
    BY <2>1, <2>2, <2>3
<1>2. RunInv /\ stored \in Nat /\ committed \in Nat
  BY <1>1, InvParts, OffsetFacts
<1>3. (rest' = rest /\ InRest' = InRest) \/ (rest' = <<>> /\ InRest' = {})
  <2>1. rest' = rest => InRest' = InRest
    BY DEF InRest, SetOf
  <2>2. rest' = <<>> => InRest' = {}
    BY SetOfFacts DEF InRest
  <2> QED
    BY <1>1, <2>1, <2>2
<1>4. (RestTypes /\ BatchTypes /\ CopiesTypes)'
  BY <1>1, <1>2 DEF RunInv, RestTypes, BatchTypes, CopiesTypes
<1>5. (IdleHoldsNothing /\ OnlyDryRunsPrint /\ TailIsClosed)'
  BY <1>1, <1>2 DEF RunInv, IdleHoldsNothing, OnlyDryRunsPrint, TailIsClosed
<1>6. RoomAhead'
  <2>1. pc = "held" /\ ~FullBatch => Len(batch) < BatchSize
    BY <1>2, OffsetFacts, InvParts, SetOfFacts DEF FullBatch, RunInv, BatchTypes
  <2> QED
    BY <1>1, <1>2, <2>1 DEF RunInv, RoomAhead
<1>7. BatchIsRead' /\ AheadNotCounted'
  BY <1>1, <1>2, <1>3 DEF RunInv, BatchIsRead, AheadNotCounted, Ahead
<1>8. ReadAccountedFor'
  BY <1>1 DEF ReadAccountedFor
<1> QED
  BY <1>4, <1>5, <1>6, <1>7, <1>8 DEF RunInv

LEMMA PollMessageKeeps ==
  ASSUME IInv, PollMessage
  PROVE  RunInv'
<1>1. /\ pc = "poll" /\ pc' = "poll" /\ rest = <<>> /\ stored < published
      /\ stored' = stored + 1 /\ rest' = Topic[stored + 1]
      /\ UNCHANGED <<limit, committed, dry, batch, given, printed, copies, unclosed>>
  BY DEF PollMessage, run, counts
<1>2. UNCHANGED InBatch
  BY <1>1 DEF InBatch
<1>3. RunInv
  BY InvParts
<1>4. /\ stored \in 0..Len(Topic) /\ stored < Len(Topic) /\ stored + 1 \in Messages
  BY <1>1, InvParts, OffsetFacts, TopicFacts DEF ScalarTypes
<1>5. /\ UpTo(stored') = UpTo(stored) \cup SpansOf(stored + 1)
      /\ SpansOf(stored + 1) \cap UpTo(stored) = {} /\ SpansOf(stored + 1) \subseteq Spans
  BY <1>1, <1>4, UpToFacts, TopicFacts
<1>6. InRest' = SpansOf(stored + 1)
  BY <1>1, <1>4, TopicFacts DEF InRest
<1>7. InRest = {}
  BY <1>1, SetOfFacts DEF InRest
<1>8. RestTypes'
  BY <1>1, <1>4, NewMessage DEF RestTypes
<1>9. (BatchTypes /\ CopiesTypes /\ IdleHoldsNothing /\ OnlyDryRunsPrint /\ TailIsClosed)'
  BY <1>1, <1>3 DEF RunInv, BatchTypes, CopiesTypes, IdleHoldsNothing, OnlyDryRunsPrint,
                    TailIsClosed
<1>10. RoomAhead' /\ BatchIsRead'
  BY <1>1, <1>2, <1>3, <1>5, <1>6 DEF RunInv, RoomAhead, BatchIsRead
<1>11. AheadNotCounted'
  <2>1. \A s \in (InBatch \cup InRest \cup Ahead)' : s \in InBatch \cup Ahead
    BY <1>1, <1>2, <1>5, <1>6 DEF Ahead
  <2> QED
    BY <1>1, <1>3, <2>1 DEF RunInv, AheadNotCounted
<1>12. ReadAccountedFor'
  <2>1. \A s \in Passed(stored') : s \in Passed(stored) \/ s \in InRest'
    <3>1. stored \in 0..Len(Topic) /\ stored' \in 0..Len(Topic)
      BY <1>1, <1>4, TopicFacts
    <3> QED
      BY <1>5, <1>6, <3>1, UpToFacts
  <2>2. InHand' = InBatch \cup printed \cup InRest'
    BY <1>1, <1>2 DEF InHand, InRest, SetOf
  <2>3. InHand = InBatch \cup printed
    BY <1>7, HandFacts
  <2> QED
    BY <1>1, <1>3, <2>1, <2>2, <2>3 DEF RunInv, ReadAccountedFor
<1> QED
  BY <1>8, <1>9, <1>10, <1>11, <1>12 DEF RunInv

\* The next span of the message in hand is taken.
LEMMA Takes ==
  ASSUME IInv, rest # <<>>, rest' = Tail(rest), stored' = stored
  PROVE  /\ RestTypes' /\ Len(rest') < Len(Topic[stored]) /\ stored \in Messages
         /\ NextSpan \in Spans /\ InRest = {NextSpan} \cup InRest' /\ NextSpan \notin InRest'
         /\ NextSpan \in UpTo(stored)
<1>1. RestTypes
  BY InvParts DEF RunInv
<1>2. /\ stored \in Messages /\ NextSpan \in Spans
      /\ Len(rest) \in 1..Len(Topic[stored]) /\ Len(Tail(rest)) = Len(rest) - 1
      /\ Tail(rest) # <<>> => \E i \in DOMAIN Topic[stored] :
                                Tail(rest) = SubSeq(Topic[stored], i, Len(Topic[stored]))
      /\ InRest = {NextSpan} \cup SetOf(Tail(rest)) /\ NextSpan \notin SetOf(Tail(rest))
      /\ InRest \subseteq SpansOf(stored)
  BY <1>1, RestFacts
<1>3. InRest' = SetOf(Tail(rest))
  BY DEF InRest
<1>4. stored \in 1..Len(Topic) /\ Len(Topic[stored]) \in Nat /\ SpansOf(stored) \subseteq UpTo(stored)
  BY <1>2, TopicFacts, UpToFacts
<1>5. RestTypes'
  BY <1>2 DEF RestTypes
<1>6. Len(rest') < Len(Topic[stored])
  BY <1>2, <1>4
<1> QED
  BY <1>2, <1>3, <1>4, <1>5, <1>6

LEMMA SkipKeeps ==
  ASSUME IInv, Skip
  PROVE  RunInv'
<1>1. /\ pc = "poll" /\ pc' = "poll" /\ rest # <<>> /\ rest' = Tail(rest)
      /\ KindOf[NextSpan] = "nobody"
      /\ UNCHANGED <<limit, committed, stored, dry, batch, given, printed, copies, unclosed>>
  BY DEF Skip, PassedByPoll, run, counts
<1>2. UNCHANGED InBatch
  BY <1>1 DEF InBatch
<1>3. RunInv
  BY InvParts
<1>4. RestTypes' /\ InRest = {NextSpan} \cup InRest'
  BY <1>1, Takes
<1>5. (BatchTypes /\ CopiesTypes /\ IdleHoldsNothing /\ OnlyDryRunsPrint /\ TailIsClosed)'
  BY <1>1, <1>3 DEF RunInv, BatchTypes, CopiesTypes, IdleHoldsNothing, OnlyDryRunsPrint,
                    TailIsClosed
<1>6. RoomAhead' /\ BatchIsRead' /\ AheadNotCounted'
  BY <1>1, <1>2, <1>3, <1>4 DEF RunInv, RoomAhead, BatchIsRead, AheadNotCounted, Ahead
<1>7. ReadAccountedFor'
  <2>1. InHand' = InBatch \cup printed \cup InRest'
    BY <1>1, <1>2 DEF InHand, InRest, SetOf
  <2>2. InHand = {NextSpan} \cup InHand'
    BY <1>4, <2>1, HandFacts
  <2>3. stored \in 0..Len(Topic)
    BY <1>1, InvParts, OffsetFacts
  <2>4. \A s \in Passed(stored) : s # NextSpan
    BY <1>1, <2>3, UpToFacts
  <2> QED
    BY <1>1, <1>3, <2>2, <2>4 DEF RunInv, ReadAccountedFor
<1> QED
  BY <1>3, <1>4, <1>5, <1>6, <1>7 DEF RunInv

LEMMA YieldFacts ==
  ASSUME IInv, Yield
  PROVE  /\ pc = "poll" /\ pc' = "held" /\ rest # <<>> /\ rest' = Tail(rest)
         /\ batch' = Append(batch, NextSpan) /\ given' = given + 1
         /\ UNCHANGED <<limit, committed, stored, dry, printed, copies, unclosed>>
         /\ batch' \in Seq(Spans) /\ Len(batch') = Len(batch) + 1
         /\ InBatch' = InBatch \cup {NextSpan} /\ InHand' = InHand
<1>1. /\ pc = "poll" /\ pc' = "held" /\ rest # <<>> /\ rest' = Tail(rest)
      /\ batch' = Append(batch, NextSpan) /\ given' = given + 1
      /\ UNCHANGED <<limit, committed, stored, dry, printed, copies, unclosed>>
  BY DEF Yield, counts
<1>2. InRest = {NextSpan} \cup InRest' /\ NextSpan \in Spans /\ batch \in Seq(Spans)
  BY <1>1, Takes, InvParts DEF RunInv, BatchTypes
<1>3. /\ batch' \in Seq(Spans) /\ Len(batch') = Len(batch) + 1
      /\ SetOf(batch') = SetOf(batch) \cup {NextSpan}
  BY <1>1, <1>2, SetOfFacts
<1>4. InBatch' = InBatch \cup {NextSpan}
  BY <1>3 DEF InBatch, SetOf
<1>5. InHand' = InBatch' \cup printed \cup InRest'
  BY <1>1 DEF InHand, InBatch, InRest, SetOf
<1> QED
  BY <1>1, <1>2, <1>3, <1>4, <1>5, HandFacts

LEMMA YieldKeeps ==
  ASSUME IInv, Yield
  PROVE  RunInv'
<1>1. /\ pc = "poll" /\ pc' = "held" /\ rest # <<>> /\ rest' = Tail(rest)
      /\ UNCHANGED <<limit, committed, stored, dry, printed, copies, unclosed>>
      /\ batch' \in Seq(Spans) /\ Len(batch') = Len(batch) + 1
      /\ InBatch' = InBatch \cup {NextSpan} /\ InHand' = InHand
  BY YieldFacts
<1>2. RunInv
  BY InvParts
<1>3. /\ RestTypes' /\ Len(rest') < Len(Topic[stored]) /\ stored \in Messages
      /\ NextSpan \in Spans /\ InRest = {NextSpan} \cup InRest' /\ NextSpan \notin InRest'
      /\ NextSpan \in UpTo(stored)
  BY <1>1, Takes
<1>4. (BatchTypes /\ CopiesTypes)'
  <2>1. Len(batch) < BatchSize /\ batch \in Seq(Spans) /\ BatchSize \in Nat
    BY <1>1, <1>2, BoundFacts DEF RunInv, RoomAhead, BatchTypes
  <2>2. Len(batch') <= BatchSize
    BY <1>1, <2>1, SetOfFacts
  <2> QED
    BY <1>1, <1>2, <2>2 DEF RunInv, BatchTypes, CopiesTypes
<1>5. (IdleHoldsNothing /\ OnlyDryRunsPrint /\ TailIsClosed /\ RoomAhead)'
  BY <1>1, <1>2, <1>3 DEF RunInv, IdleHoldsNothing, OnlyDryRunsPrint, TailIsClosed, RoomAhead
<1>6. BatchIsRead' /\ AheadNotCounted'
  BY <1>1, <1>2, <1>3 DEF RunInv, BatchIsRead, AheadNotCounted, Ahead
<1>7. ReadAccountedFor'
  BY <1>1, <1>2 DEF RunInv, ReadAccountedFor
<1> QED
  BY <1>3, <1>4, <1>5, <1>6, <1>7 DEF RunInv

\* What an accepted batch counts.
LEMMA AcceptedFacts ==
  ASSUME CopiesTypes
  PROVE  /\ Accepted \in [Spans -> Nat]
         /\ \A s \in Spans : /\ copies[s] \in Nat
                             /\ Accepted[s] = IF s \in InBatch THEN copies[s] + 1 ELSE copies[s]
<1>1. \A s \in Spans : copies[s] \in Nat
  BY DEF CopiesTypes
<1> QED
  BY <1>1 DEF Accepted

LEMMA UploadOkFacts ==
  ASSUME IInv, UploadOk
  PROVE  /\ pc # "idle" /\ pc' = pc /\ batch' = <<>> /\ InBatch' = {}
         /\ UNCHANGED <<limit, committed, stored, rest, consumed, dry, given, unclosed>>
         /\ UNCHANGED InRest
         /\ copies' = IF dry THEN copies ELSE Accepted
         /\ printed' = IF dry THEN printed \cup InBatch ELSE printed
         /\ InHand' = printed' \cup InRest
<1>1. /\ pc # "idle" /\ pc' = pc /\ batch' = <<>>
      /\ UNCHANGED <<limit, committed, stored, rest, consumed, dry, given, unclosed>>
      /\ copies' = IF dry THEN copies ELSE Accepted
      /\ printed' = IF dry THEN printed \cup InBatch ELSE printed
  BY DEF UploadOk, Sending, consumer, counts
<1>2. UNCHANGED InRest
  BY <1>1 DEF InRest
<1>3. InBatch' = {}
  <2>1. InBatch' = SetOf(batch')
    BY DEF InBatch, SetOf
  <2>2. SetOf(<<>>) = {}
    BY SetOfFacts
  <2> QED
    BY <1>1, <2>1, <2>2
<1>4. InHand' = InBatch' \cup printed' \cup InRest'
  BY DEF InHand, InBatch, InRest, SetOf
<1> QED
  BY <1>1, <1>2, <1>3, <1>4

LEMMA UploadOkKeeps ==
  ASSUME IInv, UploadOk
  PROVE  RunInv'
<1>1. /\ pc # "idle" /\ pc' = pc /\ batch' = <<>> /\ InBatch' = {}
      /\ UNCHANGED <<limit, committed, stored, rest, consumed, dry, given, unclosed>>
      /\ UNCHANGED InRest
      /\ copies' = copies \/ copies' = Accepted
      /\ (dry /\ printed' = printed \cup InBatch) \/ (~dry /\ printed' = printed)
      /\ InHand' = printed' \cup InRest
  BY UploadOkFacts
<1>2. RunInv /\ CopiesTypes
  BY InvParts DEF RunInv
<1>3. <<>> \in Seq(Spans) /\ Len(<<>>) = 0 /\ BatchSize \in Nat \ {0} /\ InBatch \subseteq Spans
  BY <1>2, EmptySeq, BoundFacts, SetOfFacts, HandFacts DEF RunInv, BatchTypes
<1>4. RestTypes' /\ CopiesTypes'
  BY <1>1, <1>2, AcceptedFacts DEF RunInv, RestTypes, CopiesTypes
<1>5. BatchTypes'
  <2>1. printed' \subseteq Spans
    BY <1>1, <1>2, <1>3 DEF RunInv, BatchTypes
  <2>2. Len(batch') = 0 /\ batch' \in Seq(Spans)
    BY <1>1, <1>3, Zenon
  <2> QED
    BY <1>3, <2>1, <2>2 DEF BatchTypes
<1>6. (IdleHoldsNothing /\ OnlyDryRunsPrint /\ TailIsClosed)'
  BY <1>1, <1>2 DEF RunInv, IdleHoldsNothing, OnlyDryRunsPrint, TailIsClosed
<1>7. RoomAhead'
  <2>1. Len(batch') = 0
    BY <1>1, <1>3, Zenon
  <2> QED
    BY <1>1, <1>2, <1>3, <2>1 DEF RunInv, RoomAhead
<1>8. BatchIsRead'
  BY <1>1, <1>2 DEF RunInv, BatchIsRead
<1>9. AheadNotCounted'
  <2>1. \A s \in Spans : /\ copies[s] \in Nat /\ copies'[s] \in Nat
                         /\ s \notin InBatch => copies'[s] = copies[s]
                         /\ copies'[s] <= copies[s] + 1
    BY <1>1, <1>2, AcceptedFacts
  <2>2. unclosed \in Nat /\ unclosed' = unclosed
    BY <1>1, InvParts, OffsetFacts
  <2>3. \A s \in (InBatch \cup InRest \cup Ahead)' : /\ s \in InRest \cup Ahead /\ s \in Spans
                                                     /\ s \notin InBatch
    <3>1. Ahead' = Ahead /\ Ahead = Spans \ UpTo(stored)
      BY <1>1 DEF Ahead
    <3>2. InRest \subseteq Spans
      <4>1. CASE rest = <<>>
        BY <4>1, SetOfFacts DEF InRest
      <4>2. CASE rest # <<>>
        BY <1>2, <4>2, RestFacts, TopicFacts DEF RunInv
      <4> QED
        BY <4>1, <4>2
    <3> QED
      BY <1>1, <1>2, <3>1, <3>2 DEF RunInv, BatchIsRead
  <2>4. \A s \in InBatch \cup InRest \cup Ahead : copies[s] <= unclosed
    BY <1>2 DEF RunInv, AheadNotCounted
  <2>5. \A s \in Spans : copies[s] <= 1 + unclosed
    BY <1>2 DEF RunInv, AheadNotCounted
  <2>6. \A s \in Spans : copies'[s] <= 1 + unclosed'
    BY <2>1, <2>2, <2>4, <2>5
  <2>7. \A s \in (InBatch \cup InRest \cup Ahead)' : copies'[s] <= unclosed'
    BY <2>1, <2>2, <2>3, <2>4
  <2> QED
    BY <2>6, <2>7 DEF AheadNotCounted
<1>10. ReadAccountedFor'
  <2> SUFFICES ASSUME NEW s \in Passed(stored), s \notin Passed(committed), ~(copies'[s] > 0)
               PROVE  s \in InHand'
    BY <1>1 DEF ReadAccountedFor
  <2>1. s \in Spans
    BY <1>1, InvParts, OffsetFacts, UpToFacts
  <2>2. /\ copies[s] \in Nat /\ copies'[s] \in Nat
        /\ copies' = Accepted /\ s \in InBatch => copies'[s] = copies[s] + 1
        /\ copies'[s] >= copies[s]
    BY <1>1, <1>2, <2>1, AcceptedFacts
  <2>3. copies[s] > 0 \/ s \in InHand
    BY <1>1, <1>2 DEF RunInv, ReadAccountedFor
  <2>4. s \in InBatch \cup printed \cup InRest
    BY <2>2, <2>3, HandFacts
  <2>5. ~dry => copies' = Accepted
    BY UploadOkFacts
  <2> QED
    BY <1>1, <2>2, <2>4, <2>5
<1> QED
  BY <1>4, <1>5, <1>6, <1>7, <1>8, <1>9, <1>10 DEF RunInv

LEMMA EndsKeep ==
  ASSUME IInv, ScalarTypes', Ends
  PROVE  RunInv'
<1>1. /\ pc # "idle" /\ GiveUp(committed') /\ committed' \in committed..published
      /\ limit' = limit
      /\ copies' = copies \/ copies' = Accepted
      /\ \/ stored <= committed' /\ unclosed' = unclosed
         \/ unclosed' = unclosed + 1
  BY Endings
<1>2. /\ pc' = "idle" /\ stored' = 0 /\ consumed' = 0 /\ rest' = <<>> /\ ~dry' /\ batch' = <<>>
      /\ given' = 0 /\ printed' = {}
  BY <1>1 DEF GiveUp
<1>3. (InRest = {} /\ InBatch = {} /\ Len(batch) = 0 /\ batch \in Seq(Spans))'
  <2>1. SetOf(<<>>) = {} /\ <<>> \in Seq(Spans) /\ Len(<<>>) = 0
    BY SetOfFacts, EmptySeq
  <2>2. InBatch' = SetOf(batch') /\ InRest' = SetOf(rest')
    BY DEF InBatch, InRest, SetOf
  <2> QED
    BY <1>2, <2>1, <2>2, Zenon
<1>4. RunInv /\ CopiesTypes /\ BatchSize \in Nat \ {0}
  BY InvParts, BoundFacts DEF RunInv
<1>5. (RestTypes /\ BatchTypes /\ CopiesTypes)'
  BY <1>1, <1>2, <1>3, <1>4, AcceptedFacts DEF RestTypes, BatchTypes, CopiesTypes
<1>6. (IdleHoldsNothing /\ OnlyDryRunsPrint /\ TailIsClosed /\ RoomAhead /\ BatchIsRead)'
  BY <1>2, <1>3, <1>4
     DEF IdleHoldsNothing, OnlyDryRunsPrint, TailIsClosed, RoomAhead, BatchIsRead
<1>7. ReadAccountedFor'
  BY <1>2 DEF ReadAccountedFor
<1>8. AheadNotCounted'
  <2>1. \A s \in Spans : /\ copies[s] \in Nat /\ copies'[s] \in Nat
                         /\ s \notin InBatch => copies'[s] = copies[s]
                         /\ copies'[s] <= copies[s] + 1
    BY <1>1, <1>4, AcceptedFacts
  <2>2. unclosed \in Nat /\ unclosed' \in Nat /\ unclosed <= unclosed'
    <3>1. unclosed \in Nat
      BY InvParts DEF ScalarTypes
    <3> QED
      BY <1>1, <3>1
  <2>3. /\ \A s \in InBatch : copies[s] <= unclosed
        /\ \A s \in Ahead : copies[s] <= unclosed
        /\ \A s \in Spans : copies[s] <= 1 + unclosed
    BY <1>4 DEF RunInv, AheadNotCounted
  <2>4. \A s \in Spans : copies'[s] <= 1 + unclosed
    BY <2>1, <2>2, <2>3
  <2>5. Ahead' = Spans \ UpTo(committed')
    BY <1>2 DEF Ahead
  <2>6. ASSUME stored <= committed', unclosed' = unclosed, NEW s \in Spans \ UpTo(committed')
        PROVE  copies'[s] <= unclosed'
    <3>1. /\ stored \in 0..Len(Topic) /\ committed' \in 0..Len(Topic)
          /\ stored \in 0..committed'
      BY <1>1, <2>6, InvParts, OffsetFacts
    <3>2. UpTo(stored) \subseteq UpTo(committed')
      BY <3>1, UpToFacts
    <3>3. s \in Ahead /\ s \notin InBatch
      BY <1>1, <1>4, <3>2 DEF Ahead, RunInv, BatchIsRead
    <3> QED
      BY <2>1, <2>2, <2>3, <2>6, <3>3
  <2>7. \A s \in Spans \ UpTo(committed') : copies'[s] <= unclosed'
    BY <1>1, <2>1, <2>2, <2>4, <2>6
  <2>8. \A s \in Spans : copies'[s] <= 1 + unclosed'
    BY <2>1, <2>2, <2>4
  <2> QED
    BY <1>3, <2>5, <2>7, <2>8 DEF AheadNotCounted
<1> QED
  BY <1>5, <1>6, <1>7, <1>8 DEF RunInv

LEMMA Invariant == Spec => []IInv
<1>1. IInv /\ [Next]_vars => IInv'
  <2> SUFFICES ASSUME IInv, [Next]_vars
               PROVE  IInv'
    OBVIOUS
  <2>1. ScalarTypes'
    BY ScalarTypesStep
  <2>2. RunInv'
    <3>1. CASE Publish \/ Resume \/ UNCHANGED vars
      BY <3>1, StillKeeps DEF Publish, Resume, vars, counts
    <3>2. ASSUME NEW isDry \in BOOLEAN, StartRun(isDry)
          PROVE  RunInv'
      BY <3>2, StartRunKeeps
    <3>3. CASE AutoCommit \/ Stop \/ CutByLimit
      BY <3>3, CommitKeeps
    <3>4. CASE PollMessage
      BY <3>4, PollMessageKeeps
    <3>5. CASE Skip
      BY <3>5, SkipKeeps
    <3>6. CASE Yield
      BY <3>6, YieldKeeps
    <3>7. CASE UploadOk
      BY <3>7, UploadOkKeeps
    <3>8. CASE Ends
      BY <2>1, <3>8, EndsKeep
    <3> QED
      BY <3>1, <3>2, <3>3, <3>4, <3>5, <3>6, <3>7, <3>8 DEF Next, Ends
  <2>3. TypeOK'
    BY <2>1, <2>2 DEF RunInv, TypeOK, ScalarTypes, RestTypes, BatchTypes, CopiesTypes
  <2> QED
    BY <2>2, <2>3 DEF RunInv, IInv
<1> QED
  BY <1>1, InitHolds, PTL DEF Spec

\* Every variable keeps its type: what is left of the message in hand is the end of the
\* message that poll() has returned last, the group never stands behind the consumer
\* nor before what is published, and --limit lets no more through than it says.
THEOREM TypeCorrect == Spec => []TypeOK
<1>1. IInv => TypeOK
  BY DEF IInv
<1> QED
  BY <1>1, Invariant, PTL

\* The API accepts a span once more only for a run that ended without its consumer
\* being closed, however often spans raise, uploads fail or limits cut a run off.
THEOREM RepeatsAreUnclosedRuns == Spec => []CopiesBounded
<1>1. IInv => CopiesBounded
  BY DEF IInv, AheadNotCounted, CopiesBounded
<1> QED
  BY <1>1, Invariant, PTL

-----------------------------------------------------------------------------
(* What is lost. *)

LEMMA LostFacts ==
  ASSUME IInv
  PROVE  /\ Passed(committed) \subseteq Spans
         /\ pc # "idle" => /\ Passed(committed) \subseteq Passed(stored)
                           /\ Passed(stored) \subseteq Spans
<1>1. /\ committed \in 0..Len(Topic)
      /\ pc # "idle" => stored \in 0..Len(Topic) /\ committed \in 0..stored
  BY InvParts, OffsetFacts
<1> QED
  BY <1>1, UpToFacts

\* A step that tells no span off changes nothing about what is lost, even if it
\* commits the offset of what the run has read.
LEMMA NothingLost ==
  ASSUME IInv,
         committed' = committed \/ (pc # "idle" /\ committed' = stored),
         \A s \in Passed(committed') :
           (copies'[s] = 0 /\ s \notin InHand') <=> (copies[s] = 0 /\ s \notin InHand)
  PROVE  Lost' = Lost
<1>1. Lost' = {s \in Passed(committed') : copies'[s] = 0 /\ s \notin InHand'}
  BY DEF Lost, Passed
<1>2. Lost' = {s \in Passed(committed') : copies[s] = 0 /\ s \notin InHand}
  BY <1>1
<1>3. CASE committed' = committed
  BY <1>2, <1>3 DEF Lost
<1>4. CASE pc # "idle" /\ committed' = stored
  <2>1. ReadAccountedFor /\ Passed(committed) \subseteq Passed(stored) /\ CopiesTypes
    BY <1>4, LostFacts, InvParts DEF RunInv
  <2>2. \A s \in Passed(stored) : copies[s] = 0 /\ s \notin InHand => s \in Passed(committed)
    BY <1>4, <2>1 DEF ReadAccountedFor
  <2> QED
    BY <1>2, <1>4, <2>1, <2>2 DEF Lost
<1> QED
  BY <1>3, <1>4

\* The steps that are nothing out of the ordinary.
Ordinary ==
  \/ Publish \/ (\E isDry \in BOOLEAN : StartRun(isDry)) \/ AutoCommit
  \/ PollMessage \/ Stop \/ Skip \/ Yield \/ Resume
  \/ ~dry /\ (UploadOk \/ EndRun)

LEMMA OrdinaryStepsLoseNothing ==
  ASSUME IInv, Ordinary \/ UNCHANGED vars
  PROVE  Lost' = Lost
<1>0. RunInv
  BY InvParts
<1>1. CASE \/ Publish \/ (\E isDry \in BOOLEAN : StartRun(isDry)) \/ AutoCommit
           \/ Stop \/ Resume \/ UNCHANGED vars
  <2>1. UNCHANGED <<rest, batch, printed, copies>>
    BY <1>1 DEF Publish, StartRun, AutoCommit, Stop, Resume, vars, consumer, run
  <2>2. committed' = committed \/ (pc # "idle" /\ committed' = stored)
    BY <1>1 DEF Publish, StartRun, AutoCommit, Stop, Resume, vars
  <2>3. UNCHANGED InHand
    BY <2>1 DEF InHand, InBatch
  <2> QED
    BY <2>1, <2>2, <2>3, NothingLost
<1>2. CASE PollMessage
  <2>1. /\ pc = "poll" /\ rest = <<>> /\ stored < published /\ rest' = Topic[stored + 1]
        /\ UNCHANGED <<committed, batch, printed, copies>>
    BY <1>2 DEF PollMessage, run
  <2>2. /\ stored \in 0..Len(Topic) /\ stored < Len(Topic) /\ stored + 1 \in Messages
    BY <2>1, InvParts, OffsetFacts, TopicFacts DEF ScalarTypes
  <2>3. SpansOf(stored + 1) \cap UpTo(stored) = {} /\ SetOf(Topic[stored + 1]) = SpansOf(stored + 1)
    BY <2>2, UpToFacts, TopicFacts
  <2>4. Passed(committed) \subseteq UpTo(stored)
    BY <2>1, <2>2, LostFacts, UpToFacts
  <2>5. InHand' = InBatch \cup printed \cup SetOf(Topic[stored + 1])
    BY <2>1 DEF InHand, InBatch, SetOf
  <2>6. InHand = InBatch \cup printed
    <3>1. SetOf(<<>>) = {}
      BY SetOfFacts
    <3> QED
      BY <2>1, <3>1, HandFacts DEF InRest
  <2>7. \A s \in Passed(committed') : s \in InHand' <=> s \in InHand
    BY <2>1, <2>3, <2>4, <2>5, <2>6
  <2> QED
    BY <2>1, <2>7, NothingLost
<1>3. CASE Skip
  <2>1. /\ rest # <<>> /\ rest' = Tail(rest) /\ stored' = stored /\ KindOf[NextSpan] = "nobody"
        /\ UNCHANGED <<committed, batch, printed, copies>>
    BY <1>3 DEF Skip, PassedByPoll, run
  <2>2. InRest = {NextSpan} \cup InRest'
    BY <2>1, Takes
  <2>3. InHand' = InBatch \cup printed \cup InRest'
    BY <2>1 DEF InHand, InBatch, InRest, SetOf
  <2>4. \A s \in Passed(committed) : s # NextSpan
    BY <2>1, InvParts, OffsetFacts, UpToFacts
  <2>5. \A s \in Passed(committed') : s \in InHand' <=> s \in InHand
    BY <2>1, <2>2, <2>3, <2>4, HandFacts
  <2> QED
    BY <2>1, <2>5, NothingLost
<1>4. CASE Yield
  BY <1>4, YieldFacts, NothingLost
<1>5. CASE ~dry /\ UploadOk
  <2>1. /\ copies' = Accepted /\ printed' = printed /\ committed' = committed
        /\ InHand' = printed \cup InRest
    BY <1>5, UploadOkFacts
  <2>2. \A s \in Passed(committed) :
          /\ copies[s] \in Nat
          /\ Accepted[s] = IF s \in InBatch THEN copies[s] + 1 ELSE copies[s]
    BY <1>0, LostFacts, AcceptedFacts DEF RunInv
  <2>3. \A s \in Passed(committed) : /\ s \in InBatch => copies'[s] # 0 /\ s \in InHand
                                     /\ s \notin InBatch => /\ copies'[s] = copies[s]
                                                            /\ s \in InHand' <=> s \in InHand
    BY <2>1, <2>2, HandFacts
  <2> QED
    BY <2>1, <2>3, NothingLost
<1>6. CASE ~dry /\ EndRun
  <2>1. /\ pc = "tail" /\ batch = <<>> /\ rest = <<>> /\ printed = {}
        /\ batch' = <<>> /\ rest' = <<>> /\ printed' = {} /\ UNCHANGED <<committed, copies>>
    BY <1>0, <1>6 DEF EndRun, GiveUp, RunInv, TailIsClosed, OnlyDryRunsPrint
  <2>2. UNCHANGED InHand
    BY <2>1 DEF InHand, InBatch
  <2> QED
    BY <2>1, <2>2, NothingLost
<1> QED
  BY <1>1, <1>2, <1>3, <1>4, <1>5, <1>6 DEF Ordinary

\* A run that is neither broken, dry, cut off by --limit nor stopped by a message
\* loses nothing, although the offset of a message may be committed before its spans
\* are sent.
THEOREM LossesNeedADisturbance == Spec => OnlyDisturbedRunsLose
<1>1. ASSUME IInv, [Next]_vars, Lost' # Lost
      PROVE  \/ faults' > faults \/ dry
             \/ pc = "held" /\ LimitReached /\ pc' = "tail"
             \/ pc = "poll" /\ pc' = "idle" /\ IF rest = <<>> THEN stored + 1 \in Unreadable
                                                ELSE KindOf[NextSpan] = "poison"
  <2>1. ~Ordinary /\ ~UNCHANGED vars
    BY <1>1, OrdinaryStepsLoseNothing
  <2>2. \/ CutByLimit \/ PollUnreadable \/ PollError \/ RaiseOnSpan
        \/ (\E arrived \in BOOLEAN : UploadFails(arrived)) \/ Kill
        \/ dry
    BY <1>1, <2>1 DEF Next, Ordinary
  <2>3. faults \in Nat
    BY <1>1, InvParts DEF ScalarTypes
  <2>4. CutByLimit => pc = "held" /\ LimitReached /\ pc' = "tail"
    BY DEF CutByLimit
  <2>5. PollUnreadable => pc = "poll" /\ pc' = "idle" /\ rest = <<>> /\ stored + 1 \in Unreadable
    BY DEF PollUnreadable, GiveUp
  <2>6. RaiseOnSpan => pc = "poll" /\ pc' = "idle" /\ rest # <<>> /\ KindOf[NextSpan] = "poison"
    BY DEF RaiseOnSpan, GiveUp
  <2>7. PollError \/ (\E arrived \in BOOLEAN : UploadFails(arrived)) \/ Kill => faults' > faults
    BY <2>3 DEF PollError, UploadFails, Kill, Break
  <2> QED
    BY <2>2, <2>4, <2>5, <2>6, <2>7
<1> QED
  BY <1>1, Invariant, PTL DEF Spec, OnlyDisturbedRunsLose

\* Wherever the group comes to stand, it passes no span that this run has not read.
LEMMA PassesWhatIsRead ==
  ASSUME IInv, [Next]_vars
  PROVE  /\ committed' = committed \/ (pc # "idle" /\ Passed(committed') \subseteq Passed(stored))
         /\ \A s \in Spans : copies'[s] = 0 => copies[s] = 0
<1>1. CopiesTypes /\ ScalarTypes
  BY InvParts DEF RunInv
<1>2. copies' = copies \/ copies' = Accepted
  <2>1. CASE Ends
    BY <2>1, Endings
  <2>2. CASE UploadOk
    BY <2>2, UploadOkFacts
  <2> QED
    BY <2>1, <2>2 DEF Next, Ends, Publish, StartRun, AutoCommit, PollMessage, Stop, Skip,
                      Yield, Resume, CutByLimit, vars
<1>3. \A s \in Spans : copies'[s] = 0 => copies[s] = 0
  BY <1>1, <1>2, AcceptedFacts
<1>4. CASE Ends
  <2>1. pc # "idle" /\ stored \in 0..Len(Topic) /\ committed \in 0..stored
    BY <1>1, <1>4, Endings, OffsetFacts
  <2>2. \/ committed' = committed \/ committed' = stored
        \/ committed' = stored + 1 /\ stored + 1 \in Unreadable
    BY <1>4, Endings
       DEF Ends, PollUnreadable, PollError, RaiseOnSpan, UploadFails, Kill, EndRun, Break, GiveUp
  <2>3. ASSUME stored + 1 \in Unreadable
        PROVE  Passed(stored + 1) \subseteq Passed(stored)
    <3>1. stored + 1 \in Messages /\ SpansOf(stored + 1) = {}
      BY <2>3, OffsetsAssumption
    <3>2. stored < Len(Topic) /\ stored + 1 \in 0..Len(Topic)
      BY <2>1, <3>1, TopicFacts
    <3>3. UpTo(stored + 1) = UpTo(stored)
      <4>1. UpTo(stored + 1) = UpTo(stored) \cup SpansOf(stored + 1)
        BY <2>1, <3>2, UpToFacts
      <4> QED
        BY <3>1, <4>1
    <3> QED
      BY <2>1, <3>2, <3>3, UpToFacts
  <2> QED
    BY <1>3, <2>1, <2>2, <2>3
<1>5. CASE ~Ends
  <2>1. committed' = committed \/ (pc # "idle" /\ committed' = stored)
    BY <1>5 DEF Next, Ends, Publish, StartRun, AutoCommit, PollMessage, Stop, Skip,
                Yield, Resume, CutByLimit, UploadOk, vars
  <2> QED
    BY <1>3, <2>1
<1> QED
  BY <1>4, <1>5

\* What a run has in hand, unless it is dry, is less than a batch more than a message.
LEMMA HandIsSmall ==
  ASSUME IInv, ~dry
  PROVE  /\ IsFiniteSet(InHand)
         /\ \E n \in Sizes : n \in Nat /\ Cardinality(InHand) < BatchSize + n
<1>1. RunInv /\ ScalarTypes
  BY InvParts
<1>2. InHand = SetOf(batch) \cup SetOf(rest)
  BY <1>1, HandFacts DEF RunInv, OnlyDryRunsPrint, InRest
<1>3. /\ IsFiniteSet(SetOf(batch)) /\ Cardinality(SetOf(batch)) \in 0..Len(batch)
      /\ Len(batch) \in Nat /\ Len(batch) <= BatchSize /\ BatchSize \in Nat
  BY <1>1, SetOfFacts, BoundFacts DEF RunInv, BatchTypes
<1>4. \E n \in Sizes : /\ n \in Nat /\ Len(rest) \in Nat /\ Len(batch) + Len(rest) < BatchSize + n
                       /\ IsFiniteSet(SetOf(rest)) /\ Cardinality(SetOf(rest)) \in 0..Len(rest)
  <2>1. CASE rest = <<>>
    <3>1. SetOf(rest) = {} /\ Len(rest) = 0
      BY <2>1, SetOfFacts, EmptySeq
    <3>2. IsFiniteSet(SetOf(rest)) /\ Cardinality(SetOf(rest)) \in 0..Len(rest)
      BY <3>1, FS_EmptySet
    <3>3. CASE pc = "held"
      <4>1. stored \in Messages /\ Len(rest) < Len(Topic[stored]) /\ Len(Topic[stored]) \in Nat
        BY <1>1, <3>3, TopicFacts DEF RunInv, RoomAhead
      <4> QED
        BY <1>3, <3>1, <3>2, <4>1 DEF Sizes
    <3>4. CASE pc # "held"
      <4>1. Len(batch) < BatchSize
        BY <1>1, <3>4 DEF RunInv, RoomAhead
      <4>2. 1 \in Messages /\ Len(Topic[1]) \in Nat
        BY TopicFacts
      <4> QED
        BY <1>3, <3>1, <3>2, <4>1, <4>2 DEF Sizes
    <3> QED
      BY <3>3, <3>4
  <2>2. CASE rest # <<>>
    <3>1. /\ stored \in Messages /\ rest \in Seq(Spans) /\ Len(rest) \in 1..Len(Topic[stored])
          /\ Len(Topic[stored]) \in Nat
      BY <1>1, <2>2, RestFacts, TopicFacts DEF RunInv
    <3>2. /\ IsFiniteSet(SetOf(rest)) /\ Cardinality(SetOf(rest)) \in 0..Len(rest)
          /\ Len(rest) \in Nat
      BY <3>1, SetOfFacts
    <3>3. Len(batch) < BatchSize \/ Len(rest) < Len(Topic[stored])
      BY <1>1 DEF RunInv, RoomAhead
    <3>4. Len(batch) + Len(rest) < BatchSize + Len(Topic[stored])
      BY <1>3, <3>1, <3>3
    <3> QED
      BY <3>1, <3>2, <3>4 DEF Sizes
  <2> QED
    BY <2>1, <2>2
<1>5. PICK n \in Sizes : /\ n \in Nat /\ Len(rest) \in Nat
                         /\ Len(batch) + Len(rest) < BatchSize + n
                         /\ IsFiniteSet(SetOf(rest)) /\ Cardinality(SetOf(rest)) \in 0..Len(rest)
  BY <1>4
<1>6. /\ IsFiniteSet(InHand)
      /\ Cardinality(InHand) = Cardinality(SetOf(batch)) + Cardinality(SetOf(rest))
                                 - Cardinality(SetOf(batch) \cap SetOf(rest))
  BY <1>2, <1>3, <1>5, FS_Union
<1>7. Cardinality(SetOf(batch) \cap SetOf(rest)) \in Nat
  <2>1. SetOf(batch) \cap SetOf(rest) \in SUBSET SetOf(batch)
    OBVIOUS
  <2>2. IsFiniteSet(SetOf(batch) \cap SetOf(rest))
    BY <1>3, <2>1, FS_Subset
  <2> QED
    BY <2>2, FS_CardinalityType
<1>8. Cardinality(InHand) < BatchSize + n
  BY <1>3, <1>5, <1>6, <1>7
<1> QED
  BY <1>5, <1>6, <1>8

\* Whatever disturbs a run costs what it has in hand at the time, which is less than a
\* batch more than one message.
THEOREM LossesAreSmall == Spec => LossesAreInHand
<1>1. ASSUME IInv, [Next]_vars
      PROVE  /\ Lost' \ Lost \subseteq InHand
             /\ ~dry => \E n \in Sizes : Cardinality(Lost' \ Lost) < BatchSize + n
  <2>1. Lost' \ Lost \subseteq InHand
    <3> SUFFICES ASSUME NEW s \in Lost', s \notin Lost
                 PROVE  s \in InHand
      OBVIOUS
    <3>1. s \in Passed(committed') /\ copies'[s] = 0
      BY DEF Lost, Passed
    <3>2. s \in Passed(committed) \/ (pc # "idle" /\ s \in Passed(stored))
      BY <1>1, <3>1, PassesWhatIsRead
    <3>3. s \in Spans
      BY <1>1, <3>2, LostFacts
    <3>4. copies[s] = 0
      BY <1>1, <3>1, <3>3, PassesWhatIsRead
    <3>5. s \notin Passed(committed) => s \in InHand
      BY <1>1, <3>2, <3>4, InvParts DEF RunInv, ReadAccountedFor
    <3> QED
      BY <3>4, <3>5 DEF Lost
  <2>2. ASSUME ~dry
        PROVE  \E n \in Sizes : Cardinality(Lost' \ Lost) < BatchSize + n
    <3>1. PICK n \in Sizes : n \in Nat /\ Cardinality(InHand) < BatchSize + n
      BY <1>1, <2>2, HandIsSmall
    <3>2. IsFiniteSet(InHand) /\ Lost' \ Lost \in SUBSET InHand
      BY <1>1, <2>1, <2>2, HandIsSmall
    <3>3. IsFiniteSet(Lost' \ Lost) /\ Cardinality(Lost' \ Lost) <= Cardinality(InHand)
      BY <3>2, FS_Subset
    <3>4. Cardinality(Lost' \ Lost) \in Nat /\ Cardinality(InHand) \in Nat /\ BatchSize \in Nat
      BY <3>2, <3>3, FS_CardinalityType, BoundFacts
    <3> QED
      BY <3>1, <3>3, <3>4
  <2> QED
    BY <2>1, <2>2
<1> QED
  BY <1>1, Invariant, PTL DEF Spec, LossesAreInHand
=============================================================================
