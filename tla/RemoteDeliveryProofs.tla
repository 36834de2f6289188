------------------------- MODULE RemoteDeliveryProofs -------------------------
(***************************************************************************)
(* Proofs about RemoteDelivery, for any number of streams, messages,       *)
(* segments and broken connections and any capacity: an envelope leaves    *)
(* the buffer only when the backend has it, the backend never sees a gap,  *)
(* the buffer exceeds its capacity by less than one message, and what is   *)
(* delivered is what OrderedDelivery allows.                               *)
(***************************************************************************)
EXTENDS RemoteDelivery, SubsequenceProofs

USE DeliveryAssumption

-----------------------------------------------------------------------------
(* The inductive invariant                                                 *)

Items(seq) == {seq[i] : i \in 1..Len(seq)}

\* Every element of the sequence is one of N, and those of N that come before
\* it have arrived or are in front of it.
Fed(seq, N, arrived) ==
    \A i \in 1..Len(seq) :
        /\ seq[i] \in N
        /\ \A d \in N : Before(d, seq[i]) =>
              \/ d \in arrived
              \/ \E j \in 1..Len(seq) : j < i /\ seq[j] = d

Ordered(seq, N) ==
    /\ \A i \in 1..Len(seq) : seq[i] \in N
    /\ \A i, j \in 1..Len(seq) : i < j => Before(seq[i], seq[j])

\* No element of N that comes before an arrived one is missing.
Closed(arrived, N) ==
    /\ arrived \subseteq N
    /\ \A e \in arrived : \A d \in N : Before(d, e) => d \in arrived

\* The backend has no gap and the buffer all that it does not have, in order.
Safe(s) ==
    /\ Closed(got[s], Numbered(s))
    /\ Ordered(buffer[s], Numbered(s))
    /\ Numbered(s) \subseteq got[s] \cup Items(buffer[s])

\* What is on the wire and what is to be written follow on what has arrived,
\* and with a connection that is all that was numbered.
Flowing(s) ==
    /\ Fed(wire[s], Numbered(s), got[s])
    /\ Fed(todo[s], Numbered(s), got[s] \cup Items(wire[s]))
    /\ writer # "down" =>
          Numbered(s) \subseteq got[s] \cup Items(wire[s]) \cup Items(todo[s])

StreamInv(s) == Safe(s) /\ Flowing(s)

WriterInv ==
    /\ writer \in {"down", "waiting"} => todo = Nothing
    /\ writer = "down" => wire = Nothing

Inv == TypeOK /\ WriterInv /\ (\A s \in Streams : StreamInv(s)) /\ BufferIsBounded

-----------------------------------------------------------------------------
(* Envelopes and their order                                               *)

LEMMA Types ==
    ASSUME TypeOK, NEW s \in Streams
    PROVE  /\ taken[s] \in Seq(Message) /\ Len(taken[s]) \in Nat
           /\ buffer[s] \in Seq(Envelope) /\ Len(buffer[s]) \in Nat
           /\ todo[s] \in Seq(Envelope) /\ Len(todo[s]) \in Nat
           /\ wire[s] \in Seq(Envelope) /\ Len(wire[s]) \in Nat
           /\ got[s] \subseteq Envelope
           /\ \A i \in 1..Len(buffer[s]) : buffer[s][i] \in Envelope
           /\ \A i \in 1..Len(todo[s]) : todo[s][i] \in Envelope
           /\ \A i \in 1..Len(wire[s]) : wire[s][i] \in Envelope
  <1>1. /\ taken[s] \in Seq(Message) /\ buffer[s] \in Seq(Envelope)
        /\ todo[s] \in Seq(Envelope) /\ wire[s] \in Seq(Envelope)
        /\ got[s] \subseteq Envelope
    BY DEF TypeOK
  <1> QED
    BY <1>1, LenProperties, ElementOfSeq

LEMMA BeforeFacts ==
    ASSUME NEW d \in Envelope, NEW e \in Envelope
    PROVE  /\ d.seq \in Nat \ {0} /\ d.seg \in Nat
           /\ ~Before(d, d) /\ ~(Before(d, e) /\ Before(e, d))
           /\ ~Before(e, d) => IsAcked(d, e)
           /\ IsAcked(d, e) => d = e \/ Before(d, e)
  <1>1. /\ d.seq \in Nat \ {0} /\ d.seg \in Nat
        /\ e.seq \in Nat \ {0} /\ e.seg \in Nat
    BY DEF Envelope
  <1>2. d.seq = e.seq /\ d.seg = e.seg => d = e
    BY DEF Envelope
  <1> QED
    BY <1>1, <1>2 DEF Before, IsAcked

\* The envelopes of a stream on which the messages t were numbered.
Of(t) == UNION {{Split(n, t[n])[g] : g \in 1..t[n]} : n \in 1..Len(t)}
Env(n, i) == [seq |-> n, seg |-> i - 1]

LEMMA SplitFacts ==
    ASSUME NEW n \in Nat \ {0}, NEW m \in Message
    PROVE  /\ m \in Nat /\ m <= MaxSegments
           /\ Split(n, m) \in Seq(Envelope) /\ Len(Split(n, m)) = m
           /\ \A i \in 1..m : Split(n, m)[i] = Env(n, i) /\ Env(n, i) \in Envelope
  <1>1. m \in Nat /\ m <= MaxSegments
    BY DEF Message
  <1>2. \A i \in 1..m : Env(n, i) \in Envelope
    BY <1>1 DEF Env, Envelope
  <1>3. Split(n, m) = [i \in 1..m |-> Env(n, i)]
    BY DEF Split, Env
  <1>4. Split(n, m) \in [1..m -> Envelope]
    BY <1>2, <1>3
  <1>5. Split(n, m) \in Seq(Envelope) /\ Len(Split(n, m)) = m
    BY <1>1, <1>4
  <1> QED
    BY <1>1, <1>2, <1>3, <1>5

LEMMA OfFacts ==
    ASSUME NEW t \in Seq(Message)
    PROVE  /\ \A n \in 1..Len(t) : n \in Nat \ {0} /\ t[n] \in Message /\ t[n] \in Nat
           /\ \A n \in 1..Len(t) : \A g \in 1..t[n] : Env(n, g) \in Of(t)
           /\ \A e \in Of(t) : \E n \in 1..Len(t) : \E g \in 1..t[n] : e = Env(n, g)
           /\ Of(t) \subseteq Envelope
           /\ \A e \in Of(t) : e.seq \in 1..Len(t)
  <1>1. Len(t) \in Nat /\ \A n \in 1..Len(t) : n \in Nat \ {0} /\ t[n] \in Message
    BY LenProperties, ElementOfSeq
  <1>2. \A n \in 1..Len(t) : /\ t[n] \in Nat
                             /\ \A g \in 1..t[n] : Split(n, t[n])[g] = Env(n, g)
                                                     /\ Env(n, g) \in Envelope
    BY <1>1, SplitFacts
  <1>3. \A n \in 1..Len(t) : \A g \in 1..t[n] : Env(n, g) \in Of(t)
    BY <1>2 DEF Of
  <1>4. \A e \in Of(t) : \E n \in 1..Len(t) : \E g \in 1..t[n] : e = Env(n, g)
    <2> TAKE e \in Of(t)
    <2>1. PICK n \in 1..Len(t) : e \in {Split(n, t[n])[g] : g \in 1..t[n]}
      BY DEF Of
    <2>2. PICK g \in 1..t[n] : e = Split(n, t[n])[g]
      BY <2>1
    <2> QED
      BY <1>2, <2>2
  <1>5. \A n, g : Env(n, g).seq = n
    BY DEF Env
  <1> QED
    BY <1>1, <1>2, <1>3, <1>4, <1>5

LEMMA NumberedIsOf ==
    ASSUME NEW s \in Streams
    PROVE  Numbered(s) = Of(taken[s]) /\ Numbered(s)' = Of(taken'[s])
  BY DEF Numbered, Of

\* The next message of a stream adds its envelopes after all others.
LEMMA OfGrows ==
    ASSUME NEW t \in Seq(Message), NEW m \in Message
    PROVE  LET u == Append(t, m)
               n == Len(t) + 1
           IN  /\ u \in Seq(Message) /\ n \in Nat \ {0}
               /\ \A e : e \in Of(u) <=> e \in Of(t) \/ \E i \in 1..m : e = Env(n, i)
               /\ \A d \in Of(t) : \A i \in 1..m : ~Before(Env(n, i), d)
               /\ \A d \in Of(t) : \A i \in 1..m : Before(d, Env(n, i)) /\ d # Env(n, i)
               /\ \A i, j \in 1..m : Before(Env(n, i), Env(n, j)) <=> i < j
  <1> DEFINE u == Append(t, m)
             n == Len(t) + 1
  <1>1. /\ u \in Seq(Message) /\ Len(u) = n /\ u[n] = m
        /\ \A i \in 1..Len(t) : u[i] = t[i]
    BY AppendProperties
  <1>2. Len(t) \in Nat /\ n \in Nat \ {0} /\ m \in Nat
    BY LenProperties, SplitFacts
  <1>3. \A k : k \in 1..n <=> k \in 1..Len(t) \/ k = n
    BY <1>2
  <1> HIDE DEF u
  <1>4. ASSUME NEW e, e \in Of(u) PROVE e \in Of(t) \/ \E i \in 1..m : e = Env(n, i)
    <2>1. PICK k \in 1..n : \E g \in 1..u[k] : e = Env(k, g)
      BY <1>1, <1>4, OfFacts
    <2>2. CASE k = n
      BY <1>1, <2>1, <2>2
    <2>3. CASE k \in 1..Len(t)
      BY <1>1, <2>1, <2>3, OfFacts
    <2> QED
      BY <1>3, <2>2, <2>3
  <1>5. ASSUME NEW e, e \in Of(t) PROVE e \in Of(u)
    <2>1. PICK k \in 1..Len(t) : \E g \in 1..t[k] : e = Env(k, g)
      BY <1>5, OfFacts
    <2>2. k \in 1..Len(u) /\ u[k] = t[k]
      BY <1>1, <1>3
    <2> QED
      BY <1>1, <2>1, <2>2, OfFacts
  <1>6. ASSUME NEW i \in 1..m PROVE Env(n, i) \in Of(u)
    <2>1. n \in 1..Len(u) /\ i \in 1..u[n]
      BY <1>1, <1>3
    <2> QED
      BY <1>1, <2>1, OfFacts
  <1>7. ASSUME NEW d \in Of(t), NEW i \in 1..m
        PROVE  ~Before(Env(n, i), d) /\ Before(d, Env(n, i)) /\ d # Env(n, i)
    <2>1. d.seq \in 1..Len(t) /\ Env(n, i).seq = n
      BY OfFacts DEF Env
    <2>2. d.seq \in Nat /\ d.seq < n
      BY <1>2, <2>1
    <2> QED
      BY <1>2, <2>1, <2>2 DEF Before
  <1>8. \A i, j \in 1..m : Before(Env(n, i), Env(n, j)) <=> i < j
    <2> TAKE i, j \in 1..m
    <2>1. /\ Env(n, i).seq = n /\ Env(n, i).seg = i - 1
          /\ Env(n, j).seq = n /\ Env(n, j).seg = j - 1
      BY DEF Env
    <2>2. i - 1 < j - 1 <=> i < j
      BY <1>2
    <2>3. ~(n < n)
      BY <1>2
    <2> QED
      BY <2>1, <2>2, <2>3 DEF Before
  <1>9. \A e : e \in Of(u) <=> e \in Of(t) \/ \E i \in 1..m : e = Env(n, i)
    BY <1>4, <1>5, <1>6
  <1> QED
    BY <1>1, <1>2, <1>7, <1>8, <1>9 DEF u

-----------------------------------------------------------------------------
(* Sequences that are fed                                                  *)

LEMMA HeadAndTail ==
    ASSUME NEW S, NEW seq \in Seq(S), seq # << >>
    PROVE  /\ Len(seq) \in Nat \ {0} /\ 1 \in 1..Len(seq) /\ Head(seq) = seq[1]
           /\ Tail(seq) \in Seq(S) /\ Len(Tail(seq)) = Len(seq) - 1
           /\ \A i \in 1..Len(seq) - 1 :
                 i + 1 \in 1..Len(seq) /\ Tail(seq)[i] = seq[i + 1]
           /\ \A i \in 1..Len(seq) : i # 1 =>
                 i - 1 \in 1..Len(seq) - 1 /\ Tail(seq)[i - 1] = seq[i]
           /\ Items(seq) = Items(Tail(seq)) \cup {Head(seq)}
  <1>1. /\ Len(seq) \in Nat /\ Head(seq) = seq[1] /\ Tail(seq) \in Seq(S)
        /\ Len(Tail(seq)) = Len(seq) - 1 /\ Len(seq) # 0
        /\ \A i \in 1..Len(seq) - 1 : Tail(seq)[i] = seq[i + 1]
    BY HeadTailProperties, EmptySeq, LenProperties
  <1>2. /\ 1 \in 1..Len(seq) /\ \A i \in 1..Len(seq) - 1 : i + 1 \in 1..Len(seq)
        /\ \A i \in 1..Len(seq) : i # 1 => i - 1 \in 1..Len(seq) - 1 /\ i - 1 + 1 = i
    BY <1>1
  <1>3. ASSUME NEW i \in 1..Len(seq), i # 1
        PROVE  i - 1 \in 1..Len(seq) - 1 /\ Tail(seq)[i - 1] = seq[i]
    <2>1. Tail(seq)[i - 1] = seq[i - 1 + 1]
      BY <1>1, <1>2, <1>3
    <2> QED
      BY <1>2, <1>3, <2>1
  <1>4. \A x : x \in Items(seq) <=> x \in Items(Tail(seq)) \/ x = Head(seq)
    <2>1. ASSUME NEW i \in 1..Len(seq), i # 1 PROVE seq[i] \in Items(Tail(seq))
      BY <1>1, <1>3, <2>1 DEF Items
    <2>2. ASSUME NEW i \in 1..Len(Tail(seq)) PROVE Tail(seq)[i] \in Items(seq)
      BY <1>1, <1>2 DEF Items
    <2>3. Head(seq) \in Items(seq)
      BY <1>1, <1>2 DEF Items
    <2>4. \A x \in Items(seq) : x \in Items(Tail(seq)) \/ x = Head(seq)
      <3> TAKE x \in Items(seq)
      <3>1. PICK i \in 1..Len(seq) : x = seq[i]
        BY DEF Items
      <3> QED
        BY <1>1, <2>1, <3>1
    <2>5. \A x \in Items(Tail(seq)) : x \in Items(seq)
      BY <2>2 DEF Items
    <2> QED
      BY <2>3, <2>4, <2>5
  <1>5. Items(seq) = Items(Tail(seq)) \cup {Head(seq)}
    BY <1>4
  <1> QED
    BY <1>1, <1>2, <1>3, <1>5

LEMMA ItemsOfAppend ==
    ASSUME NEW S, NEW seq \in Seq(S), NEW x \in S
    PROVE  Items(Append(seq, x)) = Items(seq) \cup {x}
  <1>1. /\ Len(seq) \in Nat /\ Len(Append(seq, x)) = Len(seq) + 1
        /\ \A i \in 1..Len(seq) : Append(seq, x)[i] = seq[i]
        /\ Append(seq, x)[Len(seq) + 1] = x
    BY AppendProperties, LenProperties
  <1>2. \A i : i \in 1..Len(seq) + 1 <=> i \in 1..Len(seq) \/ i = Len(seq) + 1
    BY <1>1
  <1>3. \A y : y \in Items(Append(seq, x)) <=> y \in Items(seq) \/ y = x
    BY <1>1, <1>2 DEF Items
  <1> QED
    BY <1>3

LEMMA ItemsOfConcat ==
    ASSUME NEW S, NEW a \in Seq(S), NEW b \in Seq(S)
    PROVE  /\ a \o b \in Seq(S) /\ Len(a \o b) = Len(a) + Len(b)
           /\ \A i \in 1..Len(a) : (a \o b)[i] = a[i] /\ i \in 1..Len(a \o b)
           /\ \A i \in 1..Len(b) : /\ (a \o b)[Len(a) + i] = b[i]
                                   /\ Len(a) + i \in 1..Len(a \o b)
           /\ \A i \in 1..Len(a \o b) :
                 \/ i \in 1..Len(a)
                 \/ /\ i - Len(a) \in 1..Len(b) /\ Len(a) + (i - Len(a)) = i
                    /\ (a \o b)[i] = b[i - Len(a)]
           /\ Items(a \o b) = Items(a) \cup Items(b)
  <1> DEFINE c == a \o b
             m == Len(a)
             n == Len(b)
  <1>1. /\ c \in Seq(S) /\ Len(c) = m + n /\ m \in Nat /\ n \in Nat
        /\ \A i \in 1..m + n : c[i] = IF i <= m THEN a[i] ELSE b[i - m]
    BY ConcatProperties, LenProperties
  <1> HIDE DEF c, m, n
  <1>2. \A i \in 1..m : i \in 1..m + n /\ i <= m
    BY <1>1
  <1>3. \A i \in 1..n : m + i \in 1..m + n /\ ~(m + i <= m) /\ m + i - m = i
    BY <1>1
  <1>4. \A i \in 1..m + n :
           i \in 1..m \/ (i - m \in 1..n /\ m + (i - m) = i /\ ~(i <= m))
    BY <1>1
  <1>5. \A i \in 1..m : c[i] = a[i]
    BY <1>1, <1>2
  <1>6. \A i \in 1..n : c[m + i] = b[i]
    BY <1>1, <1>3
  <1>7. \A i \in 1..m + n :
           i \in 1..m \/ (i - m \in 1..n /\ m + (i - m) = i /\ c[i] = b[i - m])
    BY <1>1, <1>4
  <1>8. \A x : x \in Items(c) <=> x \in Items(a) \/ x \in Items(b)
    <2>1. ASSUME NEW x, x \in Items(c) PROVE x \in Items(a) \/ x \in Items(b)
      <3>1. PICK i \in 1..m + n : x = c[i]
        BY <1>1, <2>1 DEF Items
      <3> QED
        BY <1>5, <1>7, <3>1 DEF Items, m, n
    <2>2. ASSUME NEW x, x \in Items(a) PROVE x \in Items(c)
      BY <1>1, <1>2, <1>5, <2>2 DEF Items, m
    <2>3. ASSUME NEW x, x \in Items(b) PROVE x \in Items(c)
      BY <1>1, <1>3, <1>6, <2>3 DEF Items, n
    <2> QED
      BY <2>1, <2>2, <2>3
  <1>9. Items(c) = Items(a) \cup Items(b)
    BY <1>8
  <1> QED
    BY <1>1, <1>2, <1>3, <1>5, <1>6, <1>7, <1>9 DEF c, m, n

LEMMA FedMore ==
    ASSUME NEW seq, NEW N, NEW A, NEW B, A \subseteq B, Fed(seq, N, A)
    PROVE  Fed(seq, N, B)
  BY DEF Fed

LEMMA FedEmpty ==
    ASSUME NEW N, NEW A
    PROVE  Fed(<< >>, N, A) /\ Items(<< >>) = {}
  BY DEF Fed, Items

\* The first one arrives.
LEMMA FedTail ==
    ASSUME NEW S, NEW seq \in Seq(S), seq # << >>, NEW N, NEW A, Fed(seq, N, A)
    PROVE  /\ Head(seq) \in N
           /\ \A d \in N : Before(d, Head(seq)) => d \in A
           /\ Fed(Tail(seq), N, A \cup {Head(seq)})
  <1> DEFINE h == Head(seq)
             u == Tail(seq)
  <1>1. /\ Len(seq) \in Nat \ {0} /\ 1 \in 1..Len(seq) /\ h = seq[1]
        /\ Len(u) = Len(seq) - 1
        /\ \A i \in 1..Len(seq) - 1 : i + 1 \in 1..Len(seq) /\ u[i] = seq[i + 1]
        /\ \A i \in 1..Len(seq) : i # 1 => i - 1 \in 1..Len(seq) - 1 /\ u[i - 1] = seq[i]
    BY HeadAndTail
  <1> HIDE DEF h, u
  <1>2. \A i \in 1..Len(seq) : ~(i < 1)
    BY <1>1
  <1>3. h \in N /\ \A d \in N : Before(d, h) => d \in A
    BY <1>1, <1>2 DEF Fed
  <1>4. ASSUME NEW i \in 1..Len(u), NEW d \in N, Before(d, u[i]), d \notin A, d # h
        PROVE  \E j \in 1..Len(u) : j < i /\ u[j] = d
    <2>1. PICK j \in 1..Len(seq) : j < i + 1 /\ seq[j] = d
      BY <1>1, <1>4 DEF Fed
    <2>2. j # 1
      BY <1>1, <1>4, <2>1
    <2>3. j - 1 \in 1..Len(u) /\ u[j - 1] = d
      BY <1>1, <2>1, <2>2
    <2>4. i \in Nat /\ j \in Nat
      BY <1>1
    <2>5. j - 1 < i
      BY <2>1, <2>4
    <2> QED
      BY <2>3, <2>5
  <1>5. \A i \in 1..Len(u) : u[i] \in N
    BY <1>1 DEF Fed
  <1>6. Fed(u, N, A \cup {h})
    BY <1>4, <1>5 DEF Fed
  <1> QED
    BY <1>3, <1>6 DEF h, u

\* One more is put behind, when all before it are there.
LEMMA FedAppend ==
    ASSUME NEW S, NEW seq \in Seq(S), NEW x \in S, NEW N, NEW A, Fed(seq, N, A), x \in N,
           \A d \in N : Before(d, x) => d \in A \cup Items(seq)
    PROVE  Fed(Append(seq, x), N, A)
  <1> DEFINE u == Append(seq, x)
             n == Len(seq)
  <1>1. /\ n \in Nat /\ Len(u) = n + 1 /\ u[n + 1] = x
        /\ \A i \in 1..n : u[i] = seq[i]
    BY AppendProperties, LenProperties
  <1> HIDE DEF u
  <1>2. /\ \A i \in 1..n + 1 : i \in 1..n \/ i = n + 1
        /\ \A i \in 1..n : i \in 1..n + 1 /\ i < n + 1
    BY <1>1
  <1>3. ASSUME NEW i \in 1..n
        PROVE  /\ u[i] \in N
               /\ \A d \in N : Before(d, u[i]) =>
                     d \in A \/ \E j \in 1..n + 1 : j < i /\ u[j] = d
    <2>1. u[i] = seq[i]
      BY <1>1
    <2>2. \A d \in N : Before(d, seq[i]) => d \in A \/ \E j \in 1..n : j < i /\ seq[j] = d
      BY DEF Fed
    <2>3. \A j \in 1..n : j \in 1..n + 1 /\ u[j] = seq[j]
      BY <1>1, <1>2
    <2>4. seq[i] \in N
      BY DEF Fed
    <2> HIDE DEF n
    <2> QED
      BY <2>1, <2>2, <2>3, <2>4
  <1>4. ASSUME NEW d \in N, Before(d, x), d \notin A
        PROVE  \E j \in 1..n + 1 : j < n + 1 /\ u[j] = d
    <2>1. PICK j \in 1..n : seq[j] = d
      BY <1>4 DEF Items
    <2> QED
      BY <1>1, <1>2, <2>1
  <1>5. ASSUME NEW i \in 1..n + 1
        PROVE  /\ u[i] \in N
               /\ \A d \in N : Before(d, u[i]) =>
                     d \in A \/ \E j \in 1..n + 1 : j < i /\ u[j] = d
    <2>1. CASE i \in 1..n
      BY <1>3, <2>1
    <2>2. CASE i = n + 1
      BY <1>1, <1>4, <2>2
    <2> QED
      BY <1>2, <2>1, <2>2
  <1>6. Fed(u, N, A)
    BY <1>1, <1>5 DEF Fed
  <1> QED
    BY <1>6 DEF u

\* An ordered sequence feeds itself.
LEMMA FedOrdered ==
    ASSUME NEW seq \in Seq(Envelope), NEW N \in SUBSET Envelope, NEW A, Ordered(seq, N),
           N \subseteq A \cup Items(seq)
    PROVE  Fed(seq, N, A)
  <1>0. Len(seq) \in Nat
    BY LenProperties
  <1>1. ASSUME NEW i \in 1..Len(seq), NEW d \in N, Before(d, seq[i]), d \notin A
        PROVE  \E j \in 1..Len(seq) : j < i /\ seq[j] = d
    <2>1. PICK j \in 1..Len(seq) : seq[j] = d
      BY <1>1 DEF Items
    <2>2. seq[i] \in Envelope /\ d \in Envelope
      BY DEF Ordered
    <2>3. ~(i < j) /\ i # j
      <3>1. i < j => Before(seq[i], d)
        BY <2>1 DEF Ordered
      <3>2. ~Before(d, d) /\ ~(Before(d, seq[i]) /\ Before(seq[i], d))
        BY <2>2, BeforeFacts
      <3> QED
        BY <1>1, <2>1, <3>1, <3>2
    <2>4. i \in Nat /\ j \in Nat
      BY <1>0
    <2>5. j < i
      BY <2>3, <2>4
    <2> QED
      BY <2>1, <2>5
  <1>2. \A i \in 1..Len(seq) : seq[i] \in N
    BY DEF Ordered
  <1> QED
    BY <1>1, <1>2 DEF Fed

-----------------------------------------------------------------------------
(* What a step does to a stream                                            *)

\* The conjuncts of the invariant in the next state.
LEMMA StreamNext ==
    ASSUME NEW s \in Streams,
           Closed(got'[s], Of(taken'[s])), Ordered(buffer'[s], Of(taken'[s])),
           Of(taken'[s]) \subseteq got'[s] \cup Items(buffer'[s]),
           Fed(wire'[s], Of(taken'[s]), got'[s]),
           Fed(todo'[s], Of(taken'[s]), got'[s] \cup Items(wire'[s])),
           writer' # "down" =>
             Of(taken'[s]) \subseteq got'[s] \cup Items(wire'[s]) \cup Items(todo'[s])
    PROVE  StreamInv(s)'
  BY NumberedIsOf
     DEF StreamInv, Safe, Flowing, Closed, Ordered, Items, Fed, Before

LEMMA StreamNow ==
    ASSUME TypeOK, NEW s \in Streams, StreamInv(s)
    PROVE  /\ Closed(got[s], Of(taken[s])) /\ Ordered(buffer[s], Of(taken[s]))
           /\ Of(taken[s]) \subseteq got[s] \cup Items(buffer[s])
           /\ Fed(wire[s], Of(taken[s]), got[s])
           /\ Fed(todo[s], Of(taken[s]), got[s] \cup Items(wire[s]))
           /\ writer # "down" =>
                Of(taken[s]) \subseteq got[s] \cup Items(wire[s]) \cup Items(todo[s])
           /\ Of(taken[s]) \subseteq Envelope
  <1>1. Numbered(s) = Of(taken[s])
    BY NumberedIsOf
  <1>2. Of(taken[s]) \subseteq Envelope
    BY Types, OfFacts
  <1> QED
    BY <1>1, <1>2 DEF StreamInv, Safe, Flowing

LEMMA StreamKept ==
    ASSUME TypeOK, NEW s \in Streams, StreamInv(s), writer' # "down" => writer # "down",
           taken'[s] = taken[s], got'[s] = got[s], buffer'[s] = buffer[s],
           wire'[s] = wire[s], todo'[s] = todo[s]
    PROVE  StreamInv(s)'
  BY StreamNow, StreamNext

\* A new connection starts from the buffer.
LEMMA StreamConnects ==
    ASSUME TypeOK, NEW s \in Streams, StreamInv(s), wire[s] = << >>,
           taken'[s] = taken[s], got'[s] = got[s], buffer'[s] = buffer[s],
           wire'[s] = wire[s], todo'[s] = buffer[s]
    PROVE  StreamInv(s)'
  <1>1. Items(wire[s]) = {} /\ buffer[s] \in Seq(Envelope)
    BY FedEmpty, Types
  <1>2. Fed(buffer[s], Of(taken[s]), got[s])
    BY <1>1, StreamNow, FedOrdered
  <1>3. got[s] \cup {} = got[s]
    OBVIOUS
  <1> QED
    BY <1>1, <1>2, <1>3, StreamNow, StreamNext

LEMMA StreamBreaks ==
    ASSUME TypeOK, NEW s \in Streams, StreamInv(s), writer' = "down",
           taken'[s] = taken[s], got'[s] = got[s], buffer'[s] = buffer[s],
           wire'[s] = << >>, todo'[s] = << >>
    PROVE  StreamInv(s)'
  BY StreamNow, StreamNext, FedEmpty

LEMMA StreamWrites ==
    ASSUME TypeOK, NEW s \in Streams, StreamInv(s), writer # "down", todo[s] # << >>,
           taken'[s] = taken[s], got'[s] = got[s], buffer'[s] = buffer[s],
           wire'[s] = Append(wire[s], Head(todo[s])), todo'[s] = Tail(todo[s])
    PROVE  StreamInv(s)'
  <1> DEFINE N == Of(taken[s])
             h == Head(todo[s])
             A == got[s] \cup Items(wire[s])
  <1>1. wire[s] \in Seq(Envelope) /\ todo[s] \in Seq(Envelope) /\ N \subseteq Envelope
    BY Types, StreamNow
  <1>2. /\ h \in N /\ \A d \in N : Before(d, h) => d \in A
        /\ Fed(Tail(todo[s]), N, A \cup {h})
    <2>1. Fed(todo[s], N, A)
      BY StreamNow
    <2> HIDE DEF N, A
    <2> QED
      BY <1>1, <2>1, FedTail
  <1>3. Fed(wire'[s], N, got[s])
    BY <1>1, <1>2, StreamNow, FedAppend
  <1>4. Items(wire'[s]) = Items(wire[s]) \cup {h}
    BY <1>1, <1>2, ItemsOfAppend
  <1>5. Items(todo[s]) = Items(todo'[s]) \cup {h}
    BY <1>1, HeadAndTail
  <1> HIDE DEF N, h
  <1>6. A \cup {h} = got[s] \cup Items(wire'[s])
    BY <1>4
  <1>7. N \subseteq got[s] \cup Items(wire'[s]) \cup Items(todo'[s])
    <2>1. N \subseteq got[s] \cup Items(wire[s]) \cup Items(todo[s])
      BY StreamNow DEF N
    <2> QED
      BY <1>4, <1>5, <2>1
  <1> QED
    BY <1>2, <1>3, <1>6, <1>7, StreamNow, StreamNext DEF N

LEMMA StreamReceives ==
    ASSUME TypeOK, NEW s \in Streams, StreamInv(s), wire[s] # << >>,
           writer' = writer, taken'[s] = taken[s], buffer'[s] = buffer[s],
           todo'[s] = todo[s], got'[s] = got[s] \cup {Head(wire[s])},
           wire'[s] = Tail(wire[s])
    PROVE  StreamInv(s)' /\ Head(wire[s]) \in Of(taken[s])
  <1> DEFINE N == Of(taken[s])
             h == Head(wire[s])
  <1>1. wire[s] \in Seq(Envelope)
    BY Types
  <1>2. /\ h \in N /\ \A d \in N : Before(d, h) => d \in got[s]
        /\ Fed(wire'[s], N, got'[s])
    <2>1. Fed(wire[s], N, got[s])
      BY StreamNow
    <2> DEFINE w == wire[s]
               g == got[s]
    <2>2. Fed(w, N, g) /\ w \in Seq(Envelope) /\ w # << >>
      BY <1>1, <2>1
    <2> HIDE DEF N, w, g
    <2>3. /\ Head(w) \in N /\ \A d \in N : Before(d, Head(w)) => d \in g
          /\ Fed(Tail(w), N, g \cup {Head(w)})
      BY <2>2, FedTail
    <2> QED
      BY <2>3 DEF w, g
  <1>3. Items(wire[s]) = Items(wire'[s]) \cup {h}
    BY <1>1, HeadAndTail
  <1>4. got'[s] = got[s] \cup {h}
    OBVIOUS
  <1>5. /\ Closed(got[s], N) /\ N \subseteq got[s] \cup Items(buffer[s])
        /\ Fed(todo[s], N, got[s] \cup Items(wire[s]))
        /\ writer # "down" => N \subseteq got[s] \cup Items(wire[s]) \cup Items(todo[s])
    BY StreamNow
  <1> HIDE DEF N, h
  <1>6. Closed(got'[s], N)
    BY <1>2, <1>4, <1>5 DEF Closed
  <1>7. N \subseteq got'[s] \cup Items(buffer[s])
    BY <1>4, <1>5
  <1>8. Fed(todo[s], N, got'[s] \cup Items(wire'[s]))
    <2>1. got[s] \cup Items(wire[s]) \subseteq got'[s] \cup Items(wire'[s])
      BY <1>3, <1>4
    <2> QED
      BY <1>5, <2>1, FedMore
  <1>9. writer # "down" => N \subseteq got'[s] \cup Items(wire'[s]) \cup Items(todo[s])
    BY <1>3, <1>4, <1>5
  <1>10. StreamInv(s)'
    BY <1>2, <1>6, <1>7, <1>8, <1>9, StreamNow, StreamNext DEF N
  <1> QED
    BY <1>2, <1>10 DEF N, h

\* retain removes only what the backend has: all up to the cursor.
LEMMA StreamAcks ==
    ASSUME TypeOK, NEW s \in Streams, StreamInv(s), NEW cursor \in got[s],
           writer' = writer, taken'[s] = taken[s], got'[s] = got[s],
           wire'[s] = wire[s], todo'[s] = todo[s], buffer'[s] = Unacked(s, cursor)
    PROVE  /\ StreamInv(s)' /\ buffer'[s] \in Seq(Envelope)
           /\ Len(buffer'[s]) \in Nat /\ Len(buffer'[s]) <= Len(buffer[s])
  <1> DEFINE b == buffer[s]
             P == {i \in 1..Len(b) : ~IsAcked(b[i], cursor)}
             k == buffer'[s]
             N == Of(taken[s])
  <1>1. /\ b \in Seq(Envelope) /\ cursor \in Envelope /\ Len(b) \in Nat
        /\ \A i \in 1..Len(b) : b[i] \in Envelope
    BY Types
  <1>2. /\ k \in Seq(Envelope) /\ Len(k) \in Nat /\ Len(k) <= Len(b)
        /\ \A j \in 1..Len(k) : Place(P, j) \in P /\ k[j] = b[Place(P, j)]
        /\ \A i, j \in 1..Len(k) : i < j => Place(P, i) < Place(P, j)
        /\ \A i \in P : \E j \in 1..Len(k) : Place(P, j) = i
    <2>1. P \in SUBSET (1..Len(b)) /\ k = Subsequence(b, P)
      BY DEF Unacked
    <2> HIDE DEF P, k, b
    <2> QED
      BY <1>1, <2>1, SubsequenceFacts
  <1>3. \A i : i \in P <=> i \in 1..Len(b) /\ ~IsAcked(b[i], cursor)
    OBVIOUS
  <1>4. Closed(got[s], N) /\ Ordered(b, N) /\ N \subseteq got[s] \cup Items(b)
    BY StreamNow
  <1> HIDE DEF P, k, b, N
  <1>5. Ordered(k, N)
    <2>1. \A i, j \in 1..Len(k) : i < j => Before(k[i], k[j])
      BY <1>2, <1>3, <1>4 DEF Ordered
    <2>2. \A i \in 1..Len(k) : k[i] \in N
      BY <1>2, <1>3, <1>4 DEF Ordered
    <2> QED
      BY <2>1, <2>2 DEF Ordered
  <1>6. N \subseteq got[s] \cup Items(k)
    <2> SUFFICES ASSUME NEW e \in N, e \notin got[s] PROVE e \in Items(k)
      OBVIOUS
    <2>1. PICK i \in 1..Len(b) : b[i] = e
      BY <1>4 DEF Items
    <2>2. ~Before(e, cursor) /\ e # cursor
      BY <1>4 DEF Closed
    <2>3. ~IsAcked(b[i], cursor)
      BY <1>1, <2>1, <2>2, BeforeFacts
    <2>4. PICK j \in 1..Len(k) : Place(P, j) = i
      BY <1>2, <1>3, <2>3
    <2>5. k[j] = e
      BY <1>2, <2>1, <2>4
    <2> QED
      BY <2>5 DEF Items
  <1>7. StreamInv(s)'
    BY <1>5, <1>6, StreamNow, StreamNext DEF N, k
  <1> QED
    BY <1>2, <1>7 DEF k, b

\* A message is numbered when all that was numbered before it is written.
LEMMA StreamTakes ==
    ASSUME TypeOK, NEW s \in Streams, StreamInv(s), NEW m \in Message,
           writer # "down", todo[s] = << >>,
           taken'[s] = Append(taken[s], m), got'[s] = got[s], wire'[s] = wire[s],
           buffer'[s] = buffer[s] \o Split(Len(taken[s]) + 1, m),
           todo'[s] = Split(Len(taken[s]) + 1, m)
    PROVE  /\ StreamInv(s)' /\ buffer'[s] \in Seq(Envelope)
           /\ todo'[s] \in Seq(Envelope) /\ Len(buffer'[s]) = Len(buffer[s]) + m
  <1> DEFINE n == Len(taken[s]) + 1
             x == Split(n, m)
             b == buffer[s]
             k == b \o x
             N == Of(taken[s])
             M == Of(Append(taken[s], m))
             A == got[s] \cup Items(wire[s])
  <1>1. taken[s] \in Seq(Message) /\ b \in Seq(Envelope) /\ n \in Nat \ {0}
    BY Types
  <1>2. /\ m \in Nat /\ x \in Seq(Envelope) /\ Len(x) = m
        /\ \A i \in 1..m : x[i] = Env(n, i)
    BY <1>1, SplitFacts
  <1>3. /\ Closed(got[s], N) /\ Ordered(b, N) /\ N \subseteq got[s] \cup Items(b)
        /\ Fed(wire[s], N, got[s]) /\ N \subseteq A
    <2>1. Items(todo[s]) = {}
      BY FedEmpty
    <2> QED
      BY <2>1, StreamNow
  <1>4. /\ \A e : e \in M <=> e \in N \/ \E i \in 1..m : e = Env(n, i)
        /\ \A d \in N : \A i \in 1..m : ~Before(Env(n, i), d) /\ Before(d, Env(n, i))
        /\ \A i, j \in 1..m : Before(Env(n, i), Env(n, j)) <=> i < j
    BY <1>1, OfGrows
  <1> HIDE DEF x, n, M, N, b, A
  <1>5. /\ k \in Seq(Envelope) /\ Len(k) = Len(b) + m
        /\ \A i \in 1..Len(b) : k[i] = b[i]
        /\ \A i \in 1..Len(k) :
              \/ i \in 1..Len(b)
              \/ i - Len(b) \in 1..m /\ k[i] = x[i - Len(b)]
        /\ Items(k) = Items(b) \cup Items(x)
    <2>1. /\ k \in Seq(Envelope) /\ Len(k) = Len(b) + Len(x)
          /\ \A i \in 1..Len(b) : k[i] = b[i]
          /\ \A i \in 1..Len(k) :
                \/ i \in 1..Len(b)
                \/ i - Len(b) \in 1..Len(x) /\ k[i] = x[i - Len(b)]
          /\ Items(k) = Items(b) \cup Items(x)
      <3>1. b \in Seq(Envelope) /\ x \in Seq(Envelope)
        BY <1>1, <1>2
      <3> QED
        BY <3>1, ItemsOfConcat
    <2>2. Len(x) = m
      BY <1>2
    <2> HIDE DEF k
    <2> QED
      BY <2>1, <2>2
  <1>6. \A e : e \in M <=> e \in N \cup Items(x)
    <2>1. \A e : e \in Items(x) <=> \E i \in 1..m : e = Env(n, i)
      BY <1>2 DEF Items
    <2> QED
      BY <1>4, <2>1
  <1>7. Closed(got[s], M)
    BY <1>3, <1>4 DEF Closed
  <1>8. Fed(wire[s], M, got[s])
    BY <1>3, <1>4 DEF Fed
  <1>9. Ordered(k, M)
    <2>1. \A i \in 1..Len(k) : k[i] \in M
      BY <1>3, <1>5, <1>6 DEF Ordered, Items
    <2>2. ASSUME NEW i \in 1..Len(k), NEW j \in 1..Len(k), i < j
          PROVE  Before(k[i], k[j])
      <3>0. i \in Nat /\ j \in Nat /\ Len(b) \in Nat
        BY <1>1, <1>2, <1>5, LenProperties
      <3>1. CASE i \in 1..Len(b) /\ j \in 1..Len(b)
        <4>1. Before(b[i], b[j])
          BY <1>3, <2>2, <3>1 DEF Ordered
        <4> QED
          BY <1>5, <3>1, <4>1
      <3>2. CASE i \in 1..Len(b) /\ j - Len(b) \in 1..m /\ k[j] = x[j - Len(b)]
        <4>1. b[i] \in N /\ k[i] = b[i] /\ k[j] = Env(n, j - Len(b))
          BY <1>2, <1>3, <1>5, <3>2 DEF Ordered
        <4> QED
          BY <1>4, <3>2, <4>1
      <3>3. CASE /\ i - Len(b) \in 1..m /\ k[i] = x[i - Len(b)]
                 /\ j - Len(b) \in 1..m /\ k[j] = x[j - Len(b)]
        <4>1. i - Len(b) < j - Len(b)
          BY <2>2, <3>0
        <4>2. k[i] = Env(n, i - Len(b)) /\ k[j] = Env(n, j - Len(b))
          BY <1>2, <3>3
        <4> QED
          BY <1>4, <3>3, <4>1, <4>2
      <3>4. CASE i - Len(b) \in 1..m /\ j \in 1..Len(b)
        BY <1>2, <2>2, <3>0, <3>4
      <3> QED
        BY <1>5, <3>1, <3>2, <3>3, <3>4
    <2> QED
      BY <2>1, <2>2 DEF Ordered
  <1>10. M \subseteq got[s] \cup Items(k) /\ M \subseteq A \cup Items(x)
    BY <1>3, <1>5, <1>6
  <1>11. Fed(x, M, A)
    <2>1. \A i \in 1..m : x[i] \in M
      BY <1>2, <1>4
    <2>2. ASSUME NEW i \in 1..m, NEW d \in M, Before(d, x[i]), d \notin A
          PROVE  \E j \in 1..m : j < i /\ x[j] = d
      <3>1. d \notin N
        BY <1>3, <2>2
      <3>2. PICK j \in 1..m : d = Env(n, j)
        BY <1>4, <3>1
      <3> QED
        BY <1>2, <1>4, <2>2, <3>2
    <2> QED
      BY <1>2, <2>1, <2>2 DEF Fed
  <1>12. StreamInv(s)'
    <2>1. buffer'[s] = k /\ todo'[s] = x /\ Of(taken'[s]) = M
      BY DEF b, x, n, M
    <2> HIDE DEF k
    <2>2. Fed(todo'[s], Of(taken'[s]), got'[s] \cup Items(wire'[s]))
      BY <1>11, <2>1 DEF A
    <2>3. Of(taken'[s]) \subseteq got'[s] \cup Items(wire'[s]) \cup Items(todo'[s])
      BY <1>10, <2>1 DEF A
    <2> QED
      BY <1>7, <1>8, <1>9, <1>10, <2>1, <2>2, <2>3, StreamNext
  <1> QED
    BY <1>2, <1>5, <1>12 DEF b, x, n

-----------------------------------------------------------------------------
(* The places of the buffer                                                *)

Row(b, s) == {s} \X (1..Len(b[s]))

LEMMA RowFacts ==
    ASSUME NEW b \in [Streams -> Seq(Envelope)], NEW s \in Streams
    PROVE  /\ Len(b[s]) \in Nat /\ IsFiniteSet(Row(b, s))
           /\ Cardinality(Row(b, s)) = Len(b[s])
  <1>1. Len(b[s]) \in Nat
    BY LenProperties
  <1>2. IsFiniteSet(1..Len(b[s])) /\ Cardinality(1..Len(b[s])) = Len(b[s])
    BY <1>1, Counting
  <1>3. IsFiniteSet({s}) /\ Cardinality({s}) = 1
    BY FS_Singleton
  <1>4. /\ IsFiniteSet(Row(b, s))
        /\ Cardinality(Row(b, s)) = Cardinality({s}) * Cardinality(1..Len(b[s]))
    BY <1>2, <1>3, FS_Product DEF Row
  <1> QED
    BY <1>1, <1>2, <1>3, <1>4

\* A change to the buffer of one stream counts there only.
LEMMA PlacesChange ==
    ASSUME NEW b \in [Streams -> Seq(Envelope)], NEW c \in [Streams -> Seq(Envelope)],
           NEW s \in Streams, \A t \in Streams : t # s => c[t] = b[t]
    PROVE  /\ Cardinality(Places(b)) \in Nat /\ Cardinality(Places(c)) \in Nat
           /\ Cardinality(Places(c)) + Len(b[s]) = Cardinality(Places(b)) + Len(c[s])
           /\ Len(b[s]) \in Nat /\ Len(c[s]) \in Nat
  <1> DEFINE f == [t \in Streams \ {s} |-> Row(b, t)]
             rows == {f[t] : t \in Streams \ {s}}
             others == UNION rows
  <1>1. IsFiniteSet(others)
    <2>1. IsFiniteSet(Streams \ {s})
      BY FS_Subset
    <2>2. f \in Surjection(Streams \ {s}, rows)
      BY DEF Surjection
    <2>3. IsFiniteSet(rows)
      BY <2>1, <2>2, FS_Surjection
    <2>4. \A T \in rows : IsFiniteSet(T)
      BY RowFacts
    <2> HIDE DEF rows
    <2> QED
      BY <2>3, <2>4, FS_UNION
  <1>2. ASSUME NEW x \in [Streams -> Seq(Envelope)], \A t \in Streams : t # s => x[t] = b[t]
        PROVE  /\ Places(x) = others \cup Row(x, s) /\ others \cap Row(x, s) = {}
               /\ Cardinality(Places(x)) = Cardinality(others) + Len(x[s])
    <2>1. \A t \in Streams : t # s => Row(x, t) = f[t]
      BY <1>2 DEF Row
    <2>2. \A p : p \in Places(x) <=> \E t \in Streams : p \in Row(x, t)
      BY DEF Places, Row
    <2>3. \A p : p \in others <=> \E t \in Streams \ {s} : p \in f[t]
      OBVIOUS
    <2> HIDE DEF others, rows, f
    <2>4. ASSUME NEW p
          PROVE  p \in Places(x) <=> p \in others \/ p \in Row(x, s)
      <3>1. ASSUME p \in Places(x) PROVE p \in others \/ p \in Row(x, s)
        <4>1. PICK t \in Streams : p \in Row(x, t)
          BY <2>2, <3>1
        <4>2. CASE t # s
          BY <2>1, <2>3, <4>1, <4>2
        <4> QED
          BY <4>1, <4>2
      <3>2. ASSUME p \in others PROVE p \in Places(x)
        <4>1. PICK t \in Streams \ {s} : p \in f[t]
          BY <2>3, <3>2
        <4>2. t \in Streams /\ p \in Row(x, t)
          BY <2>1, <4>1
        <4> QED
          BY <2>2, <4>2
      <3> QED
        BY <2>2, <3>1, <3>2
    <2>5. \A t \in Streams : \A p \in Row(x, t) : p[1] = t
      BY DEF Row
    <2>6. ASSUME NEW p \in others PROVE p \notin Row(x, s)
      <3>1. PICK t \in Streams \ {s} : p \in f[t]
        BY <2>3
      <3>2. t \in Streams /\ t # s /\ p \in Row(x, t)
        BY <2>1, <3>1
      <3> QED
        BY <2>5, <3>2
    <2>7. Places(x) = others \cup Row(x, s) /\ others \cap Row(x, s) = {}
      BY <2>4, <2>6
    <2>8. /\ IsFiniteSet(Row(x, s)) /\ Cardinality(Row(x, s)) = Len(x[s])
          /\ Len(x[s]) \in Nat
      BY RowFacts
    <2>9. Cardinality(others \cup Row(x, s)) =
             Cardinality(others) + Cardinality(Row(x, s)) - Cardinality(others \cap Row(x, s))
      BY <1>1, <2>8, FS_Union
    <2>10. Cardinality(others \cap Row(x, s)) = 0 /\ Cardinality(others) \in Nat
      BY <1>1, <2>7, FS_EmptySet, FS_CardinalityType
    <2>11. Cardinality(others \cup Row(x, s)) = Cardinality(others) + Len(x[s])
      BY <2>8, <2>9, <2>10
    <2> QED
      BY <2>7, <2>11
  <1> HIDE DEF others
  <1>3. /\ Cardinality(Places(b)) = Cardinality(others) + Len(b[s])
        /\ Cardinality(Places(c)) = Cardinality(others) + Len(c[s])
    BY <1>2
  <1>4. Cardinality(others) \in Nat /\ Len(b[s]) \in Nat /\ Len(c[s]) \in Nat
    BY <1>1, FS_CardinalityType, RowFacts
  <1> QED
    BY <1>3, <1>4

LEMMA NoPlaces == Cardinality(Places(Nothing)) = 0
  <1>1. Places(Nothing) = {}
    <2>1. \A t \in Streams : Nothing[t] = << >>
      BY DEF Nothing
    <2>2. \A t \in Streams : {t} \X (1..Len(Nothing[t])) = {}
      BY <2>1
    <2> QED
      BY <2>2 DEF Places
  <1> QED
    BY <1>1, FS_EmptySet

-----------------------------------------------------------------------------
(* Every step                                                              *)

Step == TypeOK' /\ WriterInv' /\ (\A t \in Streams : StreamInv(t)') /\ BufferIsBounded'

LEMMA InvFacts ==
    ASSUME Inv
    PROVE  TypeOK /\ WriterInv /\ (\A t \in Streams : StreamInv(t)) /\ BufferIsBounded
  BY DEF Inv

LEMMA NothingFacts ==
    /\ Nothing \in [Streams -> Seq(Envelope)] /\ Nothing \in [Streams -> Seq(Message)]
    /\ \A t \in Streams : Nothing[t] = << >>
  BY DEF Nothing

LEMMA BoundKept ==
    ASSUME BufferIsBounded, UNCHANGED << used, buffer >>
    PROVE  BufferIsBounded'
  BY DEF BufferIsBounded, Places

LEMMA InitInv == Init => Inv
  <1> SUFFICES ASSUME Init PROVE Inv
    OBVIOUS
  <1>1. TypeOK
    BY NothingFacts DEF Init, TypeOK
  <1>2. WriterInv
    BY DEF Init, WriterInv
  <1>3. BufferIsBounded
    BY NoPlaces DEF Init, BufferIsBounded
  <1>4. ASSUME NEW s \in Streams PROVE StreamInv(s)
    <2>1. taken[s] = << >> /\ got[s] = {} /\ wire[s] = << >> /\ todo[s] = << >>
          /\ buffer[s] = << >> /\ writer = "down"
      BY NothingFacts DEF Init
    <2>2. Of(<< >>) = {}
      BY DEF Of
    <2>3. Numbered(s) = {}
      BY <2>1, <2>2, NumberedIsOf
    <2>4. Safe(s)
      BY <2>1, <2>3 DEF Safe, Closed, Ordered
    <2>5. Flowing(s)
      BY <2>1, <2>3, FedEmpty DEF Flowing
    <2> QED
      BY <2>4, <2>5 DEF StreamInv
  <1> QED
    BY <1>1, <1>2, <1>3, <1>4 DEF Inv

LEMMA EnqueueStep ==
    ASSUME Inv, NEW s \in Streams, Enqueue(s)
    PROVE  Step
  <1>1. PICK m \in Message : queue' = Append(queue, [stream |-> s, message |-> m])
    BY DEF Enqueue
  <1>2. UNCHANGED << taken, buffer, used, writer, todo, wire, got, breaks >>
    BY DEF Enqueue
  <1>3. [stream |-> s, message |-> m] \in QueueEntry
    BY DEF QueueEntry
  <1>4. queue' \in Seq(QueueEntry)
    BY <1>1, <1>3, InvFacts, AppendProperties DEF TypeOK
  <1>5. TypeOK'
    BY <1>2, <1>4, InvFacts DEF TypeOK
  <1>6. WriterInv' /\ BufferIsBounded'
    BY <1>2, InvFacts, BoundKept DEF WriterInv
  <1>7. ASSUME NEW t \in Streams PROVE StreamInv(t)'
    BY <1>2, InvFacts, StreamKept
  <1> QED
    BY <1>5, <1>6, <1>7 DEF Step

LEMMA ConnectStep ==
    ASSUME Inv, Connect
    PROVE  Step
  <1>1. /\ writer = "down" /\ writer' = "resending" /\ todo' = buffer
        /\ UNCHANGED << queue, taken, buffer, used, wire, got, breaks >>
    BY DEF Connect
  <1>2. TypeOK'
    BY <1>1, InvFacts DEF TypeOK
  <1>3. WriterInv' /\ BufferIsBounded'
    BY <1>1, InvFacts, BoundKept DEF WriterInv
  <1>4. wire = Nothing
    BY <1>1, InvFacts DEF WriterInv
  <1>5. ASSUME NEW t \in Streams PROVE StreamInv(t)'
    BY <1>1, <1>4, NothingFacts, InvFacts, StreamConnects
  <1> QED
    BY <1>2, <1>3, <1>5 DEF Step

LEMMA StartServingStep ==
    ASSUME Inv, StartServing
    PROVE  Step
  <1>1. /\ writer = "resending" /\ writer' = "waiting" /\ todo = Nothing
        /\ UNCHANGED << queue, taken, buffer, used, todo, wire, got, breaks >>
    BY DEF StartServing
  <1>2. TypeOK'
    BY <1>1, InvFacts DEF TypeOK
  <1>3. WriterInv' /\ BufferIsBounded'
    BY <1>1, InvFacts, BoundKept DEF WriterInv, Nothing
  <1>4. ASSUME NEW t \in Streams PROVE StreamInv(t)'
    BY <1>1, InvFacts, StreamKept
  <1> QED
    BY <1>2, <1>3, <1>4 DEF Step

LEMMA BreakStep ==
    ASSUME Inv, Break
    PROVE  Step
  <1>1. /\ writer' = "down" /\ todo' = Nothing /\ wire' = Nothing
        /\ breaks < MaxBreaks /\ breaks' = breaks + 1
        /\ UNCHANGED << queue, taken, buffer, used, got >>
    BY DEF Break
  <1>2. breaks' \in 0..MaxBreaks
    BY <1>1, InvFacts DEF TypeOK
  <1>3. TypeOK'
    BY <1>1, <1>2, NothingFacts, InvFacts DEF TypeOK
  <1>4. WriterInv' /\ BufferIsBounded'
    BY <1>1, InvFacts, BoundKept DEF WriterInv, Nothing
  <1>5. ASSUME NEW t \in Streams PROVE StreamInv(t)'
    BY <1>1, NothingFacts, InvFacts, StreamBreaks
  <1> QED
    BY <1>3, <1>4, <1>5 DEF Step

LEMMA WriteStep ==
    ASSUME Inv, NEW s \in Streams, Write(s)
    PROVE  Step
  <1>1. /\ writer \in {"resending", "writing"} /\ todo[s] # << >>
        /\ wire' = [wire EXCEPT ![s] = Append(wire[s], Head(todo[s]))]
        /\ todo' = [todo EXCEPT ![s] = Tail(todo[s])]
        /\ writer' = IF writer = "writing" /\ todo' = Nothing THEN "waiting" ELSE writer
        /\ UNCHANGED << queue, taken, buffer, used, got, breaks >>
    BY DEF Write
  <1>2. /\ wire \in [Streams -> Seq(Envelope)] /\ todo \in [Streams -> Seq(Envelope)]
        /\ wire[s] \in Seq(Envelope) /\ todo[s] \in Seq(Envelope)
    BY InvFacts DEF TypeOK
  <1>3. /\ Head(todo[s]) \in Envelope /\ Tail(todo[s]) \in Seq(Envelope)
        /\ Append(wire[s], Head(todo[s])) \in Seq(Envelope)
    BY <1>1, <1>2, HeadTailProperties, AppendProperties
  <1>4. /\ wire' \in [Streams -> Seq(Envelope)] /\ todo' \in [Streams -> Seq(Envelope)]
        /\ wire'[s] = Append(wire[s], Head(todo[s])) /\ todo'[s] = Tail(todo[s])
        /\ \A t \in Streams : t # s => wire'[t] = wire[t] /\ todo'[t] = todo[t]
    BY <1>1, <1>2, <1>3
  <1>5. /\ writer' \in {"resending", "writing", "waiting"}
        /\ writer' = "waiting" => todo' = Nothing
    BY <1>1
  <1>6. TypeOK'
    BY <1>1, <1>4, <1>5, InvFacts DEF TypeOK
  <1>7. WriterInv' /\ BufferIsBounded'
    BY <1>1, <1>5, InvFacts, BoundKept DEF WriterInv, Nothing
  <1>8. ASSUME NEW t \in Streams PROVE StreamInv(t)'
    <2>1. CASE t = s
      BY <1>1, <1>4, <2>1, InvFacts, StreamWrites
    <2>2. CASE t # s
      BY <1>1, <1>4, <2>2, InvFacts, StreamKept
    <2> QED
      BY <2>1, <2>2
  <1> QED
    BY <1>6, <1>7, <1>8 DEF Step

LEMMA ReceiveStep ==
    ASSUME Inv, NEW s \in Streams, Receive(s)
    PROVE  Step /\ Head(wire[s]) \in Of(taken[s])
  <1>1. /\ wire[s] # << >>
        /\ got' = [got EXCEPT ![s] = got[s] \cup {Head(wire[s])}]
        /\ wire' = [wire EXCEPT ![s] = Tail(wire[s])]
        /\ UNCHANGED << queue, taken, buffer, used, writer, todo, breaks >>
    BY DEF Receive
  <1>2. /\ wire \in [Streams -> Seq(Envelope)] /\ got \in [Streams -> SUBSET Envelope]
        /\ wire[s] \in Seq(Envelope)
    BY InvFacts DEF TypeOK
  <1>3. Head(wire[s]) \in Envelope /\ Tail(wire[s]) \in Seq(Envelope)
    BY <1>1, <1>2, HeadTailProperties
  <1>4. /\ wire' \in [Streams -> Seq(Envelope)] /\ got' \in [Streams -> SUBSET Envelope]
        /\ wire'[s] = Tail(wire[s]) /\ got'[s] = got[s] \cup {Head(wire[s])}
        /\ \A t \in Streams : t # s => wire'[t] = wire[t] /\ got'[t] = got[t]
    BY <1>1, <1>2, <1>3
  <1>5. TypeOK'
    BY <1>1, <1>4, InvFacts DEF TypeOK
  <1>6. WriterInv' /\ BufferIsBounded'
    <2>1. writer # "down"
      BY <1>1, InvFacts, NothingFacts DEF WriterInv
    <2> QED
      BY <1>1, <2>1, InvFacts, BoundKept DEF WriterInv, Nothing
  <1>7. StreamInv(s)' /\ Head(wire[s]) \in Of(taken[s])
    BY <1>1, <1>4, InvFacts, StreamReceives
  <1>8. ASSUME NEW t \in Streams PROVE StreamInv(t)'
    <2>1. CASE t # s
      BY <1>1, <1>4, <2>1, InvFacts, StreamKept
    <2> QED
      BY <1>7, <2>1
  <1> QED
    BY <1>5, <1>6, <1>7, <1>8 DEF Step

LEMMA AckStep ==
    ASSUME Inv, NEW s \in Streams, Ack(s)
    PROVE  Step
  <1>1. PICK cursor \in got[s] :
             /\ buffer' = [buffer EXCEPT ![s] = Unacked(s, cursor)]
             /\ used' = used - (Len(buffer[s]) - Len(Unacked(s, cursor)))
    BY DEF Ack
  <1>2. UNCHANGED << queue, taken, writer, todo, wire, got, breaks >>
    BY DEF Ack
  <1>3. /\ buffer \in [Streams -> Seq(Envelope)] /\ Len(buffer[s]) \in Nat /\ used \in Nat
    BY InvFacts, Types DEF TypeOK
  <1>4. /\ buffer'[s] = Unacked(s, cursor)
        /\ \A t \in Streams : t # s => buffer'[t] = buffer[t]
    BY <1>1, <1>3
  <1>5. /\ StreamInv(s)' /\ buffer'[s] \in Seq(Envelope)
        /\ Len(buffer'[s]) \in Nat /\ Len(buffer'[s]) <= Len(buffer[s])
    BY <1>2, <1>4, InvFacts, StreamAcks
  <1>6. buffer' \in [Streams -> Seq(Envelope)]
    BY <1>1, <1>3, <1>4, <1>5
  <1>7. /\ used' = used - (Len(buffer[s]) - Len(buffer'[s]))
        /\ used = Cardinality(Places(buffer)) /\ used < Capacity + MaxSegments
    BY <1>1, <1>4, InvFacts DEF BufferIsBounded
  <1>8. /\ Cardinality(Places(buffer')) + Len(buffer[s]) =
             Cardinality(Places(buffer)) + Len(buffer'[s])
        /\ Cardinality(Places(buffer')) \in Nat
    BY <1>3, <1>4, <1>6, PlacesChange
  <1>9. /\ used' = Cardinality(Places(buffer')) /\ used' \in Nat
        /\ used' < Capacity + MaxSegments
    BY <1>3, <1>5, <1>7, <1>8
  <1>10. BufferIsBounded'
    BY <1>9 DEF BufferIsBounded, Places
  <1>11. TypeOK' /\ WriterInv'
    BY <1>2, <1>6, <1>9, InvFacts DEF TypeOK, WriterInv, Nothing
  <1>12. ASSUME NEW t \in Streams PROVE StreamInv(t)'
    <2>1. CASE t # s
      BY <1>2, <1>4, <2>1, InvFacts, StreamKept
    <2> QED
      BY <1>5, <2>1
  <1> QED
    BY <1>10, <1>11, <1>12 DEF Step

LEMMA TakeStep ==
    ASSUME Inv, Take
    PROVE  Step
  <1>1. /\ queue # << >> /\ queue \in Seq(QueueEntry) /\ Head(queue) \in QueueEntry
        /\ Tail(queue) \in Seq(QueueEntry)
    BY InvFacts, HeadTailProperties DEF TypeOK, Take
  <1>2. PICK s \in Streams, m \in Message :
             s = Head(queue).stream /\ m = Head(queue).message
    BY <1>1 DEF QueueEntry
  <1> DEFINE x == Split(Len(taken[s]) + 1, m)
  <1>3. /\ writer = "waiting" /\ used < Capacity
        /\ taken' = [taken EXCEPT ![s] = Append(taken[s], m)]
        /\ buffer' = [buffer EXCEPT ![s] = buffer[s] \o x]
        /\ used' = used + Len(x)
        /\ todo' = [todo EXCEPT ![s] = x]
        /\ queue' = Tail(queue)
        /\ writer' = IF todo' = Nothing THEN "waiting" ELSE "writing"
        /\ UNCHANGED << wire, got, breaks >>
    BY <1>2 DEF Take, HasCapacity
  <1>4. /\ taken \in [Streams -> Seq(Message)] /\ buffer \in [Streams -> Seq(Envelope)]
        /\ todo \in [Streams -> Seq(Envelope)] /\ used \in Nat
        /\ taken[s] \in Seq(Message) /\ Len(taken[s]) + 1 \in Nat \ {0}
    BY InvFacts, Types DEF TypeOK
  <1>5. m \in Nat /\ m <= MaxSegments /\ Len(x) = m /\ x \in Seq(Envelope)
    BY <1>4, SplitFacts
  <1>6. /\ taken'[s] = Append(taken[s], m) /\ buffer'[s] = buffer[s] \o x /\ todo'[s] = x
        /\ \A t \in Streams : t # s => /\ taken'[t] = taken[t] /\ buffer'[t] = buffer[t]
                                        /\ todo'[t] = todo[t]
    BY <1>3, <1>4
  <1>7. todo[s] = << >>
    BY <1>3, InvFacts, NothingFacts DEF WriterInv
  <1>8. /\ StreamInv(s)' /\ buffer'[s] \in Seq(Envelope)
        /\ Len(buffer'[s]) = Len(buffer[s]) + m
    BY <1>3, <1>6, <1>7, InvFacts, StreamTakes
  <1> HIDE DEF x
  <1>9. /\ taken' \in [Streams -> Seq(Message)] /\ buffer' \in [Streams -> Seq(Envelope)]
        /\ todo' \in [Streams -> Seq(Envelope)]
    <2>1. Append(taken[s], m) \in Seq(Message)
      BY <1>4, AppendProperties
    <2> QED
      BY <1>3, <1>4, <1>5, <1>6, <1>8, <2>1
  <1>10. /\ Cardinality(Places(buffer')) + Len(buffer[s]) =
              Cardinality(Places(buffer)) + Len(buffer'[s])
         /\ Cardinality(Places(buffer')) \in Nat /\ Len(buffer[s]) \in Nat
    BY <1>4, <1>6, <1>9, PlacesChange
  <1>11. used = Cardinality(Places(buffer))
    BY InvFacts DEF BufferIsBounded
  <1>12. /\ used' = Cardinality(Places(buffer')) /\ used' \in Nat
         /\ used' < Capacity + MaxSegments
    <2>1. used' = used + m /\ used < Capacity
      BY <1>3, <1>5
    <2> QED
      BY SMTT(30), <1>4, <1>5, <1>8, <1>10, <1>11, <2>1
  <1>13. BufferIsBounded'
    BY <1>12 DEF BufferIsBounded, Places
  <1>14. writer' \in {"waiting", "writing"} /\ (writer' = "waiting" => todo' = Nothing)
    BY <1>3
  <1>15. TypeOK' /\ WriterInv'
    BY <1>1, <1>3, <1>9, <1>12, <1>14, InvFacts DEF TypeOK, WriterInv, Nothing
  <1>16. ASSUME NEW t \in Streams PROVE StreamInv(t)'
    <2>1. CASE t # s
      BY <1>3, <1>6, <2>1, InvFacts, StreamKept
    <2> QED
      BY <1>8, <2>1
  <1> QED
    BY <1>13, <1>15, <1>16 DEF Step

LEMMA InvNext ==
    ASSUME Step
    PROVE  Inv'
  BY DEF Step, Inv

LEMMA Stutters ==
    ASSUME Inv, UNCHANGED vars
    PROVE  Step
  <1>1. UNCHANGED << queue, taken, buffer, used, writer, todo, wire, got, breaks >>
    BY DEF vars
  <1>2. TypeOK' /\ WriterInv' /\ BufferIsBounded'
    BY <1>1, InvFacts, BoundKept DEF TypeOK, WriterInv, Nothing
  <1>3. ASSUME NEW t \in Streams PROVE StreamInv(t)'
    BY <1>1, InvFacts, StreamKept
  <1> QED
    BY <1>2, <1>3 DEF Step

LEMMA InvStep == Inv /\ [Next]_vars => Inv'
  <1> SUFFICES ASSUME Inv, [Next]_vars PROVE Step
    BY InvNext
  <1>1. CASE UNCHANGED vars
    BY <1>1, Stutters
  <1>2. ASSUME NEW s \in Streams, Enqueue(s) PROVE Step
    BY <1>2, EnqueueStep
  <1>3. ASSUME NEW s \in Streams, Write(s) PROVE Step
    BY <1>3, WriteStep
  <1>4. ASSUME NEW s \in Streams, Receive(s) PROVE Step
    BY <1>4, ReceiveStep
  <1>5. ASSUME NEW s \in Streams, Ack(s) PROVE Step
    BY <1>5, AckStep
  <1>6. CASE Connect
    BY <1>6, ConnectStep
  <1>7. CASE StartServing
    BY <1>7, StartServingStep
  <1>8. CASE Take
    BY <1>8, TakeStep
  <1>9. CASE Break
    BY <1>9, BreakStep
  <1> QED
    BY <1>1, <1>2, <1>3, <1>4, <1>5, <1>6, <1>7, <1>8, <1>9 DEF Next

LEMMA AlwaysInv == Spec => []Inv
  BY InitInv, InvStep, PTL DEF Spec

-----------------------------------------------------------------------------
(* The invariants that the run checks                                      *)

\* The variables of the transport keep their types: every buffered, pending,
\* written and received envelope has a number from 1 and a segment, and the
\* counter of the buffer never goes below 0 (BoundedOutboundBuffer::ack).
THEOREM TypeCorrect == Spec => []TypeOK
  <1>1. Inv => TypeOK
    BY DEF Inv
  <1> QED
    BY <1>1, AlwaysInv, PTL

\* Whatever connections break and however late the acknowledgements come, an
\* envelope that the backend does not have is still in the outbound buffer
\* (BoundedOutboundBuffer::ack, run_server_writer_inner).
THEOREM NothingIsForgotten == Spec => []NothingUnreceivedIsForgotten
  <1>1. Inv => NothingUnreceivedIsForgotten
    <2> SUFFICES ASSUME Inv, NEW s \in Streams, NEW e \in Numbered(s)
                 PROVE  e \in got[s] \/ \E i \in 1..Len(buffer[s]) : buffer[s][i] = e
      BY DEF NothingUnreceivedIsForgotten
    <2>1. Numbered(s) \subseteq got[s] \cup Items(buffer[s])
      BY InvFacts DEF StreamInv, Safe
    <2> QED
      BY <2>1 DEF Items
  <1> QED
    BY <1>1, AlwaysInv, PTL

\* What the backend has of a stream is always a beginning of what was numbered
\* on it: the next connection writes from the buffer in the order of the
\* numbers, so it never leaves out what an earlier one lost
\* (run_server_writer_inner, server_envelopes).
THEOREM TheBackendSeesNoGaps == Spec => []NoGaps
  <1>1. Inv => NoGaps
    <2> SUFFICES ASSUME Inv, NEW s \in Streams PROVE Closed(got[s], Numbered(s))
      BY DEF NoGaps, Closed
    <2> QED
      BY InvFacts DEF StreamInv, Safe
  <1> QED
    BY <1>1, AlwaysInv, PTL

\* The counter on which the writer waits is the number of buffered envelopes,
\* and the buffer exceeds its capacity by less than one message
\* (BoundedOutboundBuffer::insert and ack, run_server_writer_inner).
THEOREM TheBufferIsBounded == Spec => []BufferIsBounded
  <1>1. Inv => BufferIsBounded
    BY DEF Inv
  <1> QED
    BY <1>1, AlwaysInv, PTL

-----------------------------------------------------------------------------
(* OrderedDelivery                                                         *)

PlacesOf(q, s) == {i \in 1..Len(q) : q[i].stream = s}
QueuedIn(q, s) == Subsequence(q, PlacesOf(q, s))
Messages(x) == [i \in 1..Len(x) |-> x[i].message]
CompleteOf(t, G) ==
    {n \in 1..Len(t) :
        t[n] > 0 /\ \A g \in 1..t[n] : Split(n, t[n])[g] \in G}
Last(t, G) == Max(CompleteOf(t, G) \cup {0})

LEMMA AcceptedIs ==
    /\ Accepted = [s \in Streams |-> taken[s] \o Messages(QueuedIn(queue, s))]
    /\ Accepted' = [s \in Streams |-> taken'[s] \o Messages(QueuedIn(queue', s))]
  BY DEF Accepted, Queued, Messages, QueuedIn, PlacesOf

LEMMA DeliveredIs ==
    /\ Delivered = [s \in Streams |-> Last(taken[s], got[s])]
    /\ Delivered' = [s \in Streams |-> Last(taken'[s], got'[s])]
  BY DEF Delivered, Complete, Last, CompleteOf

LEMMA MessagesFacts ==
    ASSUME NEW x \in Seq(QueueEntry)
    PROVE  /\ Messages(x) \in Seq(Message) /\ Len(Messages(x)) = Len(x)
           /\ Len(x) \in Nat
           /\ \A i \in 1..Len(x) : Messages(x)[i] = x[i].message
  <1>1. Len(x) \in Nat /\ \A i \in 1..Len(x) : x[i] \in QueueEntry
    BY LenProperties, ElementOfSeq
  <1>2. Messages(x) \in [1..Len(x) -> Message]
    BY <1>1 DEF Messages, QueueEntry
  <1>3. Messages(x) \in Seq(Message) /\ Len(Messages(x)) = Len(x)
    BY <1>1, <1>2
  <1> QED
    BY <1>1, <1>3 DEF Messages

LEMMA QueuedFacts ==
    ASSUME NEW q \in Seq(QueueEntry), NEW s \in Streams
    PROVE  /\ PlacesOf(q, s) \in SUBSET (1..Len(q))
           /\ QueuedIn(q, s) \in Seq(QueueEntry)
           /\ Messages(QueuedIn(q, s)) \in Seq(Message)
           /\ Len(QueuedIn(q, s)) = Cardinality(PlacesOf(q, s))
  <1>1. PlacesOf(q, s) \in SUBSET (1..Len(q))
    BY DEF PlacesOf
  <1>2. /\ QueuedIn(q, s) \in Seq(QueueEntry)
        /\ Len(QueuedIn(q, s)) = Cardinality(PlacesOf(q, s))
    BY <1>1, SubsequenceFacts DEF QueuedIn
  <1> QED
    BY <1>1, <1>2, MessagesFacts

\* An entry is added to the queue.
LEMMA QueueGrows ==
    ASSUME NEW q \in Seq(QueueEntry), NEW s \in Streams, NEW e \in QueueEntry,
           NEW t \in Seq(Message)
    PROVE  /\ e.stream # s => QueuedIn(Append(q, e), s) = QueuedIn(q, s)
           /\ e.stream = s =>
                t \o Messages(QueuedIn(Append(q, e), s))
                  = Append(t \o Messages(QueuedIn(q, s)), e.message)
  <1> DEFINE P == PlacesOf(q, s)
             a == Append(q, e)
             x == QueuedIn(q, s)
  <1>1. /\ Len(q) \in Nat /\ Len(a) = Len(q) + 1 /\ a[Len(q) + 1] = e
        /\ \A i \in 1..Len(q) : a[i] = q[i]
    BY LenProperties, AppendProperties
  <1>2. P \in SUBSET (1..Len(q)) /\ x \in Seq(QueueEntry)
    BY QueuedFacts
  <1> HIDE DEF a
  <1>3. ASSUME e.stream # s PROVE PlacesOf(a, s) = P
    <2>1. \A i : i \in PlacesOf(a, s) <=> i \in P
      BY <1>1, <1>3 DEF PlacesOf
    <2> QED
      BY <2>1 DEF PlacesOf
  <1>4. ASSUME e.stream = s PROVE PlacesOf(a, s) = P \cup {Len(q) + 1}
    <2>1. \A i : i \in PlacesOf(a, s) <=> i \in P \cup {Len(q) + 1}
      BY <1>1, <1>4 DEF PlacesOf
    <2> QED
      BY <2>1
  <1>5. ASSUME e.stream = s
        PROVE  t \o Messages(QueuedIn(a, s)) = Append(t \o Messages(x), e.message)
    <2> DEFINE y == Append(x, e)
    <2>1. QueuedIn(a, s) = y
      BY <1>2, <1>4, <1>5, AppendInside DEF QueuedIn, a
    <2>2. /\ y \in Seq(QueueEntry) /\ Len(y) = Len(x) + 1 /\ y[Len(x) + 1] = e
          /\ \A i \in 1..Len(x) : y[i] = x[i]
      BY <1>2, AppendProperties
    <2> HIDE DEF y
    <2>3. e.message \in Message
      BY DEF QueueEntry
    <2>4. Messages(y) = Append(Messages(x), e.message)
      <3>1. /\ Append(Messages(x), e.message) \in Seq(Message)
            /\ Len(Append(Messages(x), e.message)) = Len(x) + 1
            /\ Append(Messages(x), e.message)[Len(x) + 1] = e.message
            /\ \A i \in 1..Len(x) : Append(Messages(x), e.message)[i] = x[i].message
        BY <1>2, <2>3, MessagesFacts, AppendProperties
      <3>2. /\ Messages(y) \in Seq(Message) /\ Len(Messages(y)) = Len(x) + 1
            /\ Len(x) \in Nat
            /\ \A i \in 1..Len(x) + 1 : Messages(y)[i] = y[i].message
        BY <1>2, <2>2, MessagesFacts
      <3>3. \A i \in 1..Len(x) + 1 : i \in 1..Len(x) \/ i = Len(x) + 1
        BY <3>2
      <3>4. \A i \in 1..Len(x) + 1 : Messages(y)[i] = Append(Messages(x), e.message)[i]
        BY <2>2, <3>1, <3>2, <3>3
      <3> QED
        BY <3>1, <3>2, <3>4, SeqEqual
    <2>5. \A u \in Seq(Message) : t \o Append(u, e.message) = Append(t \o u, e.message)
      <3> TAKE u \in Seq(Message)
      <3>1. /\ << e.message >> \in Seq(Message) /\ t \o u \in Seq(Message)
            /\ Append(u, e.message) = u \o << e.message >>
            /\ Append(t \o u, e.message) = (t \o u) \o << e.message >>
        BY <2>3, ConcatProperties, AppendIsConcat
      <3> QED
        BY <3>1, ConcatAssociative
    <2>6. Messages(x) \in Seq(Message)
      BY <1>2, MessagesFacts
    <2> QED
      BY <2>1, <2>4, <2>5, <2>6
  <1>6. ASSUME e.stream # s PROVE QueuedIn(a, s) = x
    BY <1>2, <1>3, <1>6, AppendOutside DEF QueuedIn, a
  <1> QED
    BY <1>5, <1>6 DEF a, x

\* The head of the queue becomes the last message that was numbered.
LEMMA QueueMoves ==
    ASSUME NEW q \in Seq(QueueEntry), q # << >>, NEW s \in Streams,
           NEW t \in Seq(Message)
    PROVE  /\ Head(q).stream # s => QueuedIn(Tail(q), s) = QueuedIn(q, s)
           /\ Head(q).stream = s =>
                Append(t, Head(q).message) \o Messages(QueuedIn(Tail(q), s))
                  = t \o Messages(QueuedIn(q, s))
  <1> DEFINE P == PlacesOf(q, s)
             x == QueuedIn(q, s)
             r == Tail(q)
  <1>1. /\ Len(q) \in Nat \ {0} /\ Head(q) = q[1] /\ Head(q) \in QueueEntry
        /\ r \in Seq(QueueEntry) /\ Len(r) = Len(q) - 1
        /\ \A i \in 1..Len(r) : r[i] = q[i + 1]
    BY EmptySeq, HeadTailProperties
  <1>2. P \in SUBSET (1..Len(q)) /\ x \in Seq(QueueEntry)
    BY QueuedFacts
  <1>3. 1 \in P <=> Head(q).stream = s
    BY <1>1 DEF PlacesOf
  <1>4. PlacesOf(r, s) = TailPlaces(P)
    <2> HIDE DEF r
    <2>1. ASSUME NEW i \in PlacesOf(r, s) PROVE i \in TailPlaces(P)
      <3>1. i \in 1..Len(r) /\ r[i].stream = s
        BY DEF PlacesOf
      <3>2. i + 1 \in 1..Len(q) /\ i + 1 # 1 /\ i = (i + 1) - 1
        BY <1>1, <3>1
      <3>3. q[i + 1].stream = s
        BY <1>1, <3>1
      <3>4. i + 1 \in P \ {1}
        BY <3>2, <3>3 DEF PlacesOf
      <3> QED
        BY <3>2, <3>4 DEF TailPlaces
    <2>2. ASSUME NEW i \in TailPlaces(P) PROVE i \in PlacesOf(r, s)
      <3>1. PICK j \in P \ {1} : i = j - 1
        BY DEF TailPlaces
      <3>2. j \in 1..Len(q) /\ j # 1 /\ q[j].stream = s
        BY <3>1 DEF PlacesOf
      <3>3. i \in 1..Len(r) /\ i + 1 = j
        BY <1>1, <3>1, <3>2
      <3>4. r[i].stream = s
        BY <1>1, <3>2, <3>3
      <3> QED
        BY <3>3, <3>4 DEF PlacesOf
    <2> QED
      BY <2>1, <2>2
  <1>5. ASSUME Head(q).stream # s PROVE QueuedIn(r, s) = x
    BY <1>2, <1>3, <1>4, <1>5, TailFacts DEF QueuedIn
  <1>6. ASSUME Head(q).stream = s
        PROVE  Append(t, Head(q).message) \o Messages(QueuedIn(r, s)) = t \o Messages(x)
    <2>1. /\ x # << >> /\ Head(x) = Head(q) /\ QueuedIn(r, s) = Tail(x)
      BY <1>2, <1>3, <1>4, <1>6, TailFacts DEF QueuedIn
    <2> HIDE DEF x, r
    <2> DEFINE y == Tail(x)
               m == Head(q).message
    <2>2. /\ Len(x) \in Nat \ {0} /\ x[1] = Head(q) /\ y \in Seq(QueueEntry)
          /\ Len(y) = Len(x) - 1 /\ \A i \in 1..Len(y) : y[i] = x[i + 1]
      BY <1>2, <2>1, EmptySeq, HeadTailProperties
    <2>3. m \in Message
      BY <1>1 DEF QueueEntry
    <2> HIDE DEF y, m
    <2>4. /\ Messages(x) \in Seq(Message) /\ Len(Messages(x)) = Len(x)
          /\ (\A i \in 1..Len(x) : Messages(x)[i] = x[i].message)
          /\ Messages(y) \in Seq(Message) /\ Len(Messages(y)) = Len(y)
          /\ (\A i \in 1..Len(y) : Messages(y)[i] = y[i].message)
      BY <1>2, <2>2, MessagesFacts
    <2>5. Messages(x) = << m >> \o Messages(y)
      <3>1. << m >> \in Seq(Message) /\ Len(<< m >>) = 1 /\ << m >>[1] = m
        BY <2>3
      <3>2. /\ << m >> \o Messages(y) \in Seq(Message)
            /\ Len(<< m >> \o Messages(y)) = Len(x)
            /\ \A i \in 1..Len(x) : (<< m >> \o Messages(y))[i] =
                    IF i <= 1 THEN m ELSE Messages(y)[i - 1]
        BY <2>2, <2>4, <3>1, ConcatProperties
      <3>3. ASSUME NEW i \in 1..Len(x) PROVE Messages(x)[i] = (<< m >> \o Messages(y))[i]
        <4>1. CASE i = 1
          BY <2>2, <2>4, <3>2, <4>1 DEF m
        <4>2. CASE i # 1
          <5>1. i - 1 \in 1..Len(y) /\ (i - 1) + 1 = i /\ ~(i <= 1)
            BY <2>2, <4>2
          <5>2. Messages(y)[i - 1] = x[i].message
            BY <2>2, <2>4, <5>1
          <5> QED
            BY <2>4, <3>2, <5>1, <5>2
        <4> QED
          BY <4>1, <4>2
      <3> QED
        BY <2>4, <3>2, <3>3, SeqEqual
    <2>6. Append(t, m) = t \o << m >> /\ << m >> \in Seq(Message)
      BY <2>3, AppendIsConcat
    <2> QED
      BY SMTT(30), <2>1, <2>4, <2>5, <2>6, ConcatAssociative DEF y, m
  <1> QED
    BY <1>5, <1>6 DEF x, r

LEMMA MaxIs ==
    ASSUME NEW T, T \subseteq Nat, NEW x \in T, \A y \in T : y <= x
    PROVE  Max(T) = x
  <1>1. \A y \in T : x >= y
    OBVIOUS
  <1>2. \A z \in T : (\A y \in T : z >= y) => z = x
    OBVIOUS
  <1> QED
    BY <1>1, <1>2 DEF Max

LEMMA LastFacts ==
    ASSUME NEW t \in Seq(Message), NEW G
    PROVE  /\ CompleteOf(t, G) \subseteq 1..Len(t) /\ Len(t) \in Nat
           /\ Last(t, G) \in CompleteOf(t, G) \cup {0} /\ Last(t, G) \in Nat
           /\ \A n \in CompleteOf(t, G) : n <= Last(t, G)
  <1> DEFINE T == CompleteOf(t, G) \cup {0}
  <1>1. CompleteOf(t, G) \subseteq 1..Len(t) /\ Len(t) \in Nat
    BY LenProperties DEF CompleteOf
  <1>2. T \subseteq Nat /\ T # {} /\ \A x \in T : x <= Len(t)
    BY <1>1
  <1>3. PICK x \in T : \A y \in T : y <= x
    BY <1>1, <1>2, GreatestNumber
  <1>4. Last(t, G) = x
    BY <1>2, <1>3, MaxIs DEF Last
  <1> QED
    BY <1>1, <1>2, <1>3, <1>4

LEMMA CompleteMeans ==
    ASSUME NEW t \in Seq(Message), NEW G, NEW n
    PROVE  n \in CompleteOf(t, G) <=>
              n \in 1..Len(t) /\ t[n] > 0 /\ \A g \in 1..t[n] : Env(n, g) \in G
  <1>1. \A k \in 1..Len(t) : \A g \in 1..t[k] : Split(k, t[k])[g] = Env(k, g)
    BY OfFacts, SplitFacts
  <1> QED
    BY <1>1 DEF CompleteOf

\* A message that is numbered later is not complete before it is written.
LEMMA LastOfMore ==
    ASSUME NEW t \in Seq(Message), NEW m \in Message, NEW G, G \subseteq Of(t)
    PROVE  Last(Append(t, m), G) = Last(t, G)
  <1> DEFINE u == Append(t, m)
  <1>1. /\ u \in Seq(Message) /\ Len(u) = Len(t) + 1 /\ u[Len(t) + 1] = m
        /\ \A i \in 1..Len(t) : u[i] = t[i]
    BY AppendProperties
  <1>2. Len(t) \in Nat /\ m \in Nat
    BY LenProperties DEF Message
  <1> HIDE DEF u
  <1>3. ASSUME NEW n \in CompleteOf(u, G) PROVE n \in 1..Len(t)
    <2>1. n \in 1..Len(u) /\ u[n] > 0 /\ \A g \in 1..u[n] : Env(n, g) \in G
      BY <1>1, CompleteMeans
    <2>2. u[n] \in Nat
      BY <1>1, <2>1, OfFacts
    <2>3. Env(n, 1) \in Of(t)
      BY <2>1, <2>2
    <2>4. Env(n, 1).seq = n
      BY DEF Env
    <2> QED
      BY <2>3, <2>4, OfFacts
  <1>4. \A n \in 1..Len(t) : n \in 1..Len(u) /\ u[n] = t[n]
    BY <1>1, <1>2
  <1>5. \A n : n \in CompleteOf(u, G) <=> n \in CompleteOf(t, G)
    BY <1>1, <1>3, <1>4, CompleteMeans
  <1>6. CompleteOf(u, G) = CompleteOf(t, G)
    BY <1>5
  <1> QED
    BY <1>6 DEF Last, u

\* The next envelope completes no message, or the next one that has any.
LEMMA LastMoves ==
    ASSUME NEW t \in Seq(Message), NEW G, NEW h \in Of(t),
           Closed(G, Of(t)), Closed(G \cup {h}, Of(t))
    PROVE  \/ Last(t, G \cup {h}) = Last(t, G)
           \/ \E n \in Last(t, G) + 1 .. Len(t) :
                 /\ t[n] # 0 /\ Last(t, G \cup {h}) = n
                 /\ \A k \in Last(t, G) + 1 .. n - 1 : t[k] = 0
  <1> DEFINE H == G \cup {h}
             l == Last(t, G)
             C == CompleteOf(t, G)
             D == CompleteOf(t, H)
  <1>1. PICK n \in 1..Len(t) : \E g \in 1..t[n] : h = Env(n, g)
    BY OfFacts
  <1>2. h.seq = n
    BY <1>1 DEF Env
  <1>3. \A k, g : Env(k, g).seq = k
    BY DEF Env
  <1>4. \A k \in 1..Len(t) : k \in Nat \ {0} /\ t[k] \in Nat
    BY OfFacts
  <1>5. C \subseteq D
    BY CompleteMeans
  <1>6. ASSUME NEW k \in D, k # n PROVE k \in C
    <2>1. k \in 1..Len(t) /\ t[k] > 0 /\ \A g \in 1..t[k] : Env(k, g) \in H
      BY CompleteMeans
    <2>2. \A g \in 1..t[k] : Env(k, g) \in G
      BY <1>2, <1>3, <1>6, <2>1
    <2> QED
      BY <2>1, <2>2, CompleteMeans
  <1>7. CASE n \notin D \/ n \in C
    <2>1. C = D
      BY <1>5, <1>6, <1>7
    <2> QED
      BY <2>1 DEF Last
  <1>8. CASE n \in D /\ n \notin C
    <2>1. t[n] > 0 /\ Env(n, 1) \in H
      <3>1. t[n] > 0 /\ \A g \in 1..t[n] : Env(n, g) \in H
        BY <1>8, CompleteMeans
      <3>2. 1 \in 1..t[n]
        BY <1>4, <3>1
      <3> QED
        BY <3>1, <3>2
    <2>2. \A k, j \in 1..Len(t) : \A g, i : k < j => Before(Env(k, g), Env(j, i))
      BY <1>3 DEF Before
    <2>3. ASSUME NEW k \in C PROVE k < n
      <3>1. k \in 1..Len(t) /\ t[k] > 0 /\ \A g \in 1..t[k] : Env(k, g) \in G
        BY CompleteMeans
      <3>2. 1 \in 1..t[k]
        BY <1>4, <3>1
      <3>3. Env(k, 1) \in G
        BY <3>1, <3>2
      <3>4. ASSUME n < k PROVE FALSE
        <4>1. \A g \in 1..t[n] : Env(n, g) \in Of(t) /\ Before(Env(n, g), Env(k, 1))
          BY <2>2, <3>1, <3>4, OfFacts
        <4>2. \A g \in 1..t[n] : Env(n, g) \in G
          BY <3>3, <4>1 DEF Closed
        <4> QED
          BY <1>8, <2>1, <4>2, CompleteMeans
      <3>5. k # n
        BY <1>8
      <3> QED
        BY <1>4, <3>1, <3>4, <3>5
    <2>4. l \in Nat /\ l \in C \cup {0} /\ (\A k \in C : k <= l) /\ Len(t) \in Nat
      BY LastFacts
    <2>5. l < n
      BY <1>4, <2>3, <2>4
    <2>6. n \in l + 1 .. Len(t)
      BY <1>4, <2>4, <2>5
    <2>7. Last(t, H) = n
      <3>1. D \cup {0} \subseteq Nat /\ n \in D \cup {0}
        BY <1>4, <1>8, LastFacts
      <3>2. \A k \in D \cup {0} : k <= n
        <4>1. \A k \in D : k = n \/ k < n
          BY <1>6, <2>3
        <4>2. n \in Nat /\ n <= n /\ 0 <= n
          BY <1>4
        <4> HIDE DEF D
        <4>3. ASSUME NEW k \in D PROVE k <= n
          <5>1. k \in Nat /\ (k = n \/ k < n)
            BY <3>1, <4>1
          <5> QED
            BY <4>2, <5>1
        <4> QED
          BY <4>2, <4>3
      <3> HIDE DEF D
      <3>3. Max(D \cup {0}) = n
        BY <3>1, <3>2, MaxIs
      <3> QED
        BY <3>3 DEF Last, D
    <2>8. ASSUME NEW k \in l + 1 .. n - 1 PROVE t[k] = 0
      <3>1. k \in 1..Len(t) /\ k < n /\ l < k
        BY <1>4, <2>4
      <3>2. CASE t[k] > 0
        <4>1. \A g \in 1..t[k] : Env(k, g) \in Of(t) /\ Before(Env(k, g), Env(n, 1))
          BY <2>2, <3>1, OfFacts
        <4>2. \A g \in 1..t[k] : Env(k, g) \in H
          BY <2>1, <4>1 DEF Closed
        <4>3. k \in D
          BY <3>1, <3>2, <4>2, CompleteMeans
        <4>4. k # n
          BY <1>4, <3>1
        <4>5. k \in C
          BY <1>6, <4>3, <4>4
        <4> QED
          BY <1>4, <2>4, <3>1, <4>5
      <3> QED
        BY <1>4, <3>1, <3>2
    <2>9. t[n] # 0
      BY <2>1
    <2> HIDE DEF l, H
    <2>10. \E k \in l + 1 .. Len(t) :
             t[k] # 0 /\ Last(t, H) = k /\ \A j \in l + 1 .. k - 1 : t[j] = 0
      BY <2>6, <2>7, <2>8, <2>9
    <2> QED
      BY <2>10 DEF l, H
  <1> QED
    BY <1>7, <1>8

LEMMA StartsEmpty == Init => Abstract!Init
  <1> SUFFICES ASSUME Init PROVE Abstract!Init
    OBVIOUS
  <1>1. /\ queue = << >> /\ queue \in Seq(QueueEntry)
        /\ \A s \in Streams : taken[s] = << >> /\ got[s] = {}
    BY NothingFacts DEF Init
  <1>2. ASSUME NEW s \in Streams
        PROVE  taken[s] \o Messages(QueuedIn(queue, s)) = << >>
    <2>1. PlacesOf(queue, s) = {}
      BY <1>1 DEF PlacesOf
    <2>2. Len(QueuedIn(queue, s)) = 0
      <3>1. Len(QueuedIn(queue, s)) = Cardinality(PlacesOf(queue, s))
        BY <1>1, QueuedFacts
      <3> QED
        BY <2>1, <3>1, FS_EmptySet
    <2>3. Messages(QueuedIn(queue, s)) \in Seq(Message)
          /\ Len(Messages(QueuedIn(queue, s))) = 0
      BY <1>1, <2>2, QueuedFacts, MessagesFacts
    <2>4. Messages(QueuedIn(queue, s)) = << >>
      BY <2>3, EmptySeq
    <2> QED
      BY <1>1, <2>4
  <1>3. ASSUME NEW s \in Streams PROVE Last(taken[s], got[s]) = 0
    <2>1. << >> \in Seq(Message) /\ Len(<< >>) = 0
      BY EmptySeq
    <2>2. CompleteOf(<< >>, {}) = {}
      BY <2>1 DEF CompleteOf
    <2>3. Last(<< >>, {}) = 0
      <3>1. Last(<< >>, {}) \in CompleteOf(<< >>, {}) \cup {0}
        BY <2>1, LastFacts
      <3> QED
        BY <2>2, <3>1
    <2> QED
      BY <1>1, <2>3
  <1>4. Accepted = [s \in Streams |-> << >>]
    BY <1>2, AcceptedIs
  <1>5. Delivered = [s \in Streams |-> 0]
    BY <1>3, DeliveredIs
  <1> QED
    BY <1>4, <1>5 DEF Abstract!Init

LEMMA AcceptedKept ==
    ASSUME UNCHANGED << queue, taken >>
    PROVE  Accepted' = Accepted
  BY AcceptedIs

LEMMA DeliveredKept ==
    ASSUME UNCHANGED << taken, got >>
    PROVE  Delivered' = Delivered
  BY DeliveredIs

LEMMA Hidden ==
    ASSUME Accepted' = Accepted, Delivered' = Delivered
    PROVE  [Abstract!Next]_(Abstract!vars)
  BY DEF Abstract!vars

\* A client task that puts a message into the queue has it accepted.
LEMMA EnqueueAccepts ==
    ASSUME Inv, NEW s \in Streams, Enqueue(s)
    PROVE  Abstract!Accept(s)
  <1>1. PICK m \in Message : queue' = Append(queue, [stream |-> s, message |-> m])
    BY DEF Enqueue
  <1>2. UNCHANGED << taken, got >>
    BY DEF Enqueue
  <1> DEFINE e == [stream |-> s, message |-> m]
  <1>3. e \in QueueEntry /\ e.stream = s /\ e.message = m
    BY DEF QueueEntry
  <1>4. queue \in Seq(QueueEntry) /\ \A t \in Streams : taken[t] \in Seq(Message)
    BY InvFacts DEF TypeOK
  <1> HIDE DEF e
  <1>5. ASSUME NEW t \in Streams, t # s
        PROVE  Messages(QueuedIn(queue', t)) = Messages(QueuedIn(queue, t))
    BY <1>1, <1>3, <1>4, <1>5, QueueGrows DEF e
  <1>6. taken[s] \o Messages(QueuedIn(queue', s))
          = Append(taken[s] \o Messages(QueuedIn(queue, s)), m)
    <2>1. queue' = Append(queue, e)
      BY <1>1 DEF e
    <2> QED
      BY <1>3, <1>4, <2>1, QueueGrows
  <1>7. Accepted' = [Accepted EXCEPT ![s] = Append(Accepted[s], m)]
    BY <1>2, <1>5, <1>6, AcceptedIs
  <1>8. Delivered' = Delivered
    BY <1>2, DeliveredKept
  <1> QED
    BY <1>7, <1>8 DEF Abstract!Accept

\* Numbering and buffering a message shows nothing.
LEMMA TakeIsHidden ==
    ASSUME Inv, Take
    PROVE  Accepted' = Accepted /\ Delivered' = Delivered
  <1>1. /\ queue # << >> /\ queue \in Seq(QueueEntry) /\ Head(queue) \in QueueEntry
        /\ \A t \in Streams : taken[t] \in Seq(Message)
    BY InvFacts, HeadTailProperties DEF TypeOK, Take
  <1>2. PICK s \in Streams, m \in Message :
             s = Head(queue).stream /\ m = Head(queue).message
    BY <1>1 DEF QueueEntry
  <1>3. /\ taken' = [taken EXCEPT ![s] = Append(taken[s], m)] /\ queue' = Tail(queue)
        /\ got' = got
    BY <1>2 DEF Take
  <1>4. /\ taken'[s] = Append(taken[s], m)
        /\ \A t \in Streams : t # s => taken'[t] = taken[t]
    BY <1>3, InvFacts DEF TypeOK
  <1>5. ASSUME NEW t \in Streams
        PROVE  taken'[t] \o Messages(QueuedIn(queue', t))
                 = taken[t] \o Messages(QueuedIn(queue, t))
    <2>1. CASE t = s
      <3>1. Append(taken[s], m) \o Messages(QueuedIn(Tail(queue), s))
              = taken[s] \o Messages(QueuedIn(queue, s))
        BY <1>1, <1>2, QueueMoves
      <3> QED
        BY <1>3, <1>4, <2>1, <3>1
    <2>2. CASE t # s
      <3>1. QueuedIn(Tail(queue), t) = QueuedIn(queue, t)
        BY <1>1, <1>2, <2>2, QueueMoves
      <3> QED
        BY <1>3, <1>4, <2>2, <3>1
    <2> QED
      BY <2>1, <2>2
  <1>6. ASSUME NEW t \in Streams PROVE Last(taken'[t], got'[t]) = Last(taken[t], got[t])
    <2>1. got[s] \subseteq Of(taken[s])
      BY InvFacts, StreamNow DEF Closed
    <2>2. Last(Append(taken[s], m), got[s]) = Last(taken[s], got[s])
      BY <1>1, <2>1, LastOfMore
    <2> QED
      BY <1>3, <1>4, <2>2
  <1>7. Accepted' = Accepted
    BY <1>5, AcceptedIs
  <1>8. Delivered' = Delivered
    BY <1>6, DeliveredIs
  <1> QED
    BY <1>7, <1>8

\* An envelope that arrives hands over the next message or nothing.
LEMMA ReceiveDelivers ==
    ASSUME Inv, NEW s \in Streams, Receive(s)
    PROVE  [Abstract!Next]_(Abstract!vars)
  <1> DEFINE h == Head(wire[s])
  <1>1. /\ got' = [got EXCEPT ![s] = got[s] \cup {h}]
        /\ UNCHANGED << queue, taken >>
    BY DEF Receive
  <1>2. /\ got'[s] = got[s] \cup {h} /\ \A t \in Streams : t # s => got'[t] = got[t]
    BY <1>1, InvFacts DEF TypeOK
  <1>3. taken[s] \in Seq(Message) /\ queue \in Seq(QueueEntry)
    BY InvFacts DEF TypeOK
  <1>4. Closed(got[s], Of(taken[s]))
    BY InvFacts, StreamNow
  <1>5. Closed(got[s] \cup {h}, Of(taken[s])) /\ h \in Of(taken[s])
    <2>1. StreamInv(s)' /\ h \in Of(taken[s])
      BY ReceiveStep DEF Step
    <2>2. Closed(got'[s], Numbered(s)')
      BY <2>1 DEF StreamInv, Safe, Closed, Before
    <2> QED
      BY <1>1, <1>2, <2>1, <2>2, NumberedIsOf
  <1> HIDE DEF h
  <1>6. Accepted' = Accepted
    BY <1>1, AcceptedKept
  <1>7. Delivered[s] = Last(taken[s], got[s])
        /\ Delivered' = [Delivered EXCEPT ![s] = Last(taken[s], got[s] \cup {h})]
    BY <1>1, <1>2, DeliveredIs
  <1>8. CASE Last(taken[s], got[s] \cup {h}) = Last(taken[s], got[s])
    <2>1. Delivered' = Delivered
      BY <1>7, <1>8, DeliveredIs
    <2> QED
      BY <1>6, <2>1, Hidden
  <1>9. CASE \E n \in Last(taken[s], got[s]) + 1 .. Len(taken[s]) :
               /\ taken[s][n] # 0 /\ Last(taken[s], got[s] \cup {h}) = n
               /\ \A k \in Last(taken[s], got[s]) + 1 .. n - 1 : taken[s][k] = 0
    <2> DEFINE l == Last(taken[s], got[s])
               q == Messages(QueuedIn(queue, s))
               a == taken[s] \o q
    <2>1. PICK n \in l + 1 .. Len(taken[s]) :
             /\ taken[s][n] # 0 /\ Last(taken[s], got[s] \cup {h}) = n
             /\ \A k \in l + 1 .. n - 1 : taken[s][k] = 0
      BY <1>9
    <2>2. Accepted[s] = a
      BY AcceptedIs
    <2>3. q \in Seq(Message) /\ l \in Nat /\ Len(q) \in Nat /\ Len(taken[s]) \in Nat
      BY <1>3, QueuedFacts, LastFacts, LenProperties
    <2> HIDE DEF l, q
    <2>4. /\ Len(a) = Len(taken[s]) + Len(q)
          /\ \A i \in 1..Len(taken[s]) : a[i] = taken[s][i]
      BY <1>3, <2>3, ConcatProperties
    <2>5. n \in 1..Len(a) /\ n \in l + 1 .. Len(a) /\ a[n] = taken[s][n]
      BY <2>3, <2>4
    <2>6. \A k \in l + 1 .. n - 1 : k \in 1..Len(taken[s])
      BY <2>3
    <2>7. \A k \in l + 1 .. n - 1 : a[k] = 0
      BY <2>1, <2>4, <2>6
    <2> HIDE DEF a
    <2>8. Delivered[s] = l /\ Delivered' = [Delivered EXCEPT ![s] = n]
      BY <1>7, <2>1 DEF l
    <2>9. Abstract!IsNext(s, n)
      BY <2>1, <2>2, <2>5, <2>7, <2>8 DEF Abstract!IsNext
    <2>10. Abstract!Deliver(s)
      BY <1>6, <2>2, <2>5, <2>8, <2>9 DEF Abstract!Deliver
    <2> QED
      BY <2>10 DEF Abstract!Next
  <1> QED
    BY <1>3, <1>4, <1>5, <1>8, <1>9, LastMoves

LEMMA EveryStepIsAllowed ==
    Inv /\ [Next]_vars => [Abstract!Next]_(Abstract!vars)
  <1> SUFFICES ASSUME Inv, [Next]_vars PROVE [Abstract!Next]_(Abstract!vars)
    OBVIOUS
  <1>1. ASSUME UNCHANGED << queue, taken, got >> PROVE [Abstract!Next]_(Abstract!vars)
    BY <1>1, AcceptedKept, DeliveredKept, Hidden
  <1>2. ASSUME NEW s \in Streams, Enqueue(s) PROVE [Abstract!Next]_(Abstract!vars)
    BY <1>2, EnqueueAccepts DEF Abstract!Next
  <1>3. ASSUME NEW s \in Streams, Receive(s) PROVE [Abstract!Next]_(Abstract!vars)
    BY <1>3, ReceiveDelivers
  <1>4. ASSUME NEW s \in Streams, Write(s) \/ Ack(s) PROVE [Abstract!Next]_(Abstract!vars)
    BY <1>1, <1>4 DEF Write, Ack
  <1>5. CASE Connect \/ StartServing \/ Break
    BY <1>1, <1>5 DEF Connect, StartServing, Break
  <1>6. CASE Take
    BY <1>6, TakeIsHidden, Hidden
  <1>7. CASE UNCHANGED vars
    BY <1>1, <1>7 DEF vars
  <1> QED
    BY <1>2, <1>3, <1>4, <1>5, <1>6, <1>7 DEF Next

\* The transport does only what OrderedDelivery allows: over any number of
\* connections that break at any point, the messages of a stream reach the
\* backend in the order in which they were queued, each at most once, and only
\* those above the size limit are skipped (run_server_writer_inner,
\* BoundedOutboundBuffer, split_server_envelope_for_transport).  It is the
\* safety part of ImplementsOrderedDelivery.
THEOREM DeliversInOrder == Spec => Abstract!Safety
  BY StartsEmpty, EveryStepIsAllowed, AlwaysInv, PTL DEF Spec, Abstract!Safety
=============================================================================
