---------------------------- MODULE KafkaProofs ----------------------------
(***************************************************************************)
(* Proofs about KafkaProducer, for any messages, sizes, retries and        *)
(* thresholds: where a waiting message is, how often it is retried, and    *)
(* that the producer drives its breaker as CircuitBreaker says.            *)
(***************************************************************************)
EXTENDS KafkaProducer, SequenceTheorems, TLAPS

-----------------------------------------------------------------------------
(* Sequences of different messages.                                        *)

Distinct(q) == \A i, j \in 1..Len(q) : q[i] = q[j] => i = j

LEMMA ElementsAreMessages ==
  ASSUME NEW q \in Seq(Messages)
  PROVE  Elements(q) \subseteq Messages
BY DEF Elements

LEMMA AppendElements ==
  ASSUME NEW q \in Seq(Messages), NEW m \in Messages
  PROVE  /\ Append(q, m) \in Seq(Messages) /\ Len(Append(q, m)) = Len(q) + 1
         /\ Elements(Append(q, m)) = Elements(q) \cup {m}
         /\ Distinct(q) /\ m \notin Elements(q) => Distinct(Append(q, m))
<1>1. /\ Len(Append(q, m)) = Len(q) + 1 /\ Len(q) \in Nat
      /\ \A i \in 1..Len(q) : Append(q, m)[i] = q[i]
      /\ Append(q, m)[Len(q) + 1] = m
      /\ Append(q, m) \in Seq(Messages)
  OBVIOUS
<1>2. Elements(Append(q, m)) = Elements(q) \cup {m}
  BY <1>1 DEF Elements
<1>3. ASSUME Distinct(q), m \notin Elements(q)
      PROVE  Distinct(Append(q, m))
  BY <1>1, <1>3 DEF Distinct, Elements
<1>. QED BY <1>1, <1>2, <1>3

LEMMA TailElements ==
  ASSUME NEW q \in Seq(Messages), q # <<>>, Distinct(q)
  PROVE  /\ Head(q) \in Messages /\ Head(q) \in Elements(q)
         /\ Tail(q) \in Seq(Messages) /\ Len(Tail(q)) = Len(q) - 1
         /\ Elements(Tail(q)) = Elements(q) \ {Head(q)}
         /\ Distinct(Tail(q))
<1>1. /\ Len(q) \in Nat /\ Len(q) > 0 /\ Head(q) = q[1] /\ Head(q) \in Messages
      /\ Tail(q) \in Seq(Messages) /\ Len(Tail(q)) = Len(q) - 1
      /\ \A i \in 1..Len(Tail(q)) : Tail(q)[i] = q[i + 1]
  OBVIOUS
<1>2. Head(q) \in Elements(q)
  BY <1>1 DEF Elements
<1>3. Distinct(Tail(q))
  BY <1>1 DEF Distinct
<1>4. ASSUME NEW m \in Elements(Tail(q))
      PROVE  m \in Elements(q) /\ m # Head(q)
  <2>1. PICK i \in 1..Len(Tail(q)) : m = Tail(q)[i]
    BY DEF Elements
  <2>2. m = q[i + 1] /\ i + 1 \in 1..Len(q) /\ i + 1 # 1 /\ 1 \in 1..Len(q)
    BY <1>1, <2>1
  <2>. QED BY <1>1, <2>2 DEF Elements, Distinct
<1>5. ASSUME NEW m \in Elements(q), m # Head(q)
      PROVE  m \in Elements(Tail(q))
  <2>1. PICK i \in 1..Len(q) : m = q[i]
    BY DEF Elements
  <2>2. i - 1 \in 1..Len(Tail(q)) /\ Tail(q)[i - 1] = q[i - 1 + 1]
    BY <1>1, <1>5, <2>1
  <2>. QED BY <2>1, <2>2 DEF Elements
<1>. QED BY <1>1, <1>2, <1>3, <1>4, <1>5

LEMMA ConcatDistinct ==
  ASSUME NEW p \in Seq(Messages), NEW q \in Seq(Messages), Distinct(p), Distinct(q),
         Elements(p) \cap Elements(q) = {}
  PROVE  /\ p \o q \in Seq(Messages) /\ Distinct(p \o q)
         /\ Elements(p \o q) = Elements(p) \cup Elements(q)
<1>1. /\ p \o q \in Seq(Messages) /\ Len(p \o q) = Len(p) + Len(q)
      /\ Len(p) \in Nat /\ Len(q) \in Nat
      /\ \A i \in 1..Len(p) : (p \o q)[i] = p[i]
      /\ \A i \in 1..Len(q) : (p \o q)[Len(p) + i] = q[i]
  OBVIOUS
<1>2. \A i \in 1..Len(p \o q) :
         \/ i \in 1..Len(p) /\ (p \o q)[i] = p[i]
         \/ i - Len(p) \in 1..Len(q) /\ (p \o q)[i] = q[i - Len(p)]
  <2>. TAKE i \in 1..Len(p \o q)
  <2>1. CASE i <= Len(p)
    BY <1>1, <2>1
  <2>2. CASE i > Len(p)
    <3>1. i - Len(p) \in 1..Len(q) /\ Len(p) + (i - Len(p)) = i
      BY <1>1, <2>2
    <3>. QED BY <1>1, <3>1
  <2>. QED BY <1>1, <2>1, <2>2
<1>3. Elements(p \o q) = Elements(p) \cup Elements(q)
  <2>1. Elements(p \o q) \subseteq Elements(p) \cup Elements(q)
    BY <1>2 DEF Elements
  <2>2. ASSUME NEW m \in Elements(p) PROVE m \in Elements(p \o q)
    BY <1>1 DEF Elements
  <2>3. ASSUME NEW m \in Elements(q) PROVE m \in Elements(p \o q)
    <3>1. PICK i \in 1..Len(q) : m = q[i]
      BY DEF Elements
    <3>2. Len(p) + i \in 1..Len(p \o q) /\ (p \o q)[Len(p) + i] = m
      BY <1>1, <3>1
    <3>. QED BY <3>2 DEF Elements
  <2>. QED BY <2>1, <2>2, <2>3
<1>4. Distinct(p \o q)
  <2>. SUFFICES ASSUME NEW i \in 1..Len(p \o q), NEW j \in 1..Len(p \o q),
                       (p \o q)[i] = (p \o q)[j]
                PROVE  i = j
    BY DEF Distinct
  <2>1. CASE i \in 1..Len(p) /\ j \in 1..Len(p)
    BY <1>1, <2>1 DEF Distinct
  <2>2. CASE i \notin 1..Len(p) /\ j \notin 1..Len(p)
    <3>1. /\ i - Len(p) \in 1..Len(q) /\ j - Len(p) \in 1..Len(q)
          /\ q[i - Len(p)] = q[j - Len(p)]
      BY <1>2, <2>2
    <3>2. i - Len(p) = j - Len(p)
      BY <3>1 DEF Distinct
    <3>. QED BY <1>1, <3>2
  <2>3. ASSUME NEW k \in 1..Len(p), NEW l \in 1..Len(p \o q), l \notin 1..Len(p)
        PROVE  (p \o q)[k] # (p \o q)[l]
    <3>1. (p \o q)[k] \in Elements(p)
      BY <1>1 DEF Elements
    <3>2. (p \o q)[l] \in Elements(q)
      BY <1>2, <2>3 DEF Elements
    <3>. QED BY <3>1, <3>2
  <2>. QED BY <2>1, <2>2, <2>3
<1>. QED BY <1>1, <1>3, <1>4

\* A sequence of messages from different, ascending places of q.
LEMMA PickedElements ==
  ASSUME NEW q \in Seq(Messages), Distinct(q), NEW n \in Nat,
         NEW at \in [1..n -> 1..Len(q)], \A i, j \in 1..n : i < j => at[i] < at[j]
  PROVE  LET p == [i \in 1..n |-> q[at[i]]]
         IN  /\ p \in Seq(Messages) /\ Len(p) = n /\ Distinct(p)
             /\ Elements(p) = {q[at[i]] : i \in 1..n}
<1>. DEFINE p == [i \in 1..n |-> q[at[i]]]
<1>1. p \in Seq(Messages) /\ Len(p) = n
  BY IsASeq
<1>2. Elements(p) = {q[at[i]] : i \in 1..n}
  BY <1>1 DEF Elements
<1>3. ASSUME NEW i \in 1..n, NEW j \in 1..n, p[i] = p[j]
      PROVE  i = j
  <2>1. at[i] = at[j]
    BY <1>3 DEF Distinct
  <2>2. at[i] \in Int /\ ~(i < j) /\ ~(j < i)
    BY <2>1
  <2>. QED BY <2>2
<1>. QED BY <1>1, <1>2, <1>3 DEF Distinct

LEMMA NewestElements ==
  ASSUME NEW q \in Seq(Messages), Distinct(q)
  PROVE  /\ Newest(q) \in Seq(Messages) /\ Len(Newest(q)) <= MaxSize
         /\ Distinct(Newest(q)) /\ Elements(Newest(q)) \subseteq Elements(q)
<1>1. CASE Len(q) <= MaxSize
  BY <1>1 DEF Newest
<1>2. CASE ~(Len(q) <= MaxSize)
  <2>. DEFINE a == Len(q) - MaxSize + 1
              p == SubSeq(q, a, Len(q))
  <2>1. a \in 1..Len(q) /\ a \in Int /\ Len(q) \in Nat /\ MaxSize \in Nat
    BY <1>2, ProducerAssumption
  <2>2. \A i \in a..Len(q) : q[i] \in Messages
    BY <2>1
  <2>3. /\ p \in Seq(Messages) /\ Len(p) = Len(q) - a + 1
        /\ \A i \in 1..(Len(q) - a + 1) : p[i] = q[a + i - 1]
    BY <2>1, <2>2, SubSeqProperties
  <2>4. Len(p) = MaxSize
    BY <2>1, <2>3
  <2>5. \A i \in 1..Len(p) : a + i - 1 \in 1..Len(q) /\ p[i] = q[a + i - 1]
    BY <2>1, <2>3
  <2>6. Newest(q) = p
    BY <1>2 DEF Newest
  <2>. HIDE DEF p, a
  <2>7. Elements(p) \subseteq Elements(q)
    BY <2>5 DEF Elements
  <2>8. Distinct(p)
    <3>. SUFFICES ASSUME NEW i \in 1..Len(p), NEW j \in 1..Len(p), p[i] = p[j]
                  PROVE  i = j
      BY DEF Distinct
    <3>1. a + i - 1 = a + j - 1
      BY <2>5 DEF Distinct
    <3>. QED BY <2>1, <3>1
  <2>. QED BY <2>1, <2>3, <2>4, <2>6, <2>7, <2>8
<1>. QED BY <1>1, <1>2

-----------------------------------------------------------------------------
(* The buffer and whoever empties it.                                      *)

\* The buffer q, the message h that process() has popped, and the messages r
\* that it is going to put back: a message is in one place.
Shape(q, h, r) ==
    /\ q \in Seq(Messages) /\ Len(q) <= MaxSize /\ Distinct(q)
    /\ h \in Messages \cup {NoMessage}
    /\ r \in Seq(Messages) /\ Distinct(r)
    /\ Elements(q) \cap Elements(r) = {}
    /\ h \notin Elements(q) /\ h \notin Elements(r)

\* The fates f and the retries n of messages of which those of e and h wait
\* for a retry and those of s failed one, and the state c of each send(): what
\* waits is queued and in no send(), and only what failed a retry has had
\* max_retries of them.
Marked(e, h, s, f, n, c) ==
    /\ f \in [Messages -> Fates] /\ n \in [Messages -> Nat]
    /\ c \in [Messages -> {"idle"} \cup CB!States]
    /\ \A m \in e \cup s : f[m] = "queued"
    /\ h # NoMessage => f[h] = "queued" /\ n[h] < MaxRetries
    /\ \A m \in Messages : c[m] # "idle" => f[m] = "new"
    /\ \A m \in Messages : f[m] = "new" => n[m] = 0
    /\ \A m \in Messages : n[m] <= MaxRetries
    /\ \A m \in e : n[m] < MaxRetries

Sound(q, h, r, f, n, c) == Shape(q, h, r) /\ Marked(Elements(q), h, Elements(r), f, n, c)

\* A drainer always holds a message.
Drains(d, h, r) ==
    /\ d \in {"none", "loop", "flush"}
    /\ d = "none" => h = NoMessage /\ r = <<>>
    /\ d # "none" => h # NoMessage

LEMMA EmptyElements == <<>> \in Seq(Messages) /\ Elements(<<>>) = {} /\ Distinct(<<>>)
BY DEF Elements, Distinct

LEMMA SoundFacts ==
  ASSUME NEW q, NEW h, NEW r, NEW f, NEW n, NEW c, Sound(q, h, r, f, n, c)
  PROVE  /\ q \in Seq(Messages) /\ r \in Seq(Messages)
         /\ Elements(q) \subseteq Messages /\ Elements(r) \subseteq Messages
         /\ h \in Messages \cup {NoMessage}
         /\ h \notin Elements(q) /\ h \notin Elements(r)
         /\ Elements(q) \cap Elements(r) = {}
         /\ Marked(Elements(q), h, Elements(r), f, n, c)
         /\ NoMessage \notin Messages /\ MaxRetries \in Nat \ {0}
<1>1. q \in Seq(Messages) /\ r \in Seq(Messages)
  BY DEF Sound, Shape
<1>2. Elements(q) \subseteq Messages /\ Elements(r) \subseteq Messages
  BY <1>1, ElementsAreMessages
<1>. QED BY <1>1, <1>2, ProducerAssumption, Zenon DEF Sound, Shape

\* What process() had popped and collected is let go.
LEMMA LetGo ==
  ASSUME NEW q, NEW h, NEW r, NEW f, NEW n, NEW c, Sound(q, h, r, f, n, c)
  PROVE  Sound(q, NoMessage, <<>>, f, n, c)
<1>1. Shape(q, NoMessage, <<>>)
  BY SoundFacts, EmptyElements, Zenon DEF Sound, Shape
<1>2. Marked(Elements(q), NoMessage, {}, f, n, c)
  <2>. DEFINE e == Elements(q)
              s == Elements(r)
  <2>1. Marked(e, h, s, f, n, c)
    BY SoundFacts
  <2>. HIDE DEF e, s
  <2>2. Marked(e, NoMessage, {}, f, n, c)
    BY <2>1, Zenon DEF Marked
  <2>. QED BY <2>2 DEF e
<1>. QED BY <1>1, <1>2, EmptyElements DEF Sound

\* A send() that is admitted is one that was not made before.
LEMMA SoundCall ==
  ASSUME NEW q, NEW h, NEW r, NEW f, NEW n, NEW c, Sound(q, h, r, f, n, c),
         NEW m \in Messages, f[m] = "new", NEW x \in {"idle"} \cup CB!States
  PROVE  Sound(q, h, r, f, n, [c EXCEPT ![m] = x])
<1>. DEFINE d == [c EXCEPT ![m] = x]
<1>1. /\ d \in [Messages -> {"idle"} \cup CB!States]
      /\ \A k \in Messages : d[k] # "idle" => f[k] = "new"
  BY DEF Sound, Marked
<1>. QED BY <1>1, Zenon DEF Sound, Marked

\* A send() that ends otherwise than in the buffer.
LEMMA SoundEnd ==
  ASSUME NEW q, NEW h, NEW r, NEW f, NEW n, NEW c, Sound(q, h, r, f, n, c),
         NEW m \in Messages, f[m] = "new", NEW x \in Fates \ {"new", "queued"}
  PROVE  Sound(q, h, r, [f EXCEPT ![m] = x], n, [c EXCEPT ![m] = "idle"])
<1>. DEFINE d == [c EXCEPT ![m] = "idle"]
            g == [f EXCEPT ![m] = x]
<1>1. /\ d \in [Messages -> {"idle"} \cup CB!States] /\ g \in [Messages -> Fates]
      /\ \A k \in Messages : d[k] # "idle" => g[k] = "new"
      /\ \A k \in Messages : g[k] = "new" => n[k] = 0
  BY DEF Sound, Marked
<1>2. /\ \A k \in Elements(q) \cup Elements(r) : g[k] = "queued"
      /\ h # NoMessage => g[h] = "queued"
  BY SoundFacts DEF Marked
<1>. HIDE DEF d, g
<1>3. Sound(q, h, r, g, n, d)
  BY <1>1, <1>2, Zenon DEF Sound, Marked
<1>. QED BY <1>3 DEF d, g

\* RetryBuffer.add of the message of a send() that is not in progress.
LEMMA SoundAdd ==
  ASSUME NEW h, NEW r, NEW c, Sound(buffer, h, r, fate, tries, c),
         NEW m \in Messages, fate[m] = "new", c[m] = "idle", Add(m)
  PROVE  Sound(buffer', h, r, fate', tries, c)
<1>1. /\ m \notin Elements(buffer) /\ m \notin Elements(r) /\ m # h
      /\ tries[m] = 0 /\ fate \in [Messages -> Fates]
      /\ "queued" \in Fates /\ "dropped" \in Fates
  BY SoundFacts DEF Marked, Fates
<1>2. /\ Len(buffer) <= MaxSize /\ Len(buffer) \in Nat /\ MaxSize \in Nat \ {0}
      /\ buffer \in Seq(Messages) /\ Distinct(buffer)
  BY SoundFacts, ProducerAssumption DEF Sound, Shape
<1>3. CASE /\ Len(buffer) < MaxSize
           /\ buffer' = Append(buffer, m)
           /\ fate' = [fate EXCEPT ![m] = "queued"]
  <2>1. /\ buffer' \in Seq(Messages) /\ Len(buffer') <= MaxSize /\ Distinct(buffer')
        /\ Elements(buffer') = Elements(buffer) \cup {m}
    BY <1>1, <1>2, <1>3, AppendElements
  <2>2. /\ fate' \in [Messages -> Fates] /\ fate'[m] = "queued"
        /\ \A k \in Messages \ {m} : fate'[k] = fate[k]
    BY <1>1, <1>3
  <2>3. Shape(buffer', h, r)
    BY <1>1, <2>1 DEF Sound, Shape
  <2>4. Marked(Elements(buffer) \cup {m}, h, Elements(r), fate', tries, c)
    BY <1>1, <2>2, SoundFacts DEF Marked
  <2>. QED BY <2>1, <2>3, <2>4 DEF Sound
<1>4. CASE /\ Len(buffer) >= MaxSize
           /\ buffer' = Append(Tail(buffer), m)
           /\ fate' = [fate EXCEPT ![m] = "queued", ![Head(buffer)] = "dropped"]
  <2>. DEFINE x == Head(buffer)
  <2>1. buffer # <<>>
    BY <1>2, <1>4
  <2>2. /\ x \in Messages /\ x \in Elements(buffer)
        /\ Tail(buffer) \in Seq(Messages) /\ Len(Tail(buffer)) = Len(buffer) - 1
        /\ Elements(Tail(buffer)) = Elements(buffer) \ {x} /\ Distinct(Tail(buffer))
    BY <1>2, <2>1, TailElements
  <2>3. /\ buffer' \in Seq(Messages) /\ Len(buffer') = Len(Tail(buffer)) + 1
        /\ Distinct(buffer') /\ Elements(buffer') = (Elements(buffer) \ {x}) \cup {m}
    BY <1>1, <1>4, <2>2, AppendElements
  <2>4. Len(buffer') <= MaxSize
    BY <1>2, <2>2, <2>3
  <2>5. x # m
    BY <1>1, <2>2
  <2>. HIDE DEF x
  <2>6. fate' = [fate EXCEPT ![m] = "queued", ![x] = "dropped"]
    BY <1>4 DEF x
  <2>7. /\ fate' \in [Messages -> Fates] /\ fate'[m] = "queued" /\ fate'[x] = "dropped"
        /\ \A k \in Messages \ {m, x} : fate'[k] = fate[k]
    BY <1>1, <2>2, <2>5, <2>6
  <2>8. x \notin Elements(r) /\ x # h /\ c[x] = "idle"
    BY <2>2, SoundFacts DEF Marked
  <2>9. Shape(buffer', h, r)
    BY <1>1, <2>3, <2>4 DEF Sound, Shape
  <2>10. Marked((Elements(buffer) \ {x}) \cup {m}, h, Elements(r), fate', tries, c)
    <3>. DEFINE e == Elements(buffer)
                s == Elements(r)
    <3>0. Marked(e, h, s, fate, tries, c) /\ e \subseteq Messages /\ s \subseteq Messages
          /\ h \in Messages \cup {NoMessage} /\ x \in e /\ m \in Messages
          /\ MaxRetries \in Nat \ {0} /\ h \notin e
      BY <2>2, SoundFacts
    <3>. HIDE DEF e, s
    <3>1. \A k \in Messages : c[k] # "idle" => fate'[k] = "new"
      BY <1>1, <2>7, <2>8, <3>0, SMT DEF Marked
    <3>2. \A k \in Messages : fate'[k] = "new" => tries[k] = 0
      BY <2>7, <3>0, SMT DEF Marked
    <3>3. /\ \A k \in ((e \ {x}) \cup {m}) \cup s : fate'[k] = "queued"
          /\ h # NoMessage => fate'[h] = "queued"
      BY <1>1, <2>7, <2>8, <3>0, SMT DEF Marked, e, s
    <3>4. \A k \in (e \ {x}) \cup {m} : tries[k] < MaxRetries
      BY <1>1, <3>0, SMT DEF Marked
    <3>5. Marked((e \ {x}) \cup {m}, h, s, fate', tries, c)
      BY <2>7, <3>0, <3>1, <3>2, <3>3, <3>4, Zenon DEF Marked
    <3>. QED BY <3>5 DEF e, s
  <2>. QED BY <2>3, <2>9, <2>10 DEF Sound
<1>. QED BY <1>3, <1>4 DEF Add

\* process() pops a message.
LEMMA SoundPop ==
  ASSUME NEW q, NEW r, NEW f, NEW n, NEW c, Sound(q, NoMessage, r, f, n, c), q # <<>>
  PROVE  /\ Sound(Tail(q), Head(q), r, f, n, c)
         /\ Head(q) # NoMessage
<1>. DEFINE x == Head(q)
<1>1. /\ x \in Messages /\ x \in Elements(q)
      /\ Tail(q) \in Seq(Messages) /\ Len(Tail(q)) = Len(q) - 1
      /\ Elements(Tail(q)) = Elements(q) \ {x} /\ Distinct(Tail(q))
      /\ Len(q) \in Nat /\ MaxSize \in Nat /\ Len(q) <= MaxSize
  BY TailElements, ProducerAssumption DEF Sound, Shape
<1>2. x # NoMessage
  BY <1>1, ProducerAssumption
<1>. HIDE DEF x
<1>3. Shape(Tail(q), x, r)
  BY <1>1 DEF Sound, Shape
<1>4. Marked(Elements(q) \ {x}, x, Elements(r), f, n, c)
  BY <1>1, <1>2, SoundFacts DEF Marked
<1>. QED BY <1>1, <1>2, <1>3, <1>4 DEF Sound, x

\* A retry that succeeds.
LEMMA SoundDelivered ==
  ASSUME NEW q, NEW h, NEW r, NEW f, NEW n, NEW c, Sound(q, h, r, f, n, c),
         h # NoMessage
  PROVE  Sound(q, NoMessage, r, [f EXCEPT ![h] = "delivered"], n, c)
<1>. DEFINE g == [f EXCEPT ![h] = "delivered"]
<1>1. /\ h \in Messages /\ c[h] = "idle" /\ f \in [Messages -> Fates]
      /\ "delivered" \in Fates
  BY SoundFacts DEF Marked, Fates
<1>2. /\ g \in [Messages -> Fates] /\ g[h] = "delivered"
      /\ \A k \in Messages \ {h} : g[k] = f[k]
  BY <1>1
<1>. HIDE DEF g
<1>3. Shape(q, NoMessage, r)
  BY SoundFacts DEF Sound, Shape
<1>4. Marked(Elements(q), NoMessage, Elements(r), g, n, c)
  BY <1>1, <1>2, SoundFacts DEF Marked
<1>. QED BY <1>3, <1>4 DEF Sound, g

\* A retry that fails.
LEMMA SoundFailed ==
  ASSUME NEW q, NEW h, NEW r, NEW f, NEW c, Sound(q, h, r, f, tries, c),
         h # NoMessage
  PROVE  Sound(q, NoMessage, Append(r, h), f, [tries EXCEPT ![h] = @ + 1], c)
<1>. DEFINE n == [tries EXCEPT ![h] = @ + 1]
            s == Append(r, h)
<1>1. /\ h \in Messages /\ c[h] = "idle" /\ f[h] = "queued"
      /\ tries \in [Messages -> Nat] /\ tries[h] < MaxRetries /\ tries[h] \in Nat
  BY SoundFacts DEF Marked
<1>2. /\ n \in [Messages -> Nat] /\ n[h] = tries[h] + 1
      /\ \A k \in Messages \ {h} : n[k] = tries[k]
  BY <1>1
<1>3. s \in Seq(Messages) /\ Elements(s) = Elements(r) \cup {h} /\ Distinct(s)
  BY <1>1, SoundFacts, AppendElements DEF Sound, Shape
<1>4. n[h] <= MaxRetries
  BY <1>1, <1>2, ProducerAssumption
<1>. HIDE DEF n, s
<1>5. Shape(q, NoMessage, s)
  BY <1>3, SoundFacts DEF Sound, Shape
<1>6. Marked(Elements(q), NoMessage, Elements(r) \cup {h}, f, n, c)
  <2>. DEFINE e == Elements(q)
              x == Elements(r)
  <2>0. Marked(e, h, x, f, tries, c) /\ e \subseteq Messages /\ x \subseteq Messages
        /\ h \notin e
    BY SoundFacts
  <2>. HIDE DEF e, x
  <2>1. \A k \in Messages : n[k] <= MaxRetries
    <3>. TAKE k \in Messages
    <3>1. CASE k = h
      BY <1>4, <3>1
    <3>2. CASE k # h
      <4>1. n[k] = tries[k] /\ tries[k] <= MaxRetries
        BY <1>2, <2>0, <3>2, Zenon DEF Marked
      <4>. QED BY <4>1, Zenon
    <3>. QED BY <3>1, <3>2
  <2>2. \A k \in Messages : f[k] = "new" => n[k] = 0
    BY <1>1, <1>2, <2>0, SMT DEF Marked
  <2>3. \A k \in e : n[k] < MaxRetries
    <3>. TAKE k \in e
    <3>1. k \in Messages /\ k # h
      BY <2>0
    <3>2. n[k] = tries[k] /\ tries[k] < MaxRetries
      BY <1>2, <2>0, <3>1, Zenon DEF Marked
    <3>. QED BY <3>2, Zenon
  <2>4. \A k \in e \cup (x \cup {h}) : f[k] = "queued"
    BY <1>1, <2>0, SMT DEF Marked
  <2>5. Marked(e, NoMessage, x \cup {h}, f, n, c)
    BY <1>2, <2>0, <2>1, <2>2, <2>3, <2>4, Zenon DEF Marked
  <2>. QED BY <2>5 DEF e, x
<1>. QED BY <1>3, <1>5, <1>6 DEF Sound, n, s

\* The end of a retry: the next message is popped, or those that failed and
\* have retries left go back and the others are given up.
LEMMA SoundContinue ==
  ASSUME NEW retry, NEW f, NEW t, NEW c,
         Sound(buffer, NoMessage, retry, f, t, c), drainer \in {"loop", "flush"},
         Continue(retry, t, f)
  PROVE  /\ Sound(buffer', held', toRetry', fate', t, c)
         /\ Drains(drainer', held', toRetry')
<1>1. CASE /\ buffer # <<>>
           /\ held' = Head(buffer) /\ buffer' = Tail(buffer)
           /\ toRetry' = retry /\ fate' = f
           /\ UNCHANGED drainer
  BY <1>1, SoundPop DEF Drains
<1>2. ASSUME buffer = <<>>, EndDrain,
             NEW k \in 0..Len(retry), NEW at \in [1..k -> Retriable(retry, t)],
             \A i, j \in 1..k : i < j => at[i] < at[j],
             buffer' = Newest([i \in 1..k |-> retry[at[i]]]),
             fate' = [m \in Messages |->
                        IF m \in Elements(retry) /\ ~RetriesLeft(t[m])
                          THEN "failed" ELSE f[m]]
      PROVE  /\ Sound(buffer', held', toRetry', fate', t, c)
             /\ Drains(drainer', held', toRetry')
  <2>. DEFINE p == [i \in 1..k |-> retry[at[i]]]
              s == Elements(retry)
              e == Elements(buffer')
  <2>1. /\ Marked(Elements(buffer), NoMessage, s, f, t, c)
        /\ s \subseteq Messages /\ retry \in Seq(Messages) /\ Distinct(retry)
        /\ NoMessage \notin Messages
    BY SoundFacts DEF Sound, Shape
  <2>2. at \in [1..k -> 1..Len(retry)] /\ k \in Nat
    BY <1>2 DEF Retriable
  <2>3. /\ p \in Seq(Messages) /\ Distinct(p)
        /\ Elements(p) = {retry[at[i]] : i \in 1..k}
    BY <1>2, <2>1, <2>2, PickedElements
  <2>4. /\ buffer' \in Seq(Messages) /\ Len(buffer') <= MaxSize /\ Distinct(buffer')
        /\ e \subseteq Elements(p)
    BY <1>2, <2>3, NewestElements
  <2>5. \A m \in e : m \in s /\ RetriesLeft(t[m])
    <3>. TAKE m \in e
    <3>1. PICK i \in 1..k : m = retry[at[i]]
      BY <2>3, <2>4
    <3>2. at[i] \in Retriable(retry, t)
      BY <1>2
    <3>. QED BY <3>1, <3>2 DEF Retriable, Elements
  <2>6. held' = NoMessage /\ toRetry' = <<>> /\ drainer' = "none"
    BY <1>2 DEF EndDrain
  <2>. HIDE DEF p, s, e
  <2>7. Shape(buffer', NoMessage, <<>>)
    <3>1. NoMessage \notin e
      BY <2>1, <2>5
    <3>. QED BY <2>4, <3>1, EmptyElements, Zenon DEF Shape, e
  <2>8. /\ fate' \in [Messages -> Fates]
        /\ \A m \in Messages \ s : fate'[m] = f[m]
        /\ \A m \in Messages : RetriesLeft(t[m]) => fate'[m] = f[m]
        /\ \A m \in Messages : fate'[m] \in {f[m], "failed"}
    <3>1. fate' = [m \in Messages |-> IF m \in s /\ ~RetriesLeft(t[m])
                                        THEN "failed" ELSE f[m]]
      BY <1>2 DEF s
    <3>2. f \in [Messages -> Fates] /\ "failed" \in Fates
      BY <2>1 DEF Marked, Fates
    <3>. QED BY <3>1, <3>2
  <2>9. Marked(e, NoMessage, {}, fate', t, c)
    <3>1. \A m \in e \cup {} : fate'[m] = "queued"
      BY <2>1, <2>5, <2>8 DEF Marked
    <3>2. \A m \in Messages : c[m] # "idle" => fate'[m] = "new"
      <4>. TAKE m \in Messages
      <4>. HAVE c[m] # "idle"
      <4>1. f[m] = "new" /\ m \notin s
        BY <2>1, Zenon DEF Marked
      <4>. QED BY <2>8, <4>1
    <3>3. \A m \in Messages : fate'[m] = "new" => t[m] = 0
      BY <2>1, <2>8 DEF Marked
    <3>4. \A m \in e : t[m] < MaxRetries
      BY <2>5 DEF RetriesLeft
    <3>. QED BY <2>1, <2>8, <3>1, <3>2, <3>3, <3>4, Zenon DEF Marked
  <2>. QED BY <2>6, <2>7, <2>9, EmptyElements DEF Sound, Drains, e
<1>. QED BY <1>1, <1>2 DEF Continue

-----------------------------------------------------------------------------
(* The inductive invariant.                                                *)

\* TypeOK, but for the buffer.
RestOK ==
    /\ state \in CB!States
    /\ consecutiveFailures \in Nat /\ halfOpenSuccesses \in Nat
    /\ timeoutExpired \in BOOLEAN
    /\ life \in {"off", "up", "closing", "stalled"}
    /\ connected \in BOOLEAN
    /\ faults \in Nat /\ closes \in Nat

Waits ==
    /\ Sound(buffer, held, toRetry, fate, tries, call)
    /\ Drains(drainer, held, toRetry)

KInv == RestOK /\ Waits

LEMMA TransitionTypes ==
  ASSUME NEW new \in CB!States, NEW f \in Nat, NEW s \in Nat, CB!TransitionTo(new, f, s)
  PROVE  /\ state' \in CB!States /\ timeoutExpired' \in BOOLEAN
         /\ consecutiveFailures' \in Nat /\ halfOpenSuccesses' \in Nat
<1>1. /\ state' = new /\ timeoutExpired' = FALSE
      /\ halfOpenSuccesses' = IF new = "HALF_OPEN" THEN 0 ELSE s
      /\ consecutiveFailures' = IF new = "CLOSED" THEN 0 ELSE f
  BY DEF CB!TransitionTo
<1>2. halfOpenSuccesses' \in Nat /\ consecutiveFailures' \in Nat
  BY <1>1
<1>. QED BY <1>1, <1>2

\* Whatever the producer asks of its breaker keeps the breaker's types.
LEMMA CircuitTypes ==
  ASSUME RestOK,
         \/ CB!RecordSuccess \/ CB!RecordFailure \/ Admitted
         \/ UNCHANGED circuitVars
  PROVE  /\ state' \in CB!States /\ timeoutExpired' \in BOOLEAN
         /\ consecutiveFailures' \in Nat /\ halfOpenSuccesses' \in Nat
<1>1. /\ state \in CB!States /\ timeoutExpired \in BOOLEAN
      /\ consecutiveFailures \in Nat /\ halfOpenSuccesses \in Nat
      /\ consecutiveFailures + 1 \in Nat /\ halfOpenSuccesses + 1 \in Nat
      /\ {"OPEN", "HALF_OPEN", "CLOSED"} \subseteq CB!States
  BY DEF RestOK, CB!States
<1>2. CASE UNCHANGED <<state, consecutiveFailures, halfOpenSuccesses, timeoutExpired>>
  BY <1>1, <1>2
<1>3. CASE Admitted
  BY <1>1, <1>2, <1>3, TransitionTypes DEF Admitted, circuitVars
<1>4. CASE CB!RecordFailure
  <2>1. CASE UNCHANGED <<state, halfOpenSuccesses, timeoutExpired>>
             /\ consecutiveFailures' = consecutiveFailures + 1
    BY <1>1, <2>1
  <2>2. CASE CB!TransitionTo("OPEN", consecutiveFailures + 1, halfOpenSuccesses)
    BY <1>1, <2>2, TransitionTypes
  <2>. QED BY <1>4, <2>1, <2>2 DEF CB!RecordFailure
<1>5. CASE CB!RecordSuccess
  <2>1. CASE CB!TransitionTo("CLOSED", consecutiveFailures, halfOpenSuccesses + 1)
    BY <1>1, <2>1, TransitionTypes
  <2>2. CASE halfOpenSuccesses' = halfOpenSuccesses + 1
             /\ UNCHANGED <<state, consecutiveFailures, timeoutExpired>>
    BY <1>1, <2>2
  <2>3. CASE consecutiveFailures' = 0
             /\ UNCHANGED <<state, halfOpenSuccesses, timeoutExpired>>
    BY <1>1, <2>3
  <2>. QED BY <1>2, <1>5, <2>1, <2>2, <2>3 DEF CB!RecordSuccess, CB!circuitVars
<1>. QED BY <1>2, <1>3, <1>4, <1>5 DEF circuitVars

LEMMA RestKept ==
  ASSUME RestOK,
         \/ CB!RecordSuccess \/ CB!RecordFailure \/ Admitted
         \/ UNCHANGED circuitVars,
         life' \in {"off", "up", "closing", "stalled"}, connected' \in BOOLEAN,
         UNCHANGED faults \/ faults' = faults + 1,
         UNCHANGED closes \/ closes' = closes + 1
  PROVE  RestOK'
<1>1. faults' \in Nat /\ closes' \in Nat
  BY DEF RestOK
<1>. QED BY <1>1, CircuitTypes, Zenon DEF RestOK

LEMMA KInvLife ==
  ASSUME KInv, Initialize \/ Close \/ Disconnect \/ DisconnectFails \/ TimeoutElapses
  PROVE  KInv'
<1>1. RestOK'
  <2>1. CASE TimeoutElapses
    <3>1. /\ timeoutExpired' = TRUE
          /\ UNCHANGED <<state, consecutiveFailures, halfOpenSuccesses, life, connected,
                         faults, closes>>
      BY <2>1 DEF TimeoutElapses, CB!TimeoutElapses
    <3>. QED BY <3>1, Zenon DEF KInv, RestOK
  <2>2. CASE Initialize
    BY <2>2, RestKept DEF KInv, Initialize
  <2>3. CASE Disconnect
    BY <2>3, RestKept DEF KInv, Disconnect
  <2>4. CASE DisconnectFails
    BY <2>4, RestKept DEF KInv, RestOK, DisconnectFails
  <2>5. CASE Close
    BY <2>5, RestKept DEF KInv, RestOK, Close
  <2>. QED BY <2>1, <2>2, <2>3, <2>4, <2>5
<1>2. Waits'
  <2>1. CASE UNCHANGED <<call, bufferVars>>
    BY <2>1 DEF KInv, Waits, bufferVars, drainVars
  <2>2. CASE Close
    <3>1. UNCHANGED <<call, buffer, tries, fate>>
      BY <2>2 DEF Close
    <3>2. CASE EndDrain
      BY <3>1, <3>2, LetGo DEF EndDrain, KInv, Waits, Drains
    <3>3. CASE UNCHANGED drainVars
      BY <3>1, <3>3 DEF drainVars, KInv, Waits
    <3>. QED BY <2>2, <3>2, <3>3 DEF Close
  <2>. QED BY <2>1, <2>2 DEF Initialize, Disconnect, DisconnectFails, TimeoutElapses
<1>. QED BY <1>1, <1>2 DEF KInv

LEMMA KInvSend ==
  ASSUME KInv, NEW m \in Messages,
         \/ SendToKafka(m) \/ SendRejected(m) \/ SendWithoutClient(m)
         \/ SendSucceeds(m) \/ SendFails(m) \/ SendCancelled(m)
  PROVE  KInv'
<1>1. RestOK'
  <2>1. UNCHANGED <<life, connected, closes>>
    BY Zenon DEF SendToKafka, SendRejected, SendWithoutClient, SendSucceeds, SendFails,
       SendCancelled
  <2>2. UNCHANGED faults \/ faults' = faults + 1
    BY Zenon DEF SendToKafka, SendRejected, SendWithoutClient, SendSucceeds, SendFails,
       SendCancelled
  <2>3. \/ CB!RecordSuccess \/ CB!RecordFailure \/ Admitted
        \/ UNCHANGED circuitVars
    BY Zenon DEF SendToKafka, SendRejected, SendWithoutClient, SendSucceeds, SendFails,
       SendCancelled
  <2>4. life' \in {"off", "up", "closing", "stalled"} /\ connected' \in BOOLEAN
    BY <2>1, Zenon DEF KInv, RestOK
  <2>. QED BY <2>1, <2>2, <2>3, <2>4, RestKept DEF KInv
<1>2. /\ Sound(buffer, held, toRetry, fate, tries, call)
      /\ Drains(drainer, held, toRetry)
      /\ state' \in CB!States
  BY <1>1 DEF KInv, Waits, RestOK
<1>3. call[m] # "idle" => fate[m] = "new"
  BY <1>2 DEF Sound, Marked
<1>4. CASE SendToKafka(m)
  <2>1. /\ fate[m] = "new" /\ call' = [call EXCEPT ![m] = state']
        /\ UNCHANGED <<buffer, held, toRetry, fate, tries, drainer>>
    BY <1>4 DEF SendToKafka, Ready, bufferVars, drainVars
  <2>2. Sound(buffer, held, toRetry, fate, tries, call')
    BY <1>2, <2>1, SoundCall
  <2>. QED BY <1>1, <1>2, <2>1, <2>2 DEF KInv, Waits
<1>5. CASE SendRejected(m) \/ SendWithoutClient(m)
  <2>1. /\ fate[m] = "new" /\ call[m] = "idle" /\ Add(m)
        /\ UNCHANGED <<call, held, toRetry, tries, drainer>>
    BY <1>5 DEF SendRejected, SendWithoutClient, Ready, Add, drainVars
  <2>2. Sound(buffer', held, toRetry, fate', tries, call)
    BY <1>2, <2>1, SoundAdd
  <2>. QED BY <1>1, <1>2, <2>1, <2>2 DEF KInv, Waits
<1>6. CASE SendSucceeds(m) \/ SendCancelled(m)
  <2>1. PICK x \in {"sent", "cancelled"} :
          /\ call' = [call EXCEPT ![m] = "idle"] /\ fate' = [fate EXCEPT ![m] = x]
          /\ call[m] # "idle"
          /\ UNCHANGED <<buffer, held, toRetry, tries, drainer>>
    BY <1>6 DEF SendSucceeds, SendCancelled, drainVars
  <2>2. x \in Fates \ {"new", "queued"}
    BY DEF Fates
  <2>3. Sound(buffer, held, toRetry, fate', tries, call')
    BY <1>2, <1>3, <2>1, <2>2, SoundEnd
  <2>. QED BY <1>1, <1>2, <2>1, <2>3 DEF KInv, Waits
<1>7. CASE SendFails(m)
  <2>1. /\ call' = [call EXCEPT ![m] = "idle"] /\ call[m] # "idle" /\ Add(m)
        /\ UNCHANGED <<held, toRetry, tries, drainer>>
    BY <1>7 DEF SendFails, Add, drainVars
  <2>2. Sound(buffer, held, toRetry, fate, tries, call')
    BY <1>2, <1>3, <2>1, SoundCall
  <2>3. call'[m] = "idle"
    BY <1>2, <2>1 DEF Sound, Marked
  <2>4. Sound(buffer', held, toRetry, fate', tries, call')
    BY <1>3, <2>1, <2>2, <2>3, SoundAdd
  <2>. QED BY <1>1, <1>2, <2>1, <2>4 DEF KInv, Waits
<1>. QED BY <1>4, <1>5, <1>6, <1>7

LEMMA KInvDrain ==
  ASSUME KInv,
         LoopDrains \/ FlushDrains \/ RetrySucceeds \/ RetryFails \/ FlushCancelled
  PROVE  KInv'
<1>1. /\ Sound(buffer, held, toRetry, fate, tries, call)
      /\ Drains(drainer, held, toRetry)
  BY DEF KInv, Waits
<1>2. RestOK'
  <2>1. UNCHANGED <<circuitVars, life, connected, faults, closes>>
    BY Zenon DEF LoopDrains, FlushDrains, StartDrain, RetrySucceeds, RetryFails,
       FlushCancelled
  <2>. QED BY <2>1, RestKept DEF KInv, RestOK
<1>3. ASSUME NEW by \in {"loop", "flush"}, StartDrain(by)
      PROVE  Waits'
  <2>1. /\ drainer = "none" /\ buffer # <<>> /\ drainer' = by
        /\ held' = Head(buffer) /\ buffer' = Tail(buffer)
        /\ UNCHANGED <<tries, toRetry, fate, call>>
    BY <1>3 DEF StartDrain
  <2>2. held = NoMessage
    BY <1>1, <2>1 DEF Drains
  <2>3. /\ Sound(Tail(buffer), Head(buffer), toRetry, fate, tries, call)
        /\ Head(buffer) # NoMessage
    BY <1>1, <2>1, <2>2, SoundPop
  <2>. QED BY <2>1, <2>3 DEF Waits, Drains
<1>4. ASSUME held # NoMessage
      PROVE  drainer \in {"loop", "flush"}
  BY <1>1, <1>4 DEF Drains
<1>5. CASE RetrySucceeds
  <2>. DEFINE f == [fate EXCEPT ![held] = "delivered"]
  <2>1. held # NoMessage /\ Continue(toRetry, tries, f) /\ UNCHANGED <<tries, call>>
    BY <1>5 DEF RetrySucceeds
  <2>2. Sound(buffer, NoMessage, toRetry, f, tries, call)
    BY <1>1, <2>1, SoundDelivered
  <2>. HIDE DEF f
  <2>3. /\ Sound(buffer', held', toRetry', fate', tries, call)
        /\ Drains(drainer', held', toRetry')
    BY <1>4, <2>1, <2>2, SoundContinue
  <2>. QED BY <1>2, <2>1, <2>3 DEF KInv, Waits
<1>6. CASE RetryFails
  <2>. DEFINE r == Append(toRetry, held)
  <2>1. /\ held # NoMessage /\ tries' = [tries EXCEPT ![held] = @ + 1]
        /\ Continue(r, tries', fate) /\ UNCHANGED call
    BY <1>6 DEF RetryFails
  <2>2. Sound(buffer, NoMessage, r, fate, tries', call)
    BY <1>1, <2>1, SoundFailed
  <2>. HIDE DEF r
  <2>3. /\ Sound(buffer', held', toRetry', fate', tries', call)
        /\ Drains(drainer', held', toRetry')
    BY <1>4, <2>1, <2>2, SoundContinue
  <2>. QED BY <1>2, <2>1, <2>3 DEF KInv, Waits
<1>7. CASE FlushCancelled
  <2>1. EndDrain /\ UNCHANGED <<buffer, tries, fate, call>>
    BY <1>7 DEF FlushCancelled
  <2>. QED BY <1>1, <1>2, <2>1, LetGo DEF EndDrain, KInv, Waits, Drains
<1>. QED BY <1>2, <1>3, <1>5, <1>6, <1>7 DEF LoopDrains, FlushDrains, KInv

LEMMA InitKInv == Init => KInv
<1>. SUFFICES ASSUME Init PROVE KInv
  OBVIOUS
<1>1. RestOK
  <2>1. state \in CB!States
    BY DEF Init, CB!States
  <2>2. timeoutExpired \in BOOLEAN /\ connected \in BOOLEAN
    BY Zenon DEF Init
  <2>3. /\ consecutiveFailures \in Nat /\ halfOpenSuccesses \in Nat
        /\ faults \in Nat /\ closes \in Nat /\ life \in {"off", "up", "closing", "stalled"}
    BY DEF Init
  <2>. QED BY <2>1, <2>2, <2>3, Zenon DEF RestOK
<1>2. Shape(buffer, held, toRetry)
  BY EmptyElements, ProducerAssumption DEF Init, Shape
<1>3. Marked({}, held, {}, fate, tries, call)
  BY ProducerAssumption DEF Init, Marked, Fates
<1>4. Drains(drainer, held, toRetry)
  BY DEF Init, Drains
<1>. QED BY <1>1, <1>2, <1>3, <1>4, EmptyElements DEF Init, KInv, Waits, Sound

LEMMA NextKInv == KInv /\ [Next]_vars => KInv'
<1>. SUFFICES ASSUME KInv, [Next]_vars PROVE KInv'
  OBVIOUS
<1>1. CASE UNCHANGED vars
  <2>1. UNCHANGED <<state, consecutiveFailures, halfOpenSuccesses, timeoutExpired, life,
                    connected, call, faults, closes, buffer, tries, drainer, held,
                    toRetry, fate>>
    BY <1>1 DEF vars, circuitVars, bufferVars, drainVars
  <2>2. RestOK'
    BY <2>1, Zenon DEF KInv, RestOK
  <2>. QED BY <2>1, <2>2 DEF KInv, Waits
<1>. QED BY <1>1, KInvLife, KInvSend, KInvDrain DEF Next

\* The inductive invariant holds of every behaviour.
THEOREM Invariant == Spec => []KInv
BY InitKInv, NextKInv, PTL DEF Spec

\* Every variable keeps its type; the buffer never exceeds max_size.
THEOREM TypeCorrect == Spec => []TypeOK
<1>1. KInv => TypeOK
  <2>. SUFFICES ASSUME KInv PROVE TypeOK
    OBVIOUS
  <2>1. /\ buffer \in Seq(Messages) /\ Len(buffer) <= MaxSize
        /\ held \in Messages \cup {NoMessage} /\ toRetry \in Seq(Messages)
        /\ fate \in [Messages -> Fates] /\ tries \in [Messages -> Nat]
        /\ call \in [Messages -> {"idle"} \cup CB!States]
        /\ drainer \in {"none", "loop", "flush"}
    BY Zenon DEF KInv, Waits, Sound, Shape, Marked, Drains
  <2>. QED BY <2>1, Zenon DEF KInv, RestOK, TypeOK
<1>. QED BY <1>1, Invariant, PTL

\* A waiting message is in one place, queued, and in no send() in progress.
THEOREM OnePlaceOneFate == Spec => []OneFate
<1>1. KInv => OneFate
  <2>. SUFFICES ASSUME KInv PROVE OneFate
    OBVIOUS
  <2>. DEFINE h == IF held = NoMessage THEN <<>> ELSE <<held>>
  <2>1. /\ Shape(buffer, held, toRetry)
        /\ Marked(Elements(buffer), held, Elements(toRetry), fate, tries, call)
        /\ NoMessage \notin Messages
        /\ Elements(buffer) \subseteq Messages /\ Elements(toRetry) \subseteq Messages
    BY SoundFacts, ProducerAssumption DEF KInv, Waits, Sound
  <2>2. /\ h \in Seq(Messages) /\ Distinct(h)
        /\ Elements(h) = IF held = NoMessage THEN {} ELSE {held}
    <3>1. CASE held = NoMessage
      BY <3>1, EmptyElements
    <3>2. CASE held # NoMessage
      BY <2>1, <3>2 DEF Shape, Elements, Distinct
    <3>. QED BY <3>1, <3>2
  <2>. HIDE DEF h
  <2>3. /\ buffer \o h \in Seq(Messages) /\ Distinct(buffer \o h)
        /\ Elements(buffer \o h) = Elements(buffer) \cup Elements(h)
    BY <2>1, <2>2, ConcatDistinct DEF Shape
  <2>4. /\ Distinct((buffer \o h) \o toRetry)
        /\ Elements((buffer \o h) \o toRetry) =
             Elements(buffer) \cup Elements(h) \cup Elements(toRetry)
    <3>. DEFINE p == buffer \o h
    <3>1. /\ p \in Seq(Messages) /\ Distinct(p)
          /\ Elements(p) = Elements(buffer) \cup Elements(h)
      BY <2>3
    <3>2. toRetry \in Seq(Messages) /\ Distinct(toRetry)
      BY <2>1 DEF Shape
    <3>3. Elements(p) \cap Elements(toRetry) = {}
      BY <2>1, <2>2, <3>1 DEF Shape
    <3>. HIDE DEF p
    <3>4. Distinct(p \o toRetry) /\ Elements(p \o toRetry) = Elements(p) \cup Elements(toRetry)
      BY <3>1, <3>2, <3>3, ConcatDistinct
    <3>. QED BY <3>1, <3>4 DEF p
  <2>5. Waiting = (buffer \o h) \o toRetry
    BY DEF Waiting, h
  <2>6. \A m \in Elements(Waiting) : fate[m] = "queued" /\ call[m] = "idle"
    BY <2>1, <2>2, <2>4, <2>5 DEF Marked, Shape
  <2>. QED BY <2>4, <2>5, <2>6, Zenon DEF OneFate, Distinct
<1>. QED BY <1>1, Invariant, PTL

\* No message is retried more than max_retries times.
THEOREM RetriesAreBounded == Spec => []WithinRetryBudget
<1>1. KInv => WithinRetryBudget
  BY Zenon DEF KInv, Waits, Sound, Marked, WithinRetryBudget
<1>. QED BY <1>1, Invariant, PTL

-----------------------------------------------------------------------------
(* The producer and its breaker.                                           *)

\* What the breaker of the model sees of a step: its own step, or an
\* admission that nothing is reported for.
Driven == CB!Next \/ (Admitted /\ UNCHANGED <<call, faults>>)

LEMMA BreakerInit == Init => CB!Init
<1>. SUFFICES ASSUME Init PROVE CB!Init
  OBVIOUS
<1>1. <<>> = [r \in {} |-> 0] /\ <<>> = [d \in {} |-> NoMessage]
  OBVIOUS
<1>. QED BY <1>1 DEF Init, CB!Init, CB!Strategies

LEMMA SendDrives ==
  ASSUME NEW m \in Messages
  PROVE  /\ SendToKafka(m) => Driven
         /\ SendWithoutClient(m) => Driven
         /\ SendSucceeds(m) => Driven
         /\ SendFails(m) => Driven
         /\ SendCancelled(m) => Driven
<1>1. ASSUME SendToKafka(m) PROVE CB!Admit(m)
  BY <1>1, Zenon DEF SendToKafka, Ready, Admitted, CB!Admit, circuitVars, CB!circuitVars, CB!queueVars
<1>2. ASSUME SendWithoutClient(m) PROVE Admitted /\ UNCHANGED <<call, faults>>
  BY <1>2 DEF SendWithoutClient
<1>3. ASSUME SendSucceeds(m) PROVE CB!CallSucceeds(m)
  BY <1>3, Zenon DEF SendSucceeds, CB!CallSucceeds, CB!queueVars
<1>4. ASSUME SendFails(m) PROVE CB!CallFails(m)
  BY <1>4, Zenon DEF SendFails, CB!CallFails, CB!queueVars
<1>5. ASSUME SendCancelled(m) PROVE CB!CallCancelled(m)
  BY <1>5, Zenon DEF SendCancelled, CB!CallCancelled, CB!queueVars, circuitVars, CB!circuitVars
<1>6. ASSUME \/ CB!Admit(m) \/ CB!CallSucceeds(m) \/ CB!CallFails(m)
             \/ CB!CallCancelled(m)
      PROVE  CB!Next
  BY <1>6, Zenon DEF CB!Next
<1>. QED BY <1>1, <1>2, <1>3, <1>4, <1>5, <1>6, Zenon DEF Driven

\* The producer takes the breaker's steps, and it does so for whole calls of
\* send(): what else happens leaves the breaker and its callers alone.
THEOREM DrivesBreaker == Spec => UsesBreaker
<1>1. Init => CB!Init
  BY BreakerInit
<1>2. [Next]_vars => [Driven]_<<circuitVars, call, faults>>
  <2>1. ASSUME UNCHANGED vars PROVE UNCHANGED <<circuitVars, call, faults>>
    BY <2>1 DEF vars
  <2>2. ASSUME TimeoutElapses PROVE Driven
    <3>1. CB!TimeoutElapses
      BY <2>2 DEF TimeoutElapses
    <3>. QED BY <3>1, Zenon DEF CB!Next, Driven
  <2>3. ASSUME Initialize \/ Close \/ Disconnect \/ DisconnectFails
        PROVE  UNCHANGED <<circuitVars, call, faults>>
    BY <2>3 DEF Initialize, Close, Disconnect, DisconnectFails
  <2>4. ASSUME NEW m \in Messages, SendRejected(m)
        PROVE  UNCHANGED <<circuitVars, call, faults>>
    BY <2>4 DEF SendRejected
  <2>5. ASSUME \/ LoopDrains \/ FlushDrains
               \/ RetrySucceeds \/ RetryFails \/ FlushCancelled
        PROVE  UNCHANGED <<circuitVars, call, faults>>
    BY <2>5, Zenon DEF LoopDrains, FlushDrains, StartDrain, RetrySucceeds, RetryFails,
       FlushCancelled
  <2>. QED BY <2>1, <2>2, <2>3, <2>4, <2>5, SendDrives, Zenon DEF Next
<1>3. Driven <=> CB!Next \/ (Admitted /\ UNCHANGED <<call, faults>>)
  BY DEF Driven
<1>. QED BY <1>1, <1>2, <1>3, PTL DEF Spec, UsesBreaker

=============================================================================
