-------------------------- MODULE Readings_proofs --------------------------
(***************************************************************************)
(* For any machines, screens, history length, samples and upsets: a GPU's  *)
(* sparkline is its own last loads, and a frame is laid out by the plan it *)
(* asks for.                                                               *)
(***************************************************************************)
EXTENDS Readings, FiniteSetTheorems, SequenceTheorems, TLAPS

-----------------------------------------------------------------------------
(* The ring buffer of history.rs.                                          *)

RingOK(buf) ==
  /\ \E S : buf.data \in Seq(S)
  /\ Len(buf.data) <= Capacity /\ buf.head \in 0 .. Capacity - 1 /\ buf.full \in BOOLEAN
  /\ buf.full => Len(buf.data) = Capacity
  /\ ~buf.full => buf.head = IF Len(buf.data) < Capacity THEN Len(buf.data) ELSE 0

\* Positions run around the buffer.
LEMMA ModSmall == \A x \in 0 .. Capacity - 1 : x % Capacity = x
  BY ReadingsAssumption
LEMMA ModWrap == \A x \in Capacity .. 2 * Capacity - 1 : x % Capacity = x - Capacity
  BY ReadingsAssumption

LEMMA RingBufferOK == RingOK(RingBuffer) /\ Samples(RingBuffer) = <<>>
<1>1. Len(<<>>) = 0 /\ <<>> \in Seq({})
  BY EmptySeq
<1>2. RingOK(RingBuffer)
  BY <1>1, ReadingsAssumption DEF RingOK, RingBuffer
<1>3. Samples(RingBuffer) = <<>>
  BY <1>1 DEF Samples, RingBuffer
<1> QED BY <1>2, <1>3

\* Where the k-th oldest sample is.
Position(start, k) == IF start + k <= Capacity THEN start + k ELSE start + k - Capacity
Start(buf) == IF Len(buf.data) < Capacity THEN 0 ELSE buf.head

LEMMA Around ==
  ASSUME NEW start \in 0 .. Capacity - 1, NEW k \in 1 .. Capacity
  PROVE  ((start + k - 1) % Capacity) + 1 = Position(start, k)
<1>1. Capacity \in Nat \ {0}
  BY ReadingsAssumption
<1>2. PICK x \in Int : x = start + k - 1
  BY <1>1
<1>3. CASE start + k <= Capacity
  <2>1. x \in 0 .. Capacity - 1
    BY <1>1, <1>2, <1>3
  <2>2. x % Capacity = x
    BY <2>1, ModSmall
  <2> QED BY <1>1, <1>2, <1>3, <2>2 DEF Position
<1>4. CASE start + k > Capacity
  <2>1. x \in Capacity .. 2 * Capacity - 1
    BY <1>1, <1>2, <1>4
  <2>2. x % Capacity = x - Capacity
    BY <2>1, ModWrap
  <2>3. (start + k - 1) % Capacity = x - Capacity
    BY <1>2, <2>2
  <2>4. Position(start, k) = start + k - Capacity
    BY <1>1, <1>4 DEF Position
  <2> QED BY <1>1, <1>2, <2>3, <2>4
<1> QED BY <1>1, <1>3, <1>4

\* What the samples of a buffer are, oldest first.
LEMMA SamplesAre ==
  ASSUME NEW buf, RingOK(buf), NEW S, buf.data \in Seq(S)
  PROVE  /\ Samples(buf) \in Seq(S) /\ Len(Samples(buf)) = Len(buf.data)
         /\ \A k \in 1 .. Len(buf.data) : Samples(buf)[k] = buf.data[Position(Start(buf), k)]
<1> DEFINE n == Len(buf.data)
           start == IF buf.full THEN buf.head ELSE 0
<1>1. /\ n \in Nat /\ DOMAIN buf.data = 1 .. n /\ n <= Capacity /\ Capacity \in Nat \ {0}
      /\ \A k \in 1 .. n : buf.data[k] \in S
  BY LenProperties, ElementOfSeq, ReadingsAssumption DEF RingOK
<1>2. start = Start(buf) /\ start \in 0 .. Capacity - 1 /\ (n < Capacity => start = 0)
  BY <1>1 DEF RingOK, Start
<1>3. \A k \in 1 .. n : ((start + k - 1) % Capacity) + 1 = Position(start, k)
  <2> HIDE DEF start
  <2> QED BY <1>1, <1>2, Around
<1>4. \A k \in 1 .. n : Position(start, k) \in 1 .. n
  <2> HIDE DEF start
  <2> QED BY <1>1, <1>2 DEF Position
<1>5. Samples(buf) = [k \in 1 .. n |-> buf.data[((start + k - 1) % Capacity) + 1]]
  BY DEF Samples
<1> HIDE DEF start
<1>6. Samples(buf) = [k \in 1 .. n |-> buf.data[Position(start, k)]]
  BY <1>3, <1>5
<1>7. Samples(buf) \in [1 .. n -> S]
  BY <1>1, <1>4, <1>6
<1>8. Samples(buf) \in Seq(S) /\ Len(Samples(buf)) = n
  BY <1>1, <1>7, LenProperties, SeqDef
<1> QED BY <1>2, <1>6, <1>8

\* push drops the oldest sample of a full buffer, and only that.
LEMMA PushKeeps ==
  ASSUME NEW buf, RingOK(buf), NEW v
  PROVE  /\ RingOK(Push(buf, v))
         /\ Samples(Push(buf, v)) =
              IF Len(Samples(buf)) < Capacity THEN Append(Samples(buf), v)
              ELSE Append(Tail(Samples(buf)), v)
<1>1. PICK R : buf.data \in Seq(R)
  BY DEF RingOK
<1> DEFINE S == R \cup {v}
           new == Push(buf, v)
           n == Len(buf.data)
<1>2. /\ buf.data \in Seq(S) /\ n \in Nat /\ Capacity \in Nat \ {0} /\ v \in S
      /\ DOMAIN buf.data = 1 .. n /\ n <= Capacity
  BY <1>1, SeqMonotonic, LenProperties, ReadingsAssumption DEF RingOK
<1> HIDE DEF S
<1>3. /\ Samples(buf) \in Seq(S) /\ Len(Samples(buf)) = n
      /\ \A k \in 1 .. n : Samples(buf)[k] = buf.data[Position(Start(buf), k)]
  BY <1>2, SamplesAre
<1>4. /\ new.data = IF n < Capacity THEN Append(buf.data, v)
                    ELSE [buf.data EXCEPT ![buf.head + 1] = v]
      /\ new.full = (buf.full \/ n >= Capacity) /\ new.head = (buf.head + 1) % Capacity
  BY DEF Push
<1>5. new.head = IF buf.head + 1 < Capacity THEN buf.head + 1 ELSE 0
  <2>1. buf.head \in 0 .. Capacity - 1
    BY DEF RingOK
  <2>2. CASE buf.head + 1 < Capacity
    BY <1>2, <1>4, <2>1, <2>2, ModSmall
  <2>3. CASE buf.head + 1 = Capacity
    <3>1. Capacity \in Capacity .. 2 * Capacity - 1
      BY <1>2
    <3> QED BY <1>2, <1>4, <2>3, <3>1, ModWrap
  <2> QED BY <1>2, <2>1, <2>2, <2>3
<1>6. CASE n < Capacity
  <2>1. /\ new.data \in Seq(S) /\ Len(new.data) = n + 1 /\ new.data[n + 1] = v
        /\ \A k \in 1 .. n : new.data[k] = buf.data[k]
    BY <1>2, <1>4, <1>6, AppendProperties
  <2>2. ~buf.full /\ ~new.full /\ buf.head = n
    BY <1>2, <1>4, <1>6 DEF RingOK
  <2>3. RingOK(new)
    <3>1. new.head = IF n + 1 < Capacity THEN n + 1 ELSE 0
      BY <1>5, <2>2
    <3>2. \E T : new.data \in Seq(T)
      BY <2>1
    <3>3. new.full \in BOOLEAN /\ new.full = FALSE
      BY <2>2, <1>2, <1>4, <1>6 DEF RingOK
    <3>4. Len(new.data) <= Capacity /\ new.head \in 0 .. Capacity - 1
      BY <1>2, <1>6, <2>1, <3>1
    <3> QED BY <2>1, <3>1, <3>2, <3>3, <3>4 DEF RingOK
  <2>4. /\ Samples(new) \in Seq(S) /\ Len(Samples(new)) = n + 1
        /\ \A k \in 1 .. n + 1 : Samples(new)[k] = new.data[Position(Start(new), k)]
    BY <2>1, <2>3, SamplesAre
  <2>5. \A k \in 1 .. n + 1 : Samples(new)[k] = new.data[k]
    <3>1. Start(new) = 0
      BY <1>2, <1>5, <1>6, <2>1, <2>2 DEF Start
    <3>2. \A k \in 1 .. n + 1 : Position(0, k) = k
      BY <1>2, <1>6 DEF Position
    <3> QED BY <2>4, <3>1, <3>2
  <2>6. /\ Append(Samples(buf), v) \in Seq(S) /\ Len(Append(Samples(buf), v)) = n + 1
        /\ Append(Samples(buf), v)[n + 1] = v
        /\ \A k \in 1 .. n : Append(Samples(buf), v)[k] = Samples(buf)[k]
    BY <1>2, <1>3, AppendProperties
  <2>7. \A k \in 1 .. n + 1 : Samples(new)[k] = Append(Samples(buf), v)[k]
    <3>1. \A k \in 1 .. n : Position(Start(buf), k) = k
      BY <1>2, <1>6 DEF Start, Position
    <3>2. \A k \in 1 .. n + 1 : k = n + 1 \/ k \in 1 .. n
      BY <1>2
    <3> QED BY <1>3, <2>1, <2>5, <2>6, <3>1, <3>2
  <2>8. Samples(new) = Append(Samples(buf), v)
    BY <2>4, <2>6, <2>7, SeqEqual
  <2> QED BY <1>3, <1>6, <2>3, <2>8
<1>7. CASE n = Capacity
  <2>1. buf.head \in 0 .. Capacity - 1 /\ new.head \in 0 .. Capacity - 1
    BY <1>2, <1>5 DEF RingOK
  <2>2. /\ new.data \in Seq(S) /\ Len(new.data) = n /\ new.data[buf.head + 1] = v
        /\ \A k \in 1 .. n : k # buf.head + 1 => new.data[k] = buf.data[k]
    BY <1>2, <1>4, <1>7, <2>1, ExceptSeq
  <2>3. RingOK(new)
    <3>1. new.full = TRUE
      BY <1>2, <1>4, <1>7 DEF RingOK
    <3> QED BY <1>2, <1>7, <2>1, <2>2, <3>1 DEF RingOK
  <2>4. /\ Samples(new) \in Seq(S) /\ Len(Samples(new)) = n
        /\ \A k \in 1 .. n : Samples(new)[k] = new.data[Position(Start(new), k)]
    BY <2>2, <2>3, SamplesAre
  <2>5. Samples(buf) # <<>>
    BY <1>2, <1>3, <1>7, EmptySeq
  <2>6. /\ Tail(Samples(buf)) \in Seq(S) /\ Len(Tail(Samples(buf))) = n - 1
        /\ \A k \in 1 .. n - 1 : Tail(Samples(buf))[k] = Samples(buf)[k + 1]
    BY <1>3, <2>5, HeadTailProperties
  <2>7. /\ Append(Tail(Samples(buf)), v) \in Seq(S) /\ Len(Append(Tail(Samples(buf)), v)) = n
        /\ Append(Tail(Samples(buf)), v)[n] = v
        /\ \A k \in 1 .. n - 1 : Append(Tail(Samples(buf)), v)[k] = Samples(buf)[k + 1]
    BY <1>2, <1>7, <2>6, AppendProperties
  <2>8. Start(buf) = buf.head /\ Start(new) = new.head
    BY <1>2, <1>7, <2>2 DEF Start
  <2>9. Samples(new)[n] = v
    <3>1. Position(new.head, n) = buf.head + 1
      BY <1>2, <1>5, <1>7, <2>1 DEF Position
    <3> QED BY <1>2, <1>7, <2>2, <2>4, <2>8, <3>1
  <2>10. ASSUME NEW k \in 1 .. n - 1 PROVE Samples(new)[k] = Samples(buf)[k + 1]
    <3>1. Position(new.head, k) = Position(buf.head, k + 1)
      BY <1>2, <1>5, <1>7, <2>1 DEF Position
    <3>2. Position(buf.head, k + 1) \in 1 .. n /\ Position(buf.head, k + 1) # buf.head + 1
      BY <1>2, <1>7, <2>1 DEF Position
    <3>3. k \in 1 .. n /\ k + 1 \in 1 .. n
      BY <1>2
    <3> QED BY <1>3, <2>2, <2>4, <2>8, <3>1, <3>2, <3>3
  <2>11. \A k \in 1 .. n : Samples(new)[k] = Append(Tail(Samples(buf)), v)[k]
    BY <1>2, <1>7, <2>7, <2>9, <2>10
  <2>12. Samples(new) = Append(Tail(Samples(buf)), v)
    BY <2>4, <2>7, <2>11, SeqEqual
  <2> QED BY <1>3, <1>7, <2>3, <2>12
<1> QED BY <1>2, <1>6, <1>7

-----------------------------------------------------------------------------
(* Lists chosen from lists.                                                *)

\* The k-th element of a list is the one at pick[k] of the list it comes from: no
\* position is picked twice, and each of `keep` is.
Picks(pick, c, keep) ==
  /\ c \in Nat /\ pick \in [1 .. c -> keep]
  /\ \A a, b \in 1 .. c : pick[a] = pick[b] => a = b
  /\ \A k \in keep : \E r \in 1 .. c : pick[r] = k

\* These are the positions that Chosen picks.
Chooses(list, keep, c, pick) ==
  /\ Picks(pick, c, keep) /\ DOMAIN Chosen(list, keep) = 1 .. c
  /\ \A r \in 1 .. c : Chosen(list, keep)[r] = list[pick[r]]

LEMMA ChosenPicks ==
  ASSUME NEW n \in Nat, NEW list, NEW keep \in SUBSET (1 .. n)
  PROVE  \E c, pick : Chooses(list, keep, c, pick)
<1> DEFINE c == Cardinality(keep)
           UpTo(k) == {j \in keep : j <= k}
           rank == [k \in keep |-> Cardinality(UpTo(k))]
           Nth(r) == CHOOSE k \in keep : Cardinality(UpTo(k)) = r
           pick == [r \in 1 .. c |-> Nth(r)]
<1>1. IsFiniteSet(keep) /\ c \in Nat /\ keep \subseteq Nat
  <2>1. IsFiniteSet(1 .. n)
    <3>1. 1 \in Int /\ n \in Int
      OBVIOUS
    <3> QED BY <3>1, FS_Interval
  <2>2. IsFiniteSet(keep)
    BY <2>1, FS_Subset
  <2>3. c \in Nat
    BY <2>2, FS_CardinalityType
  <2> QED BY <2>2, <2>3
<1>2. \A k \in keep : /\ IsFiniteSet(UpTo(k)) /\ UpTo(k) \in SUBSET keep
                      /\ Cardinality(UpTo(k)) \in 1 .. c
  <2> TAKE k \in keep
  <2>1. UpTo(k) \in SUBSET keep /\ k \in UpTo(k)
    BY <1>1
  <2>2. IsFiniteSet(UpTo(k)) /\ Cardinality(UpTo(k)) <= c /\ Cardinality(UpTo(k)) \in Nat
    BY <1>1, <2>1, FS_Subset, FS_CardinalityType
  <2>3. Cardinality(UpTo(k)) # 0
    BY <2>1, <2>2, FS_EmptySet
  <2> QED BY <1>1, <2>1, <2>2, <2>3
<1>3. ASSUME NEW j \in keep, NEW k \in keep, j < k
      PROVE  Cardinality(UpTo(j)) # Cardinality(UpTo(k))
  <2>0. j \in Nat /\ k \in Nat
    BY <1>1
  <2>1. UpTo(j) \in SUBSET UpTo(k) /\ k \in UpTo(k) /\ k \notin UpTo(j)
    <3>1. \A i \in keep : i \in Nat
      BY <1>1
    <3>2. k \in UpTo(k) /\ k \notin UpTo(j)
      BY <1>3, <2>0
    <3>3. \A i \in UpTo(j) : i \in UpTo(k)
      BY <1>3, <2>0, <3>1
    <3> QED BY <3>2, <3>3
  <2>2. IsFiniteSet(UpTo(k))
    BY <1>2
  <2> QED BY <2>1, <2>2, FS_Subset
<1>4. \A j, k \in keep : rank[j] = rank[k] => j = k
  BY <1>1, <1>3
<1>5. rank \in Injection(keep, 1 .. c)
  BY <1>2, <1>4 DEF Injection, IsInjective
<1>6. rank \in Surjection(keep, 1 .. c)
  <2>1. IsFiniteSet(1 .. c) /\ Cardinality(1 .. c) = c
    BY <1>1, FS_Interval
  <2> HIDE DEF rank
  <2> QED BY <1>5, <2>1, FS_Injection
<1>7. \A r \in 1 .. c : \E k \in keep : Cardinality(UpTo(k)) = r
  BY <1>6 DEF Surjection
<1>8. \A r \in 1 .. c : pick[r] \in keep /\ Cardinality(UpTo(pick[r])) = r
  <2> TAKE r \in 1 .. c
  <2>1. \E k \in keep : Cardinality(UpTo(k)) = r
    BY <1>7
  <2> HIDE DEF UpTo
  <2>2. Nth(r) \in keep /\ Cardinality(UpTo(Nth(r))) = r
    BY <2>1
  <2> QED BY <2>2
<1>9. Chosen(list, keep) = [r \in 1 .. c |-> list[Nth(r)]]
  BY DEF Chosen
<1>10. \A k \in keep : \E r \in 1 .. c : pick[r] = k
  <2> TAKE k \in keep
  <2>1. rank[k] \in 1 .. c
    BY <1>2
  <2>2. rank[pick[rank[k]]] = rank[k] /\ pick[rank[k]] \in keep
    BY <1>8, <2>1
  <2> HIDE DEF pick, rank
  <2> QED BY <1>4, <2>1, <2>2
<1>11. \A a, b \in 1 .. c : pick[a] = pick[b] => a = b
  <2> HIDE DEF pick, UpTo
  <2> QED BY <1>8
<1>12. Picks(pick, c, keep)
  <2>1. pick \in [1 .. c -> keep]
    BY <1>8
  <2> HIDE DEF pick, c
  <2> QED BY <1>1, <1>10, <1>11, <2>1 DEF Picks
<1>13. DOMAIN Chosen(list, keep) = 1 .. c
  BY <1>9
<1>14. \A r \in 1 .. c : Chosen(list, keep)[r] = list[pick[r]]
  BY <1>9
<1> HIDE DEF pick, c
<1> QED BY <1>12, <1>13, <1>14 DEF Chooses

-----------------------------------------------------------------------------
(* The graphics cards of a snapshot are cards of the machine.              *)

Cards(m) == {k \in DOMAIN m.hw : m.hw[k].type \in GpuTypes}
NamesDiffer(m) == \A j, k \in Cards(m) : m.hw[j].name = m.hw[k].name => j = k

Alike(a, b) == a.name = b.name /\ a.id = b.id
ShowsCards(list, m) ==
  \E c, of : /\ c \in Nat /\ DOMAIN list = 1 .. c /\ of \in [1 .. c -> Cards(m)]
             /\ \A j, k \in 1 .. c : of[j] = of[k] => j = k
             /\ \A k \in 1 .. c : Alike(list[k], m.hw[of[k]])

LEMMA ChosenShown ==
  ASSUME NEW list, NEW m, ShowsCards(list, m), NEW keep \in SUBSET DOMAIN list
  PROVE  ShowsCards(Chosen(list, keep), m)
<1>1. PICK n, of : /\ n \in Nat /\ DOMAIN list = 1 .. n /\ of \in [1 .. n -> Cards(m)]
                   /\ \A j, k \in 1 .. n : of[j] = of[k] => j = k
                   /\ \A k \in 1 .. n : Alike(list[k], m.hw[of[k]])
  BY DEF ShowsCards
<1>2. PICK c, pick : Chooses(list, keep, c, pick)
  <2>1. n \in Nat /\ keep \in SUBSET (1 .. n)
    BY <1>1
  <2> QED BY <2>1, ChosenPicks
<1> DEFINE from == [r \in 1 .. c |-> of[pick[r]]]
<1>3. c \in Nat /\ \A r \in 1 .. c : pick[r] \in 1 .. n
  BY <1>1, <1>2 DEF Chooses, Picks
<1>4. from \in [1 .. c -> Cards(m)] /\ \A r \in 1 .. c : from[r] = of[pick[r]]
  BY <1>1, <1>3
<1> HIDE DEF from
<1>5. \A j, k \in 1 .. c : from[j] = from[k] => j = k
  BY <1>1, <1>2, <1>3, <1>4 DEF Chooses, Picks
<1>6. \A k \in 1 .. c : Alike(Chosen(list, keep)[k], m.hw[from[k]])
  BY <1>1, <1>2, <1>3, <1>4 DEF Chooses
<1> QED BY <1>2, <1>3, <1>4, <1>5, <1>6 DEF ShowsCards, Chooses

\* What an update pass leaves of the tree, and its graphics cards.
LEMMA UpdatedShown ==
  ASSUME NEW m \in Machines, NEW to, NEW upset
  PROVE  ShowsCards(OfType(Updated(m.hw, to, upset), GpuTypes), m)
<1> DEFINE hw == m.hw
           present == {k \in DOMAIN hw : hw[k].id \notin upset.gone}
           there == Chosen(hw, present)
           new == Updated(hw, to, upset)
           cards == {k \in DOMAIN new : new[k].type \in GpuTypes}
<1>1. /\ Len(hw) \in Nat /\ DOMAIN hw = 1 .. Len(hw)
      /\ \A k \in DOMAIN hw : {"type", "name", "id"} \subseteq DOMAIN hw[k]
  BY MachinesAssumption
<1>2. PICK c, pick : Chooses(hw, present, c, pick)
  <2>1. present \in SUBSET (1 .. Len(hw)) /\ Len(hw) \in Nat
    BY <1>1
  <2> HIDE DEF present, hw
  <2> QED BY <2>1, ChosenPicks
<1>3. DOMAIN new = 1 .. c
  BY <1>2 DEF Updated, Chooses
<1>4. \A r \in 1 .. c : pick[r] \in DOMAIN hw
  BY <1>2 DEF Chooses, Picks
<1>5. ASSUME NEW r \in 1 .. c PROVE Alike(new[r], hw[pick[r]]) /\ new[r].type = hw[pick[r]].type
  <2>1. {"type", "name", "id"} \subseteq DOMAIN there[r]
    BY <1>1, <1>2, <1>4 DEF Chooses
  <2>2. \A x, y : LET t == [there[r] EXCEPT !.sensors = x, !.sub = y]
                  IN t.name = there[r].name /\ t.id = there[r].id /\ t.type = there[r].type
    BY <2>1
  <2>3. \E x, y : new[r] = [there[r] EXCEPT !.sensors = x, !.sub = y]
    BY <1>2 DEF Updated, Chooses
  <2> QED BY <1>2, <2>2, <2>3 DEF Alike, Chooses
<1> HIDE DEF new, present, there
<1>6. PICK d, choice : Chooses(new, cards, d, choice)
  <2>1. cards \in SUBSET (1 .. c) /\ c \in Nat
    BY <1>2, <1>3 DEF Chooses, Picks
  <2> HIDE DEF cards
  <2> QED BY <2>1, ChosenPicks
<1> DEFINE from == [r \in 1 .. d |-> pick[choice[r]]]
<1>7. /\ c \in Nat /\ d \in Nat
      /\ \A r \in 1 .. d : choice[r] \in 1 .. c /\ new[choice[r]].type \in GpuTypes
  BY <1>2, <1>3, <1>6 DEF Chooses, Picks
<1>8. from \in [1 .. d -> Cards(m)] /\ \A r \in 1 .. d : from[r] = pick[choice[r]]
  BY <1>4, <1>5, <1>7 DEF Cards
<1> HIDE DEF from
<1>9. ASSUME NEW j \in 1 .. d, NEW k \in 1 .. d, from[j] = from[k] PROVE j = k
  <2>1. choice[j] = choice[k]
    BY <1>2, <1>7, <1>8, <1>9 DEF Chooses, Picks
  <2> QED BY <1>6, <2>1 DEF Chooses, Picks
<1>10. \A k \in 1 .. d : Alike(Chosen(new, cards)[k], hw[from[k]])
  BY <1>5, <1>6, <1>7, <1>8 DEF Chooses, Alike
<1>11. ShowsCards(Chosen(new, cards), m)
  BY <1>6, <1>7, <1>8, <1>9, <1>10 DEF ShowsCards, Chooses
<1> QED BY <1>11 DEF OfType, new

\* Building a section changes neither name nor identifier, and leaves them out or not.
LEMMA SnapshotShown ==
  ASSUME NEW m \in Machines, NEW to, NEW upset, NEW world, NEW throws
  PROVE  ShowsCards(Build(Updated(m.hw, to, upset), world, throws).gpu, m)
<1> DEFINE new == Updated(m.hw, to, upset)
           nodes == OfType(new, GpuTypes)
           all == BuildAllGpus(new)
           gpus == TryBuild("gpu", all, <<>>, throws)
<1>1. ShowsCards(nodes, m)
  BY UpdatedShown
<1>2. ShowsCards(all, m)
  <2>1. DOMAIN all = DOMAIN nodes
    BY DEF BuildAllGpus
  <2>2. \A k \in DOMAIN nodes : Alike(all[k], nodes[k])
    BY DEF BuildAllGpus, BuildGpu, Alike
  <2> HIDE DEF all, nodes
  <2> QED BY <1>1, <2>1, <2>2 DEF ShowsCards, Alike
<1>3. ShowsCards(<<>>, m)
  <2>1. DOMAIN <<>> = 1 .. 0 /\ <<>> \in [1 .. 0 -> Cards(m)] /\ 0 \in Nat
    OBVIOUS
  <2>2. \A k \in 1 .. 0 : FALSE
    OBVIOUS
  <2> QED BY <2>1, <2>2, Zenon DEF ShowsCards
<1>4. ShowsCards(gpus, m)
  BY <1>2, <1>3 DEF TryBuild
<1> HIDE DEF gpus
<1>5. ShowsCards(PreferDiscreteGpus(gpus), m)
  BY <1>4, ChosenShown DEF PreferDiscreteGpus, Discrete
<1> QED BY <1>5 DEF Build, gpus

-----------------------------------------------------------------------------
(* One sample recorded.                                                    *)

LEMMA CardsDiffer ==
  ASSUME NEW m \in Machines, NEW j \in Cards(m), NEW k \in Cards(m), m.hw[j].id = m.hw[k].id
  PROVE  j = k
<1>1. {m.hw[j].type, m.hw[k].type} \subseteq GpuTypes /\ j \in DOMAIN m.hw /\ k \in DOMAIN m.hw
  BY DEF Cards
<1> QED BY <1>1, MachinesAssumption

\* Where no two cards share a name, nor do two entries of a snapshot, and every entry
\* is the first of its name.
LEMMA EntriesDiffer ==
  ASSUME NEW m \in Machines, NamesDiffer(m), NEW gpus, ShowsCards(gpus, m)
  PROVE  /\ \A j, k \in DOMAIN gpus :
              (gpus[j].name = gpus[k].name <=> j = k) /\ (gpus[j].id = gpus[k].id <=> j = k)
         /\ Keys(gpus) = [k \in DOMAIN gpus |-> <<gpus[k].name, 0>>]
<1>1. PICK c, of : /\ c \in Nat /\ DOMAIN gpus = 1 .. c /\ of \in [1 .. c -> Cards(m)]
                   /\ \A j, k \in 1 .. c : of[j] = of[k] => j = k
                   /\ \A k \in 1 .. c : Alike(gpus[k], m.hw[of[k]])
  BY DEF ShowsCards
<1>2. ASSUME NEW j \in DOMAIN gpus, NEW k \in DOMAIN gpus
      PROVE  (gpus[j].name = gpus[k].name => j = k) /\ (gpus[j].id = gpus[k].id => j = k)
  <2>1. of[j] \in Cards(m) /\ of[k] \in Cards(m)
    BY <1>1
  <2>2. Alike(gpus[j], m.hw[of[j]]) /\ Alike(gpus[k], m.hw[of[k]])
    BY <1>1
  <2>3. gpus[j].name = gpus[k].name => of[j] = of[k]
    BY <2>1, <2>2 DEF NamesDiffer, Alike
  <2>4. gpus[j].id = gpus[k].id => of[j] = of[k]
    BY <2>1, <2>2, CardsDiffer DEF Alike
  <2> QED BY <1>1, <2>3, <2>4
<1>3. ASSUME NEW k \in DOMAIN gpus
      PROVE  Cardinality({j \in 1 .. (k - 1) : gpus[j].name = gpus[k].name}) = 0
  <2>1. \A j \in 1 .. (k - 1) : j \in DOMAIN gpus /\ j # k
    BY <1>1
  <2>2. {j \in 1 .. (k - 1) : gpus[j].name = gpus[k].name} = {}
    BY <1>2, <2>1
  <2> QED BY <2>2, FS_EmptySet
<1>4. Keys(gpus) = [k \in DOMAIN gpus |-> <<gpus[k].name, 0>>]
  BY <1>3 DEF Keys
<1> QED BY <1>2, <1>4

\* The buffer of a card holds what was sampled of it.
Key(node) == <<node.name, 0>>
Tracks(h, o, node) ==
  /\ Key(node) \in DOMAIN h.gpus <=> node.id \in DOMAIN o
  /\ node.id \in DOMAIN o =>
       RingOK(h.gpus[Key(node)]) /\ o[node.id] = Samples(h.gpus[Key(node)])

LEMMA RecordKeeps ==
  ASSUME NEW m \in Machines, NamesDiffer(m), NEW s, ShowsCards(s.gpu, m), NEW h, NEW o,
         \A k \in Cards(m) : Tracks(h, o, m.hw[k])
  PROVE  /\ \A k \in Cards(m) : Tracks(Record(h, s), Owned(o, s), m.hw[k])
         /\ \A k \in DOMAIN s.gpu : /\ Record(h, s).order[k] = <<s.gpu[k].name, 0>>
                                    /\ s.gpu[k].id \in DOMAIN Owned(o, s)
<1> DEFINE gpus == s.gpu
           keys == Keys(gpus)
           Old(key) == IF key \in DOMAIN h.gpus THEN h.gpus[key] ELSE RingBuffer
           Load(key) == Or(gpus[CHOOSE k \in DOMAIN keys : keys[k] = key].load, 0)
           fresh == {keys[k] : k \in DOMAIN keys}
           ids == {gpus[k].id : k \in DOMAIN gpus}
           Seen(id) == Or(gpus[CHOOSE k \in DOMAIN gpus : gpus[k].id = id].load, 0)
           Kept(seq, v) == IF Len(seq) < Capacity THEN Append(seq, v) ELSE Append(Tail(seq), v)
           new == Record(h, s)
           own1 == Owned(o, s)
<1>1. PICK c, of : /\ c \in Nat /\ DOMAIN gpus = 1 .. c /\ of \in [1 .. c -> Cards(m)]
                   /\ \A j, k \in 1 .. c : of[j] = of[k] => j = k
                   /\ \A k \in 1 .. c : Alike(gpus[k], m.hw[of[k]])
  BY DEF ShowsCards
<1>2. /\ \A j, k \in DOMAIN gpus :
           (gpus[j].name = gpus[k].name <=> j = k) /\ (gpus[j].id = gpus[k].id <=> j = k)
      /\ DOMAIN keys = DOMAIN gpus /\ \A k \in DOMAIN gpus : keys[k] = <<gpus[k].name, 0>>
  <2>1. keys = [k \in DOMAIN gpus |-> <<gpus[k].name, 0>>]
    BY EntriesDiffer
  <2> HIDE DEF keys
  <2> QED BY <2>1, EntriesDiffer
<1>3. new.gpus = [key \in DOMAIN h.gpus \cup fresh |->
                    IF key \in fresh THEN Push(Old(key), Load(key)) ELSE h.gpus[key]]
  BY DEF Record
<1>4. new.order = IF gpus = <<>> THEN h.order ELSE keys
  BY DEF Record
<1>5. own1 = [id \in DOMAIN o \cup ids |->
                IF id \notin ids THEN o[id]
                ELSE Kept(IF id \in DOMAIN o THEN o[id] ELSE <<>>, Seen(id))]
  BY DEF Owned
<1> HIDE DEF new, own1
<1>6. \A k \in DOMAIN gpus :
        Load(keys[k]) = Or(gpus[k].load, 0) /\ Seen(gpus[k].id) = Or(gpus[k].load, 0)
  <2> TAKE k \in DOMAIN gpus
  <2>1. \A j \in DOMAIN keys : keys[j] = keys[k] <=> j = k
    BY <1>2
  <2>2. (CHOOSE j \in DOMAIN keys : keys[j] = keys[k]) = k
    BY <1>2, <2>1
  <2>3. (CHOOSE j \in DOMAIN gpus : gpus[j].id = gpus[k].id) = k
    BY <1>2
  <2> QED BY <2>2, <2>3
<1> HIDE DEF Old, Load, Seen, Kept, keys, gpus
<1>7. ASSUME NEW q \in Cards(m) PROVE Tracks(new, own1, m.hw[q])
  <2> DEFINE node == m.hw[q]
             key == Key(node)
  <2>1. Tracks(h, o, node)
    OBVIOUS
  <2>2. CASE \E k \in DOMAIN gpus : of[k] = q
    <3>1. PICK k \in DOMAIN gpus : of[k] = q
      BY <2>2
    <3>2. gpus[k].name = node.name /\ gpus[k].id = node.id
      BY <1>1, <3>1 DEF Alike
    <3>3. key = keys[k] /\ key \in fresh /\ node.id \in ids
      BY <1>2, <3>2 DEF Key
    <3> DEFINE v == Or(gpus[k].load, 0)
    <3>4. Load(key) = v /\ Seen(node.id) = v
      BY <1>6, <3>2, <3>3
    <3> HIDE DEF node, key, v, fresh, ids
    <3>5. /\ key \in DOMAIN new.gpus /\ new.gpus[key] = Push(Old(key), v)
          /\ node.id \in DOMAIN own1
          /\ own1[node.id] = Kept(IF node.id \in DOMAIN o THEN o[node.id] ELSE <<>>, v)
      BY <1>3, <1>5, <3>3, <3>4
    <3>6. RingOK(Old(key)) /\ Samples(Old(key)) = IF node.id \in DOMAIN o THEN o[node.id] ELSE <<>>
      BY <2>1, RingBufferOK DEF Old, Tracks, key
    <3>7. RingOK(Push(Old(key), v)) /\ Samples(Push(Old(key), v)) = Kept(Samples(Old(key)), v)
      BY <3>6, PushKeeps DEF Kept
    <3>8. Tracks(new, own1, node)
      BY <3>5, <3>6, <3>7 DEF Tracks, key
    <3> QED BY <3>8 DEF node
  <2>3. CASE ~\E k \in DOMAIN gpus : of[k] = q
    <3>1. node.id \notin ids
      <4> SUFFICES ASSUME NEW k \in DOMAIN gpus, gpus[k].id = node.id PROVE FALSE
        OBVIOUS
      <4>1. m.hw[of[k]].id = m.hw[q].id /\ of[k] \in Cards(m)
        BY <1>1 DEF Alike
      <4> QED BY <2>3, <4>1, CardsDiffer
    <3>2. key \notin fresh
      <4> SUFFICES ASSUME NEW k \in DOMAIN gpus, gpus[k].name = node.name PROVE FALSE
        BY <1>2 DEF Key
      <4>1. m.hw[of[k]].name = m.hw[q].name /\ of[k] \in Cards(m)
        BY <1>1 DEF Alike
      <4> QED BY <2>3, <4>1 DEF NamesDiffer
    <3> HIDE DEF node, key, fresh, ids
    <3>3. /\ key \in DOMAIN new.gpus <=> key \in DOMAIN h.gpus
          /\ key \in DOMAIN h.gpus => new.gpus[key] = h.gpus[key]
          /\ node.id \in DOMAIN own1 <=> node.id \in DOMAIN o
          /\ node.id \in DOMAIN o => own1[node.id] = o[node.id]
      BY <1>3, <1>5, <3>1, <3>2
    <3>4. Tracks(new, own1, node)
      BY <2>1, <3>3 DEF Tracks, key
    <3> QED BY <3>4 DEF node
  <2> QED BY <2>2, <2>3
<1>8. ASSUME NEW k \in DOMAIN gpus
      PROVE  new.order[k] = <<gpus[k].name, 0>> /\ gpus[k].id \in DOMAIN own1
  <2>1. gpus # <<>>
    <3>1. DOMAIN gpus # {}
      OBVIOUS
    <3> QED BY <3>1
  <2> QED BY <1>2, <1>4, <1>5, <2>1
<1> QED BY <1>7, <1>8 DEF new, own1, gpus

-----------------------------------------------------------------------------
(* The invariant.                                                          *)

HistoryInv == NamesDiffer(machine) => \A k \in Cards(machine) : Tracks(history, own, machine.hw[k])
LatestInv ==
  \A s \in latest :
    /\ ShowsCards(s.gpu, machine)
    /\ NamesDiffer(machine) =>
         \A k \in DOMAIN s.gpu : /\ history.order[k] = <<s.gpu[k].name, 0>>
                                 /\ s.gpu[k].id \in DOMAIN own
IInv == machine \in Machines /\ HistoryInv /\ LatestInv

LEMMA InitInv == Init => IInv
<1> SUFFICES ASSUME Init PROVE IInv
  OBVIOUS
<1>1. machine \in Machines /\ latest = {}
  BY DEF Init
<1>2. DOMAIN history.gpus = {} /\ DOMAIN own = {}
  BY DEF Init, NoHistory
<1>3. HistoryInv
  BY <1>2 DEF HistoryInv, Tracks
<1> QED BY <1>1, <1>3 DEF IInv, LatestInv

LEMMA SampleInv == ASSUME IInv, NEW upset, Sample(upset) PROVE IInv'
<1>1. PICK world, s : /\ s = Build(Updated(machine.hw, level', upset), world, upset.throws)
                      /\ latest' = {s} /\ history' = Record(history, s) /\ own' = Owned(own, s)
  BY DEF Sample
<1>2. machine' = machine /\ machine \in Machines
  BY DEF Sample, IInv
<1>3. ShowsCards(s.gpu, machine)
  BY <1>1, <1>2, SnapshotShown
<1>4. CASE NamesDiffer(machine)
  <2>1. \A k \in Cards(machine) : Tracks(history, own, machine.hw[k])
    BY <1>4 DEF IInv, HistoryInv
  <2>2. /\ \A k \in Cards(machine) : Tracks(Record(history, s), Owned(own, s), machine.hw[k])
        /\ \A k \in DOMAIN s.gpu : /\ Record(history, s).order[k] = <<s.gpu[k].name, 0>>
                                   /\ s.gpu[k].id \in DOMAIN Owned(own, s)
    BY <1>2, <1>3, <1>4, <2>1, RecordKeeps
  <2> QED BY <1>1, <1>2, <1>3, <2>2 DEF IInv, HistoryInv, LatestInv
<1>5. CASE ~NamesDiffer(machine)
  BY <1>1, <1>2, <1>3, <1>5 DEF IInv, HistoryInv, LatestInv
<1> QED BY <1>4, <1>5

LEMMA NextInv == IInv /\ [Next]_vars => IInv'
<1> SUFFICES ASSUME IInv, [Next]_vars PROVE IInv'
  OBVIOUS
<1>1. CASE \E upset \in Upsets \cup {Calm} : Sample(upset)
  BY <1>1, SampleInv
<1>2. CASE WmiRestarts \/ (\E to \in Screens : Resize(to)) \/ Done \/ UNCHANGED vars
  <2>1. UNCHANGED <<machine, latest, history, own>>
    BY <1>2 DEF WmiRestarts, Resize, Done, vars, service
  <2> QED BY <2>1 DEF IInv, HistoryInv, LatestInv
<1> QED BY <1>1, <1>2 DEF Next

-----------------------------------------------------------------------------
(* The theorem.                                                            *)

\* A GPU's sparkline is its own last loads, oldest first, through dropouts of the
\* others and of itself (history.rs:131-135): for any machine no two of whose cards
\* share a name, and any length of the history.
THEOREM HistoryIsOwnCorrect == Spec => []HistoryIsOwn
<1>1. ASSUME IInv PROVE HistoryIsOwn
  <2> DEFINE all == OfType(machine.hw, GpuTypes)
  <2> SUFFICES ASSUME NEW s \in latest, IsInjective([k \in DOMAIN all |-> all[k].name]),
                      NEW k \in DOMAIN s.gpu
               PROVE  Samples(history.gpus[history.order[k]]) = own[s.gpu[k].id]
    BY DEF HistoryIsOwn
  <2>1. machine \in Machines
    BY <1>1 DEF IInv
  <2>2. NamesDiffer(machine)
    <3>1. Cards(machine) \in SUBSET (1 .. Len(machine.hw)) /\ Len(machine.hw) \in Nat
      BY <2>1, MachinesAssumption DEF Cards
    <3>2. PICK c, pick : Chooses(machine.hw, Cards(machine), c, pick)
      BY <3>1, ChosenPicks
    <3>3. all = Chosen(machine.hw, Cards(machine))
      BY DEF OfType, Cards
    <3> HIDE DEF all
    <3>4. \A a, b \in 1 .. c : all[a].name = all[b].name => a = b
      BY <3>2, <3>3 DEF IsInjective, Chooses
    <3>5. \A j \in Cards(machine) : \E r \in 1 .. c : pick[r] = j /\ all[r] = machine.hw[j]
      BY <3>2, <3>3 DEF Chooses, Picks
    <3> QED BY <3>4, <3>5 DEF NamesDiffer
  <2>3. PICK c, of : /\ DOMAIN s.gpu = 1 .. c /\ of \in [1 .. c -> Cards(machine)]
                     /\ \A j \in 1 .. c : Alike(s.gpu[j], machine.hw[of[j]])
    BY <1>1 DEF IInv, LatestInv, ShowsCards
  <2>4. of[k] \in Cards(machine) /\ Alike(s.gpu[k], machine.hw[of[k]])
    BY <2>3
  <2>5. history.order[k] = <<s.gpu[k].name, 0>> /\ s.gpu[k].id \in DOMAIN own
    BY <1>1, <2>2 DEF IInv, LatestInv
  <2>6. Tracks(history, own, machine.hw[of[k]])
    BY <1>1, <2>2, <2>4 DEF IInv, HistoryInv
  <2> QED BY <2>4, <2>5, <2>6 DEF Tracks, Key, Alike
<1> QED BY <1>1, InitInv, NextInv, PTL DEF Spec

-----------------------------------------------------------------------------
(* The cached plan of the grid.                                            *)

\* What the grid is asked for, from the signature alone.
Asked(sig) ==
  [k \in DOMAIN sig.cards |->
     [span |-> IF sig.cards[k][1] = "storage" THEN 2 ELSE 1,
      elastic |-> sig.cards[k][1] = "storage",
      reserves |-> sig.cards[k][1] \in {"net", "battery", "sensors"},
      tiers |-> Tiers(sig.cards[k][1], sig.disks)]]
KeyOf(s, win) ==
  [w |-> win.w, h |-> win.h, chrome |-> win.chrome, cards |-> CardSetSignature(s)]
PlanOf(key) == Plan(Asked(key.cards), key.w, key.h, key.chrome)

\* The signature forgets nothing the plan depends on.
LEMMA SignatureTells == \A s : Metrics(s) = Asked(CardSetSignature(s))
  BY DEF Metrics, Asked, CardSetSignature

CacheInv ==
  /\ \A c, d \in fit : c = d
  /\ \A c \in fit : c.plan = PlanOf(c.key)
CurrentInv ==
  /\ \A s, t \in latest : s = t
  /\ \A s \in latest : \E c \in fit : c.key = KeyOf(s, screen.win)
PlanInv == CacheInv /\ CurrentInv

\* A frame of a snapshot leaves one plan in the cache, under that frame's key.
LEMMA FrameKeeps ==
  ASSUME NEW s, NEW win, CacheInv, Frame(s, win)
  PROVE  CacheInv' /\ \E c \in fit' : c.key = KeyOf(s, win)
<1>1. fit' = PlanFor(fit, s, win)
  BY DEF Frame
<1>2. CASE \E c \in fit : c.key = KeyOf(s, win)
  <2>1. fit' = fit
    BY <1>1, <1>2 DEF PlanFor, KeyOf
  <2> QED BY <1>2, <2>1 DEF CacheInv
<1>3. CASE ~\E c \in fit : c.key = KeyOf(s, win)
  <2> DEFINE key == KeyOf(s, win)
             new == [key |-> key, plan |-> PlanOf(key)]
  <2>1. Plan(Metrics(s), win.w, win.h, win.chrome) = PlanOf(key)
    BY SignatureTells DEF PlanOf, KeyOf
  <2>2. fit' = {new}
    BY <1>1, <1>3, <2>1 DEF PlanFor, KeyOf
  <2>3. new.key = key /\ new.plan = PlanOf(key)
    OBVIOUS
  <2> HIDE DEF new, key
  <2> QED BY <2>2, <2>3 DEF CacheInv, key
<1> QED BY <1>2, <1>3

LEMMA PlanStep == PlanInv /\ [Next]_vars => PlanInv'
<1> SUFFICES ASSUME PlanInv, [Next]_vars PROVE PlanInv'
  OBVIOUS
<1>1. ASSUME NEW upset, Sample(upset) PROVE PlanInv'
  <2>1. PICK s : latest' = {s} /\ Frame(s, screen.win)
    BY <1>1 DEF Sample
  <2>2. screen' = screen
    BY <1>1 DEF Sample
  <2> QED BY <2>1, <2>2, FrameKeeps DEF PlanInv, CurrentInv
<1>2. ASSUME NEW to, Resize(to) PROVE PlanInv'
  <2>1. latest' = latest /\ screen' = to
    BY <1>2 DEF Resize
  <2>2. CASE latest = {}
    BY <1>2, <2>1, <2>2 DEF Resize, PlanInv, CacheInv, CurrentInv
  <2>3. CASE latest # {}
    <3>1. PICK s \in latest : Frame(s, to.win)
      BY <1>2, <2>3 DEF Resize
    <3>2. CacheInv' /\ \E c \in fit' : c.key = KeyOf(s, to.win)
      BY <3>1, FrameKeeps DEF PlanInv
    <3> QED BY <2>1, <3>1, <3>2 DEF PlanInv, CurrentInv
  <2> QED BY <2>2, <2>3
<1>3. CASE WmiRestarts \/ Done \/ UNCHANGED vars
  <2>1. UNCHANGED <<latest, fit, screen>>
    BY <1>3 DEF WmiRestarts, Done, vars, service
  <2> QED BY <2>1 DEF PlanInv, CacheInv, CurrentInv
<1> QED BY <1>1, <1>2, <1>3 DEF Next

\* The frame is laid out by exactly one plan, the one its cards, window and chrome
\* ask for (app.rs:716-732): for any machines, windows and upsets, because the key
\* of the cache holds all that the plan is made from.
THEOREM PlanIsCurrentCorrect == Spec => []PlanIsCurrent
<1>1. Init => PlanInv
  BY DEF Init, PlanInv, CacheInv, CurrentInv
<1>2. ASSUME PlanInv PROVE PlanIsCurrent
  <2> SUFFICES ASSUME NEW s \in latest
               PROVE  {c.plan : c \in fit}
                        = {Plan(Metrics(s), screen.win.w, screen.win.h, screen.win.chrome)}
    BY DEF PlanIsCurrent
  <2>1. PICK c \in fit : c.key = KeyOf(s, screen.win)
    BY <1>2 DEF PlanInv, CurrentInv
  <2>2. fit = {c} /\ c.plan = PlanOf(c.key)
    BY <1>2, <2>1 DEF PlanInv, CacheInv
  <2>3. PlanOf(c.key) = Plan(Metrics(s), screen.win.w, screen.win.h, screen.win.chrome)
    BY <2>1, SignatureTells DEF PlanOf, KeyOf
  <2> QED BY <2>2, <2>3
<1> QED BY <1>1, <1>2, PlanStep, PTL DEF Spec
=============================================================================
