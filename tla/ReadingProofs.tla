---------------------------- MODULE ReadingProofs ----------------------------
(***************************************************************************)
(* Proofs about Reading, for any chunks, distances, budget and candidates: *)
(* what is read of one question is one copy of a document, in the order of *)
(* the hits, continued without gaps and within the budget, and the refusal *)
(* is that of vector search alone.  The first part says what the operators *)
(* on lists do (Keep, FlattenSeq), by induction on their length; the       *)
(* second follows plan_neighbours turn by turn; the third orders rrf_fuse; *)
(* the last is the invariant of the whole question.                        *)
(***************************************************************************)
EXTENDS Reading, ListProofs

-----------------------------------------------------------------------------
(* What the turn with a number is: a round, and a hit in it.               *)
LEMMA Division ==
  ASSUME NEW a \in Nat, NEW n \in Nat \ {0}
  PROVE  /\ a \div n \in Nat /\ a % n \in 0..n - 1
         /\ a = n * (a \div n) + (a % n)
OBVIOUS

(* A quotient and a remainder, once they are known.                        *)
LEMMA Quotient ==
  ASSUME NEW n \in Nat \ {0}, NEW q \in Nat, NEW r \in 0..n - 1
  PROVE  (n * q + r) \div n = q /\ (n * q + r) % n = r
OBVIOUS

Round(t, n) == ((t - 1) \div n) + 1
Seat(t, n) == ((t - 1) % n) + 1

(* Turns go round by round, and in a round hit by hit.                     *)
LEMMA TurnFacts ==
  ASSUME NEW n \in Nat \ {0}, NEW R \in Nat
  PROVE  /\ R * n \in Nat
         /\ \A t \in 1..R * n : Round(t, n) \in 1..R /\ Seat(t, n) \in 1..n
         /\ \A t, u \in 1..R * n : Round(t, n) = Round(u, n) /\ Seat(t, n) = Seat(u, n) => t = u
         /\ \A k \in 1..n, i \in 1..R : \E t \in 1..R * n : Round(t, n) = i /\ Seat(t, n) = k
         /\ \A t \in 1..n : Round(t, n) = 1 /\ Seat(t, n) = t
         /\ \A t \in 1..R * n : t > n =>
              /\ t - n \in 1..R * n /\ Round(t, n) \in 2..R
              /\ Round(t - n, n) = Round(t, n) - 1 /\ Seat(t - n, n) = Seat(t, n)
<1>1. R * n \in Nat
  OBVIOUS
<1>2. ASSUME NEW t \in 1..R * n
      PROVE  /\ Round(t, n) \in 1..R /\ Seat(t, n) \in 1..n
             /\ t = n * (Round(t, n) - 1) + Seat(t, n)
  <2>1. PICK q \in Nat, r \in 0..n - 1 : /\ q = (t - 1) \div n /\ r = (t - 1) % n
                                         /\ t - 1 = n * q + r
    <3>1. PICK a \in Nat : a = t - 1
      OBVIOUS
    <3>2. a \div n \in Nat /\ a % n \in 0..n - 1 /\ a = n * (a \div n) + (a % n)
      BY Division
    <3> QED
      BY <3>1, <3>2
  <2>2. n * q < R * n
    BY <2>1
  <2>3. q < R
    BY <2>2
  <2> QED
    BY <2>1, <2>3 DEF Round, Seat
<1>3. ASSUME NEW k \in 1..n, NEW i \in 1..R
      PROVE  /\ n * (i - 1) + k \in 1..R * n
             /\ Round(n * (i - 1) + k, n) = i /\ Seat(n * (i - 1) + k, n) = k
  <2>1. PICK q \in Nat, r \in 0..n - 1 : q = i - 1 /\ r = k - 1
    OBVIOUS
  <2>2. n * (i - 1) + k = n * q + r + 1
    BY <2>1
  <2>3. n * q <= n * (R - 1)
    BY <2>1
  <2>4. n * (R - 1) = R * n - n
    OBVIOUS
  <2>5. n * q \in Nat
    OBVIOUS
  <2>6. n * (i - 1) + k \in 1..R * n
    BY <2>2, <2>3, <2>4, <2>5
  <2>7. (n * q + r) \div n = q /\ (n * q + r) % n = r
    BY Quotient
  <2>8. (n * (i - 1) + k) - 1 = n * q + r
    BY <2>2, <2>5
  <2> QED
    BY <2>1, <2>6, <2>7, <2>8 DEF Round, Seat
<1>4. ASSUME NEW t \in 1..n PROVE Round(t, n) = 1 /\ Seat(t, n) = t
  <2>1. t - 1 = n * 0 + (t - 1) /\ t - 1 \in 0..n - 1
    OBVIOUS
  <2>2. (t - 1) \div n = 0 /\ (t - 1) % n = t - 1
    BY <2>1
  <2> QED
    BY <2>2 DEF Round, Seat
<1>5. ASSUME NEW t \in 1..R * n, t > n
      PROVE  /\ t - n \in 1..R * n /\ Round(t, n) \in 2..R
             /\ Round(t - n, n) = Round(t, n) - 1 /\ Seat(t - n, n) = Seat(t, n)
  <2>1. PICK i \in 1..R, k \in 1..n : i = Round(t, n) /\ k = Seat(t, n) /\ t = n * (i - 1) + k
    BY <1>2
  <2>2. i # 1
    BY <1>5, <2>1
  <2>3. i - 1 \in 1..R /\ t - n = n * ((i - 1) - 1) + k
    BY <2>1, <2>2
  <2>4. t - n \in 1..R * n /\ Round(t - n, n) = i - 1 /\ Seat(t - n, n) = k
    BY <1>3, <2>3
  <2> QED
    BY <2>1, <2>2, <2>4
<1>6. ASSUME NEW t \in 1..R * n, NEW u \in 1..R * n,
             Round(t, n) = Round(u, n), Seat(t, n) = Seat(u, n)
      PROVE  t = u
  BY <1>2, <1>6
<1>7. \A k \in 1..n, i \in 1..R : \E t \in 1..R * n : Round(t, n) = i /\ Seat(t, n) = k
  BY <1>3
<1> QED
  BY <1>1, <1>2, <1>4, <1>5, <1>6, <1>7
-----------------------------------------------------------------------------
(* The place a turn is about, and whether its hit has one.                 *)
Seated(t) == Position[hits[Seat(t, Len(hits))]] # NoPosition
Wish(t) == Following(hits[Seat(t, Len(hits))], Round(t, Len(hits)))
NextOf(p) == <<p[1], p[2] + 1>>
HitSpots == {Position[c] : c \in Range(hits)} \ {NoPosition}
Spots == {Following(c, i) : c \in Chunks, i \in 1..Neighbours}
LastTurn == Neighbours * Len(hits)

(* A turn of a hit is about the place behind the one of its turn a round   *)
(* before, and its first about the place behind its own.                   *)
LEMMA WishFacts ==
  ASSUME hits \in Seq(Chunks), NEW n \in Nat \ {0}, n = Len(hits)
  PROVE  /\ LastTurn \in Nat /\ LastTurn = Neighbours * n
         /\ \A t \in 1..LastTurn : t > n =>
              /\ t - n \in 1..LastTurn
              /\ Seated(t - n) <=> Seated(t)
              /\ Seated(t) => Wish(t) = NextOf(Wish(t - n))
         /\ \A h \in 1..n : /\ Seated(h) <=> Position[hits[h]] # NoPosition
                            /\ Seated(h) => Wish(h) = NextOf(Position[hits[h]])
         /\ \A t \in 1..LastTurn : Wish(t) \in Spots
<1> DEFINE c(k) == hits[k]
<1>1. \A k \in 1..n : c(k) \in Chunks
  BY ElementOfSeq
<1>2. Neighbours \in Nat
  BY ReadingAssumption
<1>3. PICK R \in Nat : R = Neighbours
  BY <1>2
<1>4. /\ R * n \in Nat
      /\ \A t \in 1..R * n : Round(t, n) \in 1..R /\ Seat(t, n) \in 1..n
      /\ \A t \in 1..n : Round(t, n) = 1 /\ Seat(t, n) = t
      /\ \A t \in 1..R * n : t > n =>
              /\ t - n \in 1..R * n /\ Round(t, n) \in 2..R
              /\ Round(t - n, n) = Round(t, n) - 1 /\ Seat(t - n, n) = Seat(t, n)
  BY TurnFacts
<1>5. LastTurn = R * n
  BY <1>3 DEF LastTurn
<1>6. ASSUME NEW d \in Chunks, Position[d] # NoPosition, NEW i \in Nat
      PROVE  /\ Following(d, i + 1) = NextOf(Following(d, i))
             /\ Following(d, 1) = NextOf(Position[d])
  <2>1. Position[d] = <<Position[d][1], Position[d][2]>> /\ Position[d][2] \in Nat
    BY <1>6, ReadingAssumption
  <2>2. PICK x : x = Position[d][1]
    OBVIOUS
  <2>3. PICK m \in Nat : m = Position[d][2]
    BY <2>1
  <2> QED
    BY <2>1, <2>2, <2>3 DEF Following, NextOf
<1>7. \A t \in 1..R * n : Wish(t) = Following(c(Seat(t, n)), Round(t, n))
  BY DEF Wish
<1>8. \A t \in 1..R * n : Seated(t) <=> Position[c(Seat(t, n))] # NoPosition
  BY DEF Seated
<1>9. ASSUME NEW t \in 1..R * n, t > n
      PROVE  /\ t - n \in 1..R * n
             /\ Seated(t - n) <=> Seated(t)
             /\ Seated(t) => Wish(t) = NextOf(Wish(t - n))
  <2>1. /\ t - n \in 1..R * n /\ Round(t, n) \in 2..R
        /\ Round(t - n, n) = Round(t, n) - 1 /\ Seat(t - n, n) = Seat(t, n)
    BY <1>4, <1>9
  <2>2. PICK d \in Chunks : d = c(Seat(t, n))
    BY <1>1, <1>4
  <2>3. PICK i \in Nat : i = Round(t - n, n) /\ Round(t, n) = i + 1
    BY <2>1
  <2>4. Wish(t) = Following(d, i + 1) /\ Wish(t - n) = Following(d, i)
    BY <1>7, <2>1, <2>2, <2>3
  <2> QED
    BY <1>6, <1>8, <2>1, <2>2, <2>4
<1>10. ASSUME NEW h \in 1..n
       PROVE  /\ Seated(h) <=> Position[c(h)] # NoPosition
              /\ Seated(h) => Wish(h) = NextOf(Position[c(h)])
  <2>1. Seat(h, n) = h /\ Round(h, n) = 1
    BY <1>4
  <2>2. (Seated(h) <=> Position[c(h)] # NoPosition) /\ Wish(h) = Following(c(h), 1)
    BY <2>1 DEF Seated, Wish
  <2> QED
    BY <1>1, <1>6, <2>2
<1>11. ASSUME NEW t \in 1..R * n PROVE Wish(t) \in Spots
  BY <1>1, <1>3, <1>4, <1>7 DEF Spots
<1> QED
  BY <1>3, <1>4, <1>5, <1>9, <1>10, <1>11

(* A plan after t turns: the turns that took a place, own.  Each was a hit *)
(* with a place of its own to wish for, when every turn before it had what *)
(* it wished for.                                                          *)
Owns(own, t, taken) ==
  /\ own \in SUBSET (1..t)
  /\ taken = HitSpots \cup {Wish(u) : u \in own}
  /\ \A u \in own : Seated(u) /\ Wish(u) \notin HitSpots
  /\ \A u \in own, v \in 1..t :
       v < u /\ Seated(v) => Wish(v) # Wish(u) /\ Wish(v) \in taken

(* The budget is what those turns have left of it, and while there is some *)
(* no wish stays open.                                                     *)
Pays(own, t, taken, budget) ==
  /\ budget \in Nat
  /\ IsFiniteSet(own) /\ Cardinality(own) + budget = Budget
  /\ budget > 0 => \A u \in 1..t : Seated(u) => Wish(u) \in taken

(* What a hit is given are the places right behind it, without a gap.      *)
Runs(own, wanted) ==
  /\ wanted \in [1..Len(hits) -> Seq(Spots)]
  /\ \A k \in 1..Len(hits) :
       /\ Len(wanted[k]) <= Neighbours
       /\ \A j \in 1..Len(wanted[k]) : wanted[k][j] = Following(hits[k], j)
       /\ \A u \in 1..LastTurn :
            Seat(u, Len(hits)) = k => (u \in own <=> Round(u, Len(hits)) <= Len(wanted[k]))

(* A turn that takes a place comes right after the last of its hit.        *)
LEMMA RunGoesOn ==
  ASSUME hits \in Seq(Chunks), NEW n \in Nat \ {0}, n = Len(hits), NEW u \in 1..LastTurn,
         NEW own, NEW taken, NEW budget, NEW wanted,
         Owns(own, u - 1, taken), Pays(own, u - 1, taken, budget), Runs(own, wanted),
         Seated(u), budget > 0, Wish(u) \notin taken
  PROVE  Round(u, n) = Len(wanted[Seat(u, n)]) + 1
<1>1. /\ LastTurn \in Nat
      /\ \A t \in 1..LastTurn : t > n =>
              /\ t - n \in 1..LastTurn
              /\ Seated(t - n) <=> Seated(t)
              /\ Seated(t) => Wish(t) = NextOf(Wish(t - n))
      /\ \A h \in 1..n : /\ Seated(h) <=> Position[hits[h]] # NoPosition
                         /\ Seated(h) => Wish(h) = NextOf(Position[hits[h]])
  BY WishFacts
<1>2. /\ Round(u, n) \in 1..Neighbours /\ Seat(u, n) \in 1..n
      /\ u <= n => Round(u, n) = 1
      /\ u > n => Round(u - n, n) = Round(u, n) - 1 /\ Seat(u - n, n) = Seat(u, n)
  <2>1. PICK R \in Nat : R = Neighbours
    BY ReadingAssumption
  <2>2. u \in 1..R * n
    BY <2>1 DEF LastTurn
  <2>3. /\ \A t \in 1..R * n : Round(t, n) \in 1..R /\ Seat(t, n) \in 1..n
        /\ \A t \in 1..n : Round(t, n) = 1 /\ Seat(t, n) = t
        /\ \A t \in 1..R * n : t > n =>
                /\ t - n \in 1..R * n /\ Round(t, n) \in 2..R
                /\ Round(t - n, n) = Round(t, n) - 1 /\ Seat(t - n, n) = Seat(t, n)
    BY TurnFacts
  <2>4. u <= n => u \in 1..n
    BY <1>1
  <2> QED
    BY <2>1, <2>2, <2>3, <2>4
<1>3. PICK k \in 1..n : k = Seat(u, n)
  BY <1>2
<1>4. PICK m \in Nat : m = Len(wanted[k])
  BY LenProperties DEF Runs
<1>5. PICK i \in Nat \ {0} : i = Round(u, n)
  BY <1>2
<1>6. \A t \in 1..LastTurn : Seat(t, n) = k => (t \in own <=> Round(t, n) <= m)
  BY <1>3, <1>4 DEF Runs
<1>7. u \notin own
  BY DEF Owns
<1>8. i > m
  BY <1>3, <1>5, <1>6, <1>7
<1>9. ASSUME i # m + 1 PROVE FALSE
  <2>1. u > n
    BY <1>1, <1>2, <1>5, <1>8, <1>9
  <2>2. PICK v \in 1..u - 1 : v = u - n
    BY <1>1, <2>1
  <2>3. v \in 1..LastTurn /\ Seated(v) /\ Wish(u) = NextOf(Wish(v))
    BY <1>1, <2>1, <2>2
  <2>4. Seat(v, n) = k /\ Round(v, n) = i - 1
    BY <1>2, <1>3, <1>5, <2>1, <2>2
  <2>5. v \notin own
    BY <1>6, <1>8, <1>9, <2>3, <2>4
  <2>6. Wish(v) \in taken
    BY <2>3 DEF Pays
  <2>7. CASE Wish(v) \in HitSpots
    <3>1. PICK h \in 1..n : Position[hits[h]] = Wish(v) /\ Position[hits[h]] # NoPosition
      <4>1. DOMAIN hits = 1..n
        BY LenProperties
      <4> QED
        BY <2>7, <4>1 DEF HitSpots, Range
    <3>2. Seated(h) /\ Wish(h) = Wish(u)
      BY <1>1, <2>3, <3>1
    <3>3. h \in 1..u - 1
      BY <1>1, <2>1
    <3> QED
      BY <3>2, <3>3 DEF Pays
  <2>8. CASE Wish(v) \notin HitSpots
    <3>1. PICK w \in own : Wish(w) = Wish(v)
      BY <2>6, <2>8 DEF Owns
    <3>2. w \in 1..u - 1 /\ Seated(w)
      BY DEF Owns
    <3>3. ~ v < w
      BY <2>3, <3>1, <3>2 DEF Owns
    <3>4. w < v
      BY <2>5, <3>2, <3>3
    <3>5. PICK x \in 1..u - 1 : x = w + n
      BY <1>1, <2>2, <3>2, <3>4
    <3>6. x \in 1..LastTurn /\ x > n /\ x - n = w
      BY <1>1, <3>2, <3>5
    <3>7. Seated(x) /\ Wish(x) = Wish(u)
      BY <1>1, <2>3, <3>1, <3>2, <3>6
    <3> QED
      BY <3>7 DEF Pays
  <2> QED
    BY <2>7, <2>8
<1> QED
  BY <1>3, <1>4, <1>5, <1>9

(* Before the first turn.                                                  *)
LEMMA PlanStarts ==
  ASSUME hits \in Seq(Chunks)
  PROVE  /\ Owns({}, 0, HitSpots) /\ Pays({}, 0, HitSpots, Budget)
         /\ Runs({}, [k \in DOMAIN hits |-> <<>>])
<1>1. PICK n \in Nat : n = Len(hits) /\ DOMAIN hits = 1..n
  BY LenProperties
<1>2. Owns({}, 0, HitSpots)
  BY DEF Owns
<1>3. Pays({}, 0, HitSpots, Budget)
  <2>1. Budget \in Nat
    BY <1>1, ReadingAssumption DEF Budget, Smaller
  <2> QED
    BY <2>1, FS_EmptySet DEF Pays
<1>4. Runs({}, [k \in 1..n |-> <<>>])
  <2>1. <<>> \in Seq(Spots) /\ Len(<<>>) = 0
    BY EmptySeq
  <2>2. PICK R \in Nat : R = Neighbours
    BY ReadingAssumption
  <2>3. PICK w : w = [k \in 1..n |-> <<>>]
    OBVIOUS
  <2>4. w \in [1..n -> Seq(Spots)] /\ \A k \in 1..n : w[k] = <<>>
    BY <2>1, <2>3
  <2>5. \A k \in 1..n : Len(w[k]) = 0
    BY <2>1, <2>4
  <2>6. ASSUME NEW u \in 1..LastTurn, Seat(u, n) \in 1..n PROVE ~ Round(u, n) <= 0
    <3>1. n # 0
      BY <2>6
    <3>2. \A t \in 1..R * n : Round(t, n) \in 1..R
      BY <3>1, TurnFacts
    <3> QED
      BY <1>1, <2>2, <3>2 DEF LastTurn
  <2>7. Runs({}, w)
    BY <1>1, <2>2, <2>4, <2>5, <2>6 DEF Runs
  <2> QED
    BY <2>3, <2>7
<1> QED
  BY <1>1, <1>2, <1>3, <1>4

(* A turn that takes its place.                                            *)
LEMMA PlanTakes ==
  ASSUME hits \in Seq(Chunks), NEW n \in Nat \ {0}, n = Len(hits), NEW u \in 1..LastTurn,
         NEW own, NEW taken, NEW budget, NEW wanted,
         Owns(own, u - 1, taken), Pays(own, u - 1, taken, budget), Runs(own, wanted),
         Seated(u), budget > 0, Wish(u) \notin taken
  PROVE  /\ Owns(own \cup {u}, u, taken \cup {Wish(u)})
         /\ Pays(own \cup {u}, u, taken \cup {Wish(u)}, budget - 1)
         /\ Runs(own \cup {u}, [wanted EXCEPT ![Seat(u, n)] = Append(@, Wish(u))])
<1>1. LastTurn \in Nat /\ Wish(u) \in Spots
  BY WishFacts
<1>2. u \in Nat /\ \A v \in 1..u : v = u \/ v \in 1..u - 1
  BY <1>1
<1>3. /\ own \in SUBSET (1..u - 1)
      /\ taken = HitSpots \cup {Wish(v) : v \in own}
      /\ \A v \in own : Seated(v) /\ Wish(v) \notin HitSpots
      /\ \A w \in own, v \in 1..u - 1 :
           v < w /\ Seated(v) => Wish(v) # Wish(w) /\ Wish(v) \in taken
  BY DEF Owns
<1>4. /\ budget \in Nat /\ IsFiniteSet(own) /\ Cardinality(own) + budget = Budget
      /\ \A v \in 1..u - 1 : Seated(v) => Wish(v) \in taken
  BY DEF Pays
<1>5. u \notin own
  BY <1>3
<1>6. Owns(own \cup {u}, u, taken \cup {Wish(u)})
  <2> DEFINE more == own \cup {u}
  <2>1. more \in SUBSET (1..u)
    BY <1>2, <1>3
  <2>2. taken \cup {Wish(u)} = HitSpots \cup {Wish(v) : v \in more}
    BY <1>3
  <2>3. \A v \in more : Seated(v) /\ Wish(v) \notin HitSpots
    BY <1>3
  <2>4. ASSUME NEW w \in more, NEW v \in 1..u, v < w, Seated(v)
        PROVE  Wish(v) # Wish(w) /\ Wish(v) \in taken
    <3>1. v \in 1..u - 1
      BY <1>2, <1>3, <2>4
    <3>2. CASE w = u
      BY <1>4, <2>4, <3>1, <3>2
    <3>3. CASE w \in own
      BY <1>3, <2>4, <3>1, <3>3
    <3> QED
      BY <3>2, <3>3
  <2> HIDE DEF more
  <2>5. Owns(more, u, taken \cup {Wish(u)})
    BY <2>1, <2>2, <2>3, <2>4 DEF Owns
  <2> QED
    BY <2>5 DEF more
<1>7. Pays(own \cup {u}, u, taken \cup {Wish(u)}, budget - 1)
  <2>1. IsFiniteSet(own \cup {u}) /\ Cardinality(own \cup {u}) = Cardinality(own) + 1
    BY <1>4, <1>5, FS_AddElement
  <2>2. Cardinality(own) \in Nat
    BY <1>4, FS_CardinalityType
  <2>3. budget - 1 \in Nat /\ Cardinality(own) + 1 + (budget - 1) = Budget
    BY <1>4, <2>2
  <2>4. \A v \in 1..u : Seated(v) => Wish(v) \in taken \cup {Wish(u)}
    BY <1>2, <1>4
  <2> QED
    BY <2>1, <2>3, <2>4 DEF Pays
<1>8. Runs(own \cup {u}, [wanted EXCEPT ![Seat(u, n)] = Append(@, Wish(u))])
  <2>1. PICK R \in Nat : R = Neighbours
    BY ReadingAssumption
  <2>2. /\ \A t \in 1..LastTurn : Round(t, n) \in 1..R /\ Seat(t, n) \in 1..n
        /\ \A t, v \in 1..LastTurn : Round(t, n) = Round(v, n) /\ Seat(t, n) = Seat(v, n) => t = v
    <3>1. LastTurn = R * n
      BY <2>1 DEF LastTurn
    <3>2. /\ \A t \in 1..R * n : Round(t, n) \in 1..R /\ Seat(t, n) \in 1..n
          /\ \A t, v \in 1..R * n :
               Round(t, n) = Round(v, n) /\ Seat(t, n) = Seat(v, n) => t = v
      BY TurnFacts
    <3> QED
      BY <3>1, <3>2
  <2>3. PICK k \in 1..n : k = Seat(u, n)
    BY <2>2
  <2>4. PICK a \in Seq(Spots) : a = wanted[k]
    BY DEF Runs
  <2>5. PICK m \in Nat : m = Len(a)
    BY LenProperties
  <2>6. PICK b : b = Append(a, Wish(u))
    OBVIOUS
  <2>7. b \in Seq(Spots) /\ Len(b) = m + 1 /\ b[m + 1] = Wish(u) /\ \A j \in 1..m : b[j] = a[j]
    BY <1>1, <2>5, <2>6, AppendProperties
  <2>8. Round(u, n) = m + 1
    BY <2>3, <2>4, <2>5, RunGoesOn
  <2>9. PICK more : more = [wanted EXCEPT ![k] = b]
    OBVIOUS
  <2>10. /\ more \in [1..n -> Seq(Spots)] /\ more[k] = b
         /\ \A l \in 1..n : l # k => more[l] = wanted[l]
    BY <2>7, <2>9 DEF Runs
  <2>11. ASSUME NEW l \in 1..n
         PROVE  /\ Len(more[l]) <= R
                /\ \A j \in 1..Len(more[l]) : more[l][j] = Following(hits[l], j)
                /\ \A v \in 1..LastTurn :
                     Seat(v, n) = l => (v \in own \cup {u} <=> Round(v, n) <= Len(more[l]))
    <3>1. CASE l # k
      <4>1. more[l] = wanted[l] /\ \A v \in 1..LastTurn : Seat(v, n) = l => v # u
        BY <2>3, <2>10, <3>1
      <4> QED
        BY <2>1, <4>1 DEF Runs
    <3>2. CASE l = k
      <4>1. Len(b) <= R
        BY <2>2, <2>7, <2>8
      <4>2. ASSUME NEW j \in 1..m + 1 PROVE b[j] = Following(hits[k], j)
        <5>1. CASE j = m + 1
          BY <2>3, <2>7, <2>8, <5>1 DEF Wish
        <5>2. CASE j # m + 1
          <6>1. j \in 1..m
            BY <5>2
          <6> QED
            BY <2>4, <2>5, <2>7, <6>1 DEF Runs
        <5> QED
          BY <5>1, <5>2
      <4>3. ASSUME NEW v \in 1..LastTurn, Seat(v, n) = k
            PROVE  v \in own \cup {u} <=> Round(v, n) <= m + 1
        <5>1. v \in own <=> Round(v, n) <= m
          BY <2>4, <2>5, <4>3 DEF Runs
        <5>2. v = u <=> Round(v, n) = m + 1
          BY <2>2, <2>3, <2>8, <4>3
        <5>3. Round(v, n) \in Nat
          BY <2>2
        <5> QED
          BY <5>1, <5>2, <5>3
      <4> QED
        BY <2>7, <2>10, <3>2, <4>1, <4>2, <4>3
    <3> QED
      BY <3>1, <3>2
  <2>12. Runs(own \cup {u}, more)
    BY <2>1, <2>10, <2>11 DEF Runs
  <2>13. more = [wanted EXCEPT ![Seat(u, n)] = Append(@, Wish(u))]
    BY <2>3, <2>4, <2>6, <2>9
  <2> QED
    BY <2>12, <2>13
<1> QED
  BY <1>6, <1>7, <1>8

(* A turn that is nobody's.                                                *)
LEMMA PlanSkips ==
  ASSUME NEW u \in Nat, NEW own, NEW taken, NEW budget,
         Owns(own, u - 1, taken), Pays(own, u - 1, taken, budget),
         ~ Seated(u) \/ budget = 0 \/ Wish(u) \in taken
  PROVE  Owns(own, u, taken) /\ Pays(own, u, taken, budget)
<1>1. \A v \in 1..u : v = u \/ v \in 1..u - 1
  OBVIOUS
<1>2. \A v \in 1..u - 1 : v \in 1..u
  OBVIOUS
<1>3. /\ own \in SUBSET (1..u - 1)
      /\ taken = HitSpots \cup {Wish(v) : v \in own}
      /\ \A v \in own : Seated(v) /\ Wish(v) \notin HitSpots
      /\ \A w \in own, v \in 1..u - 1 :
           v < w /\ Seated(v) => Wish(v) # Wish(w) /\ Wish(v) \in taken
  BY DEF Owns
<1>4. \A w \in own : ~ u < w
  BY <1>3
<1>5. Owns(own, u, taken)
  BY <1>1, <1>2, <1>3, <1>4 DEF Owns
<1>6. Pays(own, u, taken, budget)
  BY <1>1 DEF Pays
<1> QED
  BY <1>5, <1>6

Plans ==
  [taken : SUBSET (HitSpots \cup Spots), wanted : [1..Len(hits) -> Seq(Spots)], budget : Nat]

(* The two ways a turn can go.                                             *)
Takes(p, u) == Seated(u) /\ p.budget > 0 /\ Wish(u) \notin p.taken
Taking(p, u) ==
  [taken |-> p.taken \cup {Wish(u)},
   wanted |-> [p.wanted EXCEPT ![Seat(u, Len(hits))] = Append(@, Wish(u))],
   budget |-> p.budget - 1]

(* PlanTurn, for a turn that takes its place and one that does not.        *)
LEMMA PlanTurnIs ==
  ASSUME hits \in Seq(Chunks), NEW n \in Nat \ {0}, n = Len(hits),
         NEW u \in 1..LastTurn, NEW p \in Plans
  PROVE  /\ PlanTurn(p, Turns(n)[u]) = IF Takes(p, u) THEN Taking(p, u) ELSE p
         /\ PlanTurn(p, Turns(n)[u]) \in Plans
<1>1. LastTurn \in Nat /\ LastTurn = Neighbours * n /\ Wish(u) \in Spots
  BY WishFacts
<1>2. PICK k \in 1..n : k = Seat(u, n)
  <2>1. PICK R \in Nat : R = Neighbours
    BY ReadingAssumption
  <2>2. \A t \in 1..R * n : Seat(t, n) \in 1..n
    BY TurnFacts
  <2> QED
    BY <1>1, <2>1, <2>2
<1>3. Turns(n)[u].step = Round(u, n) /\ Turns(n)[u].hit = k
  BY <1>1, <1>2 DEF Turns, Round, Seat
<1>4. /\ p.taken \in SUBSET (HitSpots \cup Spots)
      /\ p.wanted \in [1..n -> Seq(Spots)]
      /\ p.budget \in Nat
      /\ p = [taken |-> p.taken, wanted |-> p.wanted, budget |-> p.budget]
  BY DEF Plans
<1>5. PICK turn : turn = Turns(n)[u]
  OBVIOUS
<1>6. PICK w : w = Wish(u)
  OBVIOUS
<1>7. Following(hits[turn.hit], turn.step) = w
  BY <1>2, <1>3, <1>5, <1>6 DEF Wish
<1>8. Position[hits[turn.hit]] = NoPosition <=> ~ Seated(u)
  BY <1>2, <1>3, <1>5 DEF Seated
<1>9. CASE Takes(p, u)
  <2>1. /\ Position[hits[turn.hit]] # NoPosition /\ p.budget # 0 /\ w \notin p.taken
    BY <1>4, <1>6, <1>8, <1>9 DEF Takes
  <2>2. PlanTurn(p, turn) = [p EXCEPT !.taken = @ \cup {w},
                               !.wanted[turn.hit] = Append(@, w), !.budget = @ - 1]
    BY <1>7, <2>1, Zenon DEF PlanTurn
  <2>3. turn.hit = k
    BY <1>3, <1>5
  <2>4. PlanTurn(p, turn) = [taken |-> p.taken \cup {w},
                             wanted |-> [p.wanted EXCEPT ![k] = Append(@, w)],
                             budget |-> p.budget - 1]
    BY <1>4, <2>2, <2>3
  <2>5. Append(p.wanted[k], w) \in Seq(Spots)
    BY <1>1, <1>4, <1>6, AppendProperties
  <2>6. [p.wanted EXCEPT ![k] = Append(@, w)] \in [1..n -> Seq(Spots)]
    BY <1>4, <2>5
  <2>7. PlanTurn(p, turn) = Taking(p, u)
    BY <1>2, <1>6, <2>4 DEF Taking
  <2>8. p.budget - 1 \in Nat /\ p.taken \cup {w} \in SUBSET (HitSpots \cup Spots)
    BY <1>1, <1>4, <1>6, <2>1
  <2>9. PlanTurn(p, turn) \in Plans
    BY <2>4, <2>6, <2>8 DEF Plans
  <2> QED
    BY <1>5, <1>9, <2>7, <2>9
<1>10. CASE ~ Takes(p, u)
  <2>1. Position[hits[turn.hit]] = NoPosition \/ p.budget = 0 \/ w \in p.taken
    BY <1>4, <1>6, <1>8, <1>10 DEF Takes
  <2>2. PlanTurn(p, turn) = p
    BY <1>7, <2>1, Zenon DEF PlanTurn
  <2> QED
    BY <1>5, <1>10, <2>2
<1> QED
  BY <1>9, <1>10

(* The plan after every turn, as plan_neighbours goes through them.        *)
Planning(f) ==
  /\ f[0] = [taken |-> HitSpots, wanted |-> [k \in DOMAIN hits |-> <<>>], budget |-> Budget]
  /\ \A u \in 0..LastTurn : f[u] \in Plans
  /\ \A u \in 1..LastTurn : f[u] = IF Takes(f[u - 1], u) THEN Taking(f[u - 1], u) ELSE f[u - 1]
  /\ plan_neighbours = f[LastTurn].wanted

(* plan_neighbours goes through the turns one after the other.             *)
LEMMA PlanUnfolds ==
  ASSUME hits \in Seq(Chunks), hits # <<>>
  PROVE  \E f : Planning(f)
<1>1. PICK n \in Nat \ {0} : n = Len(hits) /\ DOMAIN hits = 1..n
  BY LenProperties, EmptySeq
<1> DEFINE start == [taken |-> HitSpots, wanted |-> [k \in DOMAIN hits |-> <<>>],
                     budget |-> Budget]
           turns == [u \in 1..LastTurn |-> [p \in Plans |-> PlanTurn(p, Turns(Len(hits))[u])]]
           Eq(h) == h = [t \in 0..Neighbours * Len(hits) |->
                           IF t = 0
                           THEN [taken |-> {Position[c] : c \in Range(hits)} \ {NoPosition},
                                 wanted |-> [k \in DOMAIN hits |-> <<>>],
                                 budget |-> Budget]
                           ELSE PlanTurn(h[t - 1], Turns(Len(hits))[t])]
<1>2. plan_neighbours = (CHOOSE h : Eq(h))[Neighbours * Len(hits)].wanted
  BY DEF plan_neighbours
<1>3. PICK N \in Nat : N = LastTurn /\ N = Neighbours * Len(hits)
  BY <1>1, WishFacts
<1>4. start \in Plans
  <2>1. HitSpots \in SUBSET (HitSpots \cup Spots) /\ Budget \in Nat
    BY PlanStarts DEF Pays
  <2>2. [k \in DOMAIN hits |-> <<>>] \in [1..n -> Seq(Spots)]
    BY <1>1, EmptySeq
  <2> QED
    BY <1>1, <2>1, <2>2 DEF Plans
<1>5. turns \in Steps(Plans, N)
  BY <1>1, <1>3, PlanTurnIs DEF Steps
<1>6. \A u \in 1..N, p \in Plans : turns[u][p] = PlanTurn(p, Turns(n)[u])
  BY <1>1, <1>3
<1> HIDE DEF start, turns
<1>7. PICK f : Iterates(f, Plans, start, N, turns)
  BY <1>4, <1>5, Recursion
<1>8. /\ f \in [0..N -> Plans] /\ f[0] = start
      /\ \A u \in 1..N : f[u] = turns[u][f[u - 1]]
  BY <1>7 DEF Iterates
<1>9. ASSUME NEW u \in 1..N PROVE f[u] = PlanTurn(f[u - 1], Turns(n)[u])
  <2>1. u - 1 \in 0..N
    OBVIOUS
  <2> QED
    BY <1>6, <1>8, <2>1
<1>10. Eq(f)
  <2>1. ASSUME NEW t \in 0..N
        PROVE  f[t] = IF t = 0 THEN start ELSE PlanTurn(f[t - 1], Turns(n)[t])
    <3>1. t = 0 \/ t \in 1..N
      OBVIOUS
    <3> QED
      BY <1>8, <1>9, <3>1
  <2> QED
    BY <1>1, <1>3, <1>8, <2>1 DEF start, HitSpots
<1>11. PICK h : Eq(h) /\ plan_neighbours = h[N].wanted
  BY <1>2, <1>3, <1>10
<1>12. h[0] = start
  BY <1>3, <1>11 DEF start, HitSpots
<1>13. ASSUME NEW u \in 1..N PROVE h[u] = PlanTurn(h[u - 1], Turns(n)[u])
  <2>1. u \in 0..N /\ u # 0
    OBVIOUS
  <2> QED
    BY <1>1, <1>3, <1>11, <2>1, Zenon
<1> HIDE DEF Eq
<1>14. \A u \in 0..N : h[u] \in Plans
  <2> DEFINE T == {u \in 0..N : h[u] \in Plans}
  <2>1. 0 \in T
    BY <1>4, <1>12
  <2>2. ASSUME NEW u \in 1..N, u - 1 \in T PROVE u \in T
    BY <1>1, <1>3, <1>13, <2>2, PlanTurnIs
  <2> HIDE DEF T
  <2>3. \A u \in 0..N : u \in T
    BY <2>1, <2>2, Induction
  <2> QED
    BY <2>3 DEF T
<1>15. ASSUME NEW u \in 1..N
       PROVE  h[u] = IF Takes(h[u - 1], u) THEN Taking(h[u - 1], u) ELSE h[u - 1]
  <2>1. h[u - 1] \in Plans
    BY <1>14
  <2> QED
    BY <1>1, <1>3, <1>13, <2>1, PlanTurnIs
<1> QED
  BY <1>3, <1>11, <1>12, <1>14, <1>15 DEF Planning, start

(* After the last turn everything said of a plan still holds.              *)
LEMMA PlanEnds ==
  ASSUME hits \in Seq(Chunks), hits # <<>>
  PROVE  \E own, taken, budget : /\ Owns(own, LastTurn, taken)
                                 /\ Pays(own, LastTurn, taken, budget)
                                 /\ Runs(own, plan_neighbours)
<1>1. PICK n \in Nat \ {0} : n = Len(hits)
  BY LenProperties, EmptySeq
<1>2. PICK N \in Nat : N = LastTurn
  BY <1>1, WishFacts
<1>3. PICK f : Planning(f)
  BY PlanUnfolds
<1> DEFINE Good(own, t) == /\ Owns(own, t, f[t].taken)
                           /\ Pays(own, t, f[t].taken, f[t].budget)
                           /\ Runs(own, f[t].wanted)
           T == {t \in 0..N : \E own : Good(own, t)}
<1>4. 0 \in T
  <2>1. /\ f[0].taken = HitSpots /\ f[0].budget = Budget
        /\ f[0].wanted = [k \in DOMAIN hits |-> <<>>]
    BY <1>3 DEF Planning
  <2>2. Good({}, 0)
    BY <2>1, PlanStarts
  <2> HIDE DEF Good
  <2> QED
    BY <2>2
<1>5. ASSUME NEW u \in 1..N, u - 1 \in T PROVE u \in T
  <2>1. PICK own : Good(own, u - 1)
    BY <1>5
  <2>2. f[u - 1] \in Plans
    BY <1>2, <1>3 DEF Planning
  <2>3. f[u] = IF Takes(f[u - 1], u) THEN Taking(f[u - 1], u) ELSE f[u - 1]
    BY <1>2, <1>3 DEF Planning
  <2>4. PICK taken : taken = f[u - 1].taken
    OBVIOUS
  <2>5. PICK wanted : wanted = f[u - 1].wanted
    OBVIOUS
  <2>6. PICK budget \in Nat : budget = f[u - 1].budget
    BY <2>2 DEF Plans
  <2>7. Owns(own, u - 1, taken) /\ Pays(own, u - 1, taken, budget) /\ Runs(own, wanted)
    BY <2>1, <2>4, <2>5, <2>6
  <2>8. CASE Takes(f[u - 1], u)
    <3>1. Seated(u) /\ budget > 0 /\ Wish(u) \notin taken
      BY <2>4, <2>6, <2>8 DEF Takes
    <3>2. /\ Owns(own \cup {u}, u, taken \cup {Wish(u)})
          /\ Pays(own \cup {u}, u, taken \cup {Wish(u)}, budget - 1)
          /\ Runs(own \cup {u}, [wanted EXCEPT ![Seat(u, n)] = Append(@, Wish(u))])
      BY <1>1, <1>2, <2>7, <3>1, PlanTakes
    <3>3. /\ f[u].taken = taken \cup {Wish(u)} /\ f[u].budget = budget - 1
          /\ f[u].wanted = [wanted EXCEPT ![Seat(u, n)] = Append(@, Wish(u))]
      BY <1>1, <2>3, <2>4, <2>5, <2>6, <2>8 DEF Taking
    <3>4. Good(own \cup {u}, u)
      BY <3>2, <3>3
    <3> HIDE DEF Good
    <3> QED
      BY <3>4
  <2>9. CASE ~ Takes(f[u - 1], u)
    <3>1. ~ Seated(u) \/ budget = 0 \/ Wish(u) \in taken
      BY <2>4, <2>6, <2>9 DEF Takes
    <3>2. Owns(own, u, taken) /\ Pays(own, u, taken, budget)
      BY <2>7, <3>1, PlanSkips
    <3>3. Good(own, u)
      BY <2>3, <2>4, <2>5, <2>6, <2>7, <2>9, <3>2
    <3> HIDE DEF Good
    <3> QED
      BY <3>3
  <2> QED
    BY <2>8, <2>9
<1> HIDE DEF T
<1>6. \A t \in 0..N : t \in T
  BY <1>4, <1>5, Induction
<1>7. N \in T
  BY <1>6
<1>8. PICK own : Good(own, N)
  BY <1>7 DEF T
<1>9. plan_neighbours = f[N].wanted
  BY <1>2, <1>3 DEF Planning
<1> QED
  BY <1>2, <1>8, <1>9
-----------------------------------------------------------------------------
(* A document is committed as a whole.                                     *)
Whole ==
  /\ committed \in SUBSET Chunks
  /\ \A c \in committed, d \in Chunks :
       /\ Position[c] # NoPosition /\ Position[d] # NoPosition
       /\ Position[c][1] = Position[d][1]
       => d \in committed

Stored == {Position[c] : c \in committed}

(* Every place a hit is given belongs to a turn that took it.              *)
LEMMA GivenPlaces ==
  ASSUME hits \in Seq(Chunks), hits # <<>>, NEW own, NEW taken, NEW budget,
         Owns(own, LastTurn, taken), Pays(own, LastTurn, taken, budget),
         Runs(own, plan_neighbours),
         NEW k \in 1..Len(hits), NEW j \in 1..Len(plan_neighbours[k])
  PROVE  /\ j \in 1..Neighbours /\ Position[hits[k]] # NoPosition
         /\ plan_neighbours[k][j] = Following(hits[k], j)
         /\ \E u \in own : /\ Wish(u) = Following(hits[k], j) /\ u \in 1..LastTurn
                           /\ Seat(u, Len(hits)) = k /\ Round(u, Len(hits)) = j
<1>1. PICK n \in Nat \ {0} : n = Len(hits)
  BY LenProperties, EmptySeq
<1>2. PICK R \in Nat : R = Neighbours
  BY ReadingAssumption
<1>3. PICK m \in Nat : m = Len(plan_neighbours[k])
  BY LenProperties DEF Runs
<1>4. j \in 1..R
  BY <1>2, <1>3 DEF Runs
<1>5. LastTurn = R * n
  BY <1>1, <1>2 DEF LastTurn
<1>6. PICK u \in 1..LastTurn : Round(u, n) = j /\ Seat(u, n) = k
  <2>1. \A l \in 1..n, i \in 1..R : \E t \in 1..R * n : Round(t, n) = i /\ Seat(t, n) = l
    BY TurnFacts
  <2> QED
    BY <1>1, <1>4, <1>5, <2>1
<1>7. u \in own
  BY <1>1, <1>3, <1>6 DEF Runs
<1>8. Seated(u) /\ Wish(u) = Following(hits[k], j)
  BY <1>1, <1>6, <1>7 DEF Owns, Wish
<1> QED
  BY <1>1, <1>2, <1>4, <1>6, <1>7, <1>8 DEF Seated, Runs

(* Of those places the ones found are the first: what lies behind a gap is *)
(* not stored either.                                                      *)
LEMMA FoundIs ==
  ASSUME hits \in Seq(Chunks), hits # <<>>, Whole, NEW own, NEW taken, NEW budget,
         Owns(own, LastTurn, taken), Pays(own, LastTurn, taken, budget),
         Runs(own, plan_neighbours), NEW k \in 1..Len(hits)
  PROVE  \E m \in 0..Len(plan_neighbours[k]) :
           /\ Len(Keep(plan_neighbours[k], Stored)) = m
           /\ \A j \in 1..m : Keep(plan_neighbours[k], Stored)[j] = Following(hits[k], j)
           /\ \A j \in 1..Len(plan_neighbours[k]) : Following(hits[k], j) \in Stored <=> j <= m
<1>1. PICK w \in Seq(Spots) : w = plan_neighbours[k]
  BY DEF Runs
<1>2. PICK n \in Nat : n = Len(w)
  BY LenProperties
<1>3. PICK c \in Chunks : c = hits[k]
  BY ElementOfSeq
<1>4. \A j \in 1..n : /\ j \in 1..Neighbours /\ Position[c] # NoPosition
                      /\ w[j] = Following(c, j)
  BY <1>1, <1>2, <1>3, GivenPlaces
<1>5. ASSUME NEW i \in 1..n, NEW j \in 1..i, w[i] \in Stored PROVE w[j] \in Stored
  <2>1. /\ Position[c] # NoPosition /\ Position[c][2] \in Nat
        /\ w[i] = Following(c, i) /\ w[j] = Following(c, j)
        /\ i \in 1..Neighbours /\ j \in 1..Neighbours
    BY <1>4, ReadingAssumption
  <2>2. PICK d \in committed : Position[d] = Following(c, i)
    BY <1>5, <2>1 DEF Stored
  <2>3. PICK x \in Nat : x = Position[c][2]
    BY <2>1
  <2>4. PICK y : y = Position[c][1]
    OBVIOUS
  <2>5. Following(c, i) = <<y, x + i>> /\ Following(c, j) = <<y, x + j>>
    BY <2>3, <2>4 DEF Following
  <2>6. NoPosition # <<y, x + i>> /\ NoPosition # <<y, x + j>>
    BY <2>1, <2>3, <2>4, ReadingAssumption
  <2>7. d \in Chunks /\ Position[d] # NoPosition /\ Position[d][1] = y /\ Position[d][2] = x + i
    BY <2>2, <2>5, <2>6 DEF Whole
  <2>8. x + j \in 0..x + i
    OBVIOUS
  <2>9. PICK b \in Chunks : Position[b] = <<y, x + j>>
    BY <2>7, <2>8, ReadingAssumption
  <2>10. b \in committed
    <3>1. Position[b] # NoPosition /\ Position[b][1] = y
      BY <2>6, <2>9
    <3> QED
      BY <2>7, <3>1 DEF Whole
  <2> QED
    BY <2>1, <2>5, <2>9, <2>10 DEF Stored
<1> DEFINE Gaps == {i \in 1..n + 1 : i = n + 1 \/ w[i] \notin Stored}
<1>6. PICK g \in Gaps : \A i \in Gaps : g <= i
  <2>1. Gaps # {} /\ Gaps \in SUBSET Nat
    OBVIOUS
  <2> HIDE DEF Gaps
  <2> QED
    BY <2>1, Least
<1>7. PICK m \in Nat : m = g - 1 /\ m <= n
  BY <1>6
<1>8. ASSUME NEW i \in 1..n PROVE w[i] \in Stored <=> i <= m
  <2>1. CASE i <= m
    BY <1>6, <1>7, <2>1
  <2>2. CASE ~ i <= m
    <3>1. g \in 1..i /\ g # n + 1
      BY <1>6, <1>7, <2>2
    <3>2. w[g] \notin Stored
      BY <1>6, <3>1
    <3> QED
      BY <1>5, <2>2, <3>1, <3>2
  <2> QED
    BY <2>1, <2>2
<1> HIDE DEF Gaps
<1> DEFINE e == [j \in 1..m |-> j]
<1>9. Picks(e, m, n, w, Stored)
  <2>1. e \in [1..m -> 1..n] /\ \A j \in 1..m : e[j] = j
    BY <1>7
  <2> HIDE DEF e
  <2> QED
    BY <1>8, <2>1 DEF Picks
<1>10. Len(Keep(w, Stored)) = m /\ \A j \in 1..m : Keep(w, Stored)[j] = w[e[j]]
  BY <1>2, <1>9, KeepIs
<1>11. \A j \in 1..m : j \in 1..n /\ e[j] = j
  BY <1>7
<1> HIDE DEF e
<1>12. \A j \in 1..m : Keep(w, Stored)[j] = Following(c, j)
  BY <1>4, <1>10, <1>11
<1>13. \A j \in 1..n : Following(c, j) \in Stored <=> j <= m
  BY <1>4, <1>8
<1>14. m \in 0..n
  BY <1>7
<1> QED
  BY <1>1, <1>2, <1>3, <1>10, <1>12, <1>13, <1>14

(* What is read for one hit: the hit, then what was found of its places.   *)
Shown(k, ps) ==
  /\ ps \in Seq(Chunks) /\ Len(ps) \in 1..Len(plan_neighbours[k]) + 1
  /\ ps[1] = hits[k]
  /\ \A j \in 1..Len(ps) - 1 :
       ps[j + 1] \in committed /\ Position[ps[j + 1]] = Following(hits[k], j)
  /\ \A j \in 1..Len(plan_neighbours[k]) :
       Following(hits[k], j) \in Stored <=> j <= Len(ps) - 1

(* Expand shows that of every hit.                                         *)
LEMMA ShownOf ==
  ASSUME hits \in Seq(Chunks), hits # <<>>, Whole, NEW own, NEW taken, NEW budget,
         Owns(own, LastTurn, taken), Pays(own, LastTurn, taken, budget),
         Runs(own, plan_neighbours), NEW k \in 1..Len(hits),
         NEW found, found = Keep(plan_neighbours[k], Stored)
  PROVE  Shown(k, <<hits[k]>> \o [i \in DOMAIN found |->
                                    CHOOSE c \in committed : Position[c] = found[i]])
<1>1. PICK m \in 0..Len(plan_neighbours[k]) :
        /\ Len(found) = m
        /\ \A j \in 1..m : found[j] = Following(hits[k], j)
        /\ \A j \in 1..Len(plan_neighbours[k]) : Following(hits[k], j) \in Stored <=> j <= m
  BY FoundIs
<1>2. DOMAIN found = 1..m
  <2>1. found \in Seq(Spots)
    BY KeepPicks DEF Runs
  <2> QED
    BY <1>1, <2>1, LenProperties
<1>3. PICK p \in Nat : p = Len(plan_neighbours[k])
  BY LenProperties DEF Runs
<1>4. m \in Nat /\ m <= p /\ \A j \in 1..m : j \in 1..p
  BY <1>1, <1>3
<1> DEFINE chunk(i) == CHOOSE c \in committed : Position[c] = found[i]
<1>5. ASSUME NEW j \in 1..m
      PROVE  chunk(j) \in committed /\ Position[chunk(j)] = Following(hits[k], j)
  <2>1. found[j] \in Stored /\ found[j] = Following(hits[k], j)
    BY <1>1, <1>3, <1>4
  <2>2. \E c \in committed : Position[c] = found[j]
    BY <2>1 DEF Stored
  <2> QED
    BY <2>1, <2>2
<1>6. PICK more : more = [i \in 1..m |-> chunk(i)]
  OBVIOUS
<1> HIDE DEF chunk
<1>7. more \in Seq(Chunks) /\ Len(more) = m
  <2>1. \A j \in 1..m : chunk(j) \in Chunks
    BY <1>5 DEF Whole
  <2> QED
    BY <1>4, <1>6, <2>1
<1>8. PICK h \in Seq(Chunks) : h = <<hits[k]>> /\ Len(h) = 1 /\ h[1] = hits[k]
  <2>1. PICK c \in Chunks : c = hits[k]
    BY ElementOfSeq
  <2>2. <<c>> \in Seq(Chunks) /\ Len(<<c>>) = 1 /\ <<c>>[1] = c
    OBVIOUS
  <2> QED
    BY <2>1, <2>2
<1>9. PICK ps : ps = h \o more
  OBVIOUS
<1>10. /\ ps \in Seq(Chunks) /\ Len(ps) = m + 1
       /\ \A i \in 1..m + 1 : ps[i] = IF i <= 1 THEN h[i] ELSE more[i - 1]
  <2>1. /\ ps \in Seq(Chunks) /\ Len(ps) = 1 + m
        /\ \A i \in 1..1 + m : ps[i] = IF i <= 1 THEN h[i] ELSE more[i - 1]
    BY <1>7, <1>8, <1>9, ConcatProperties
  <2> QED
    BY <1>4, <2>1
<1>11. ps[1] = hits[k]
  BY <1>4, <1>8, <1>10
<1>12. ASSUME NEW j \in 1..m
       PROVE  ps[j + 1] \in committed /\ Position[ps[j + 1]] = Following(hits[k], j)
  <2>1. j + 1 \in 1..m + 1 /\ ~ j + 1 <= 1 /\ (j + 1) - 1 = j
    BY <1>4
  <2>2. ps[j + 1] = chunk(j)
    BY <1>6, <1>10, <2>1
  <2> QED
    BY <1>5, <2>2
<1>13. Shown(k, ps)
  <2>1. Len(ps) - 1 = m /\ Len(ps) \in 1..p + 1
    BY <1>4, <1>10
  <2> QED
    BY <1>1, <1>3, <1>10, <1>11, <1>12, <2>1 DEF Shown
<1>14. ps = <<hits[k]>> \o [i \in DOMAIN found |-> chunk(i)]
  BY <1>2, <1>6, <1>8, <1>9
<1> QED
  BY <1>13, <1>14 DEF chunk

(* Expand reads it hit by hit.                                             *)
LEMMA ReadIs ==
  ASSUME hits \in Seq(Chunks), hits # <<>>, Whole, NEW own, NEW taken, NEW budget,
         Owns(own, LastTurn, taken), Pays(own, LastTurn, taken, budget),
         Runs(own, plan_neighbours), Expand
  PROVE  \E ss, at : /\ \A k \in 1..Len(hits) : Shown(k, ss[k])
                     /\ Laid(at, Len(hits), ss, read')
                     /\ read' \in Seq(Chunks)
<1>1. PICK n \in Nat \ {0} : n = Len(hits) /\ DOMAIN hits = 1..n
  BY LenProperties, EmptySeq
<1> DEFINE found(k) == Keep(plan_neighbours[k], Stored)
           passages(k) == <<hits[k]>> \o [i \in DOMAIN found(k) |->
                            CHOOSE c \in committed : Position[c] = found(k)[i]]
<1>2. read' = FlattenSeq([k \in 1..n |-> passages(k)])
  BY <1>1 DEF Expand, Stored
<1>3. \A k \in 1..n : Shown(k, passages(k))
  BY <1>1, ShownOf
<1> HIDE DEF found, passages
<1>4. PICK ss : ss = [k \in 1..n |-> passages(k)]
  OBVIOUS
<1>5. \A k \in 1..n : Shown(k, ss[k])
  BY <1>3, <1>4
<1>6. ss \in [1..n -> Seq(Chunks)]
  BY <1>3, <1>4 DEF Shown
<1>7. PICK r : r = FlattenSeq(ss)
  OBVIOUS
<1>8. r \in Seq(Chunks) /\ \E at : Laid(at, n, ss, r)
  BY <1>6, <1>7, FlattenLays
<1> QED
  BY <1>1, <1>2, <1>4, <1>5, <1>7, <1>8

(* A reading r, composed along a plan of the passages of every hit.        *)
Composed(own, taken, ss, at, r) ==
  /\ Owns(own, LastTurn, taken) /\ Runs(own, plan_neighbours)
  /\ \E budget : Pays(own, LastTurn, taken, budget)
  /\ \A k \in 1..Len(hits) : Shown(k, ss[k])
  /\ Laid(at, Len(hits), ss, r)
  /\ r \in Seq(Chunks)

(* What Expand reads is composed along the finished plan.                  *)
LEMMA ExpandComposes ==
  ASSUME hits \in Seq(Chunks), hits # <<>>, Whole, Expand
  PROVE  \E own, taken, ss, at : Composed(own, taken, ss, at, read')
<1>1. PICK own, taken, budget : /\ Owns(own, LastTurn, taken)
                                /\ Pays(own, LastTurn, taken, budget)
                                /\ Runs(own, plan_neighbours)
  BY PlanEnds
<1>2. PICK ss, at : /\ \A k \in 1..Len(hits) : Shown(k, ss[k])
                    /\ Laid(at, Len(hits), ss, read')
                    /\ read' \in Seq(Chunks)
  BY <1>1, ReadIs
<1>3. Composed(own, taken, ss, at, read')
  BY <1>1, <1>2 DEF Composed
<1> QED
  BY <1>3

(* A turn that took the place of chunk c, the i-th behind the k-th hit.    *)
AddedBy(own, c, k, i) ==
  \E u \in own : /\ Wish(u) = Position[c] /\ u \in 1..LastTurn
                /\ Seat(u, Len(hits)) = k /\ Round(u, Len(hits)) = i

(* What follows a hit among its passages was added in one of its turns.    *)
LEMMA AddedInTurn ==
  ASSUME hits \in Seq(Chunks), hits # <<>>, Whole, NEW own, NEW taken, NEW ss, NEW at, NEW r,
         Composed(own, taken, ss, at, r),
         NEW k \in 1..Len(hits), NEW j \in 2..Len(ss[k])
  PROVE  /\ ss[k][j] \in committed /\ ss[k][j] \in Chunks
         /\ Position[hits[k]] # NoPosition
         /\ Position[ss[k][j]] = Following(hits[k], j - 1)
         /\ ss[k][j] \notin Range(hits)
         /\ j - 1 \in 1..Neighbours /\ j - 1 \in 1..Len(plan_neighbours[k])
         /\ AddedBy(own, ss[k][j], k, j - 1)
<1>1. Shown(k, ss[k])
  BY DEF Composed
<1>2. PICK p \in Nat : p = Len(plan_neighbours[k])
  BY LenProperties DEF Composed, Runs
<1>3. PICK i \in 1..p : j = i + 1 /\ i \in 1..Len(ss[k]) - 1
  <2>1. PICK m \in Nat : m = Len(ss[k]) /\ m <= p + 1
    BY <1>1, <1>2 DEF Shown
  <2>2. j - 1 \in 1..p /\ j = (j - 1) + 1 /\ j - 1 \in 1..m - 1
    BY <1>2, <2>1
  <2> QED
    BY <2>1, <2>2
<1>4. ss[k][j] \in committed /\ Position[ss[k][j]] = Following(hits[k], i)
  BY <1>1, <1>3 DEF Shown
<1>5. PICK u \in own : /\ Wish(u) = Following(hits[k], i) /\ u \in 1..LastTurn
                       /\ Seat(u, Len(hits)) = k /\ Round(u, Len(hits)) = i
  BY <1>2, GivenPlaces DEF Composed
<1>6. i \in 1..Neighbours /\ Position[hits[k]] # NoPosition
  BY <1>2, GivenPlaces DEF Composed
<1>7. Wish(u) \notin HitSpots
  BY DEF Composed, Owns
<1>8. Following(hits[k], i) # NoPosition
  <2>1. hits[k] \in Chunks
    BY ElementOfSeq
  <2> QED
    BY <1>6, <2>1, ReadingAssumption DEF Following
<1>9. ss[k][j] \notin Range(hits)
  BY <1>4, <1>5, <1>7, <1>8 DEF HitSpots
<1>10. ss[k][j] \in Chunks /\ j - 1 = i
  BY <1>3, <1>4 DEF Whole
<1>11. AddedBy(own, ss[k][j], k, j - 1)
  BY <1>4, <1>5, <1>10 DEF AddedBy
<1> QED
  BY <1>2, <1>3, <1>4, <1>6, <1>9, <1>10, <1>11

(* No chunk is shown in two places.                                        *)
LEMMA ShownOnce ==
  ASSUME hits \in Seq(Chunks), hits # <<>>, IsInjective(hits), Whole,
         NEW own, NEW taken, NEW ss, NEW at, NEW r, Composed(own, taken, ss, at, r),
         NEW k \in 1..Len(hits), NEW l \in 1..Len(hits),
         NEW j \in 1..Len(ss[k]), NEW i \in 1..Len(ss[l]), ss[k][j] = ss[l][i]
  PROVE  k = l /\ j = i
<1>1. PICK n \in Nat \ {0} : n = Len(hits) /\ DOMAIN hits = 1..n
  BY LenProperties, EmptySeq
<1>2. ss[k][1] = hits[k] /\ ss[l][1] = hits[l]
  BY DEF Composed, Shown
<1>3. hits[k] \in Range(hits) /\ hits[l] \in Range(hits)
  BY <1>1 DEF Range
<1>4. j \in 2..Len(ss[k]) \/ j = 1
  OBVIOUS
<1>5. i \in 2..Len(ss[l]) \/ i = 1
  OBVIOUS
<1>6. CASE j = 1 /\ i = 1
  BY <1>1, <1>2, <1>6 DEF IsInjective
<1>7. CASE j = 1 /\ i # 1
  <2>1. ss[l][i] \notin Range(hits)
    BY <1>5, <1>7, AddedInTurn
  <2> QED
    BY <1>2, <1>3, <1>7, <2>1
<1>8. CASE j # 1 /\ i = 1
  <2>1. ss[k][j] \notin Range(hits)
    BY <1>4, <1>8, AddedInTurn
  <2> QED
    BY <1>2, <1>3, <1>8, <2>1
<1>9. CASE j # 1 /\ i # 1
  <2> j \in 2..Len(ss[k]) /\ i \in 2..Len(ss[l])
    BY <1>4, <1>5, <1>9
  <2>1. PICK u \in own : /\ Wish(u) = Position[ss[k][j]] /\ u \in 1..LastTurn
                         /\ Seat(u, Len(hits)) = k /\ Round(u, Len(hits)) = j - 1
    <3>1. AddedBy(own, ss[k][j], k, j - 1)
      BY AddedInTurn
    <3> QED
      BY <3>1 DEF AddedBy
  <2>2. PICK v \in own : /\ Wish(v) = Position[ss[l][i]] /\ v \in 1..LastTurn
                         /\ Seat(v, Len(hits)) = l /\ Round(v, Len(hits)) = i - 1
    <3>1. AddedBy(own, ss[l][i], l, i - 1)
      BY AddedInTurn
    <3> QED
      BY <3>1 DEF AddedBy
  <2>3. Wish(u) = Wish(v) /\ Seated(u) /\ Seated(v)
    BY <2>1, <2>2 DEF Composed, Owns
  <2>4. LastTurn \in Nat
    BY <1>1, WishFacts
  <2>5. ~ u < v /\ ~ v < u
    BY <2>1, <2>2, <2>3 DEF Composed, Owns
  <2>6. u = v
    BY <2>1, <2>2, <2>4, <2>5
  <2>7. k = l /\ j - 1 = i - 1
    BY <2>1, <2>2, <2>6
  <2> QED
    BY <2>7
<1> QED
  BY <1>6, <1>7, <1>8, <1>9

(* The j-th passage of the k-th hit is the p-th that is read.              *)
Stands(ss, at, r, p, k, j) ==
  /\ k \in 1..Len(hits) /\ j \in 1..Len(ss[k]) /\ at[k] \in Nat
  /\ p = at[k] + j /\ p \in 1..Len(r) /\ r[p] = ss[k][j]

(* Every place that is read belongs to one hit, and every passage of a     *)
(* hit is at its place.                                                    *)
LEMMA StandsSomewhere ==
  ASSUME hits \in Seq(Chunks), NEW own, NEW taken, NEW ss, NEW at, NEW r,
         Composed(own, taken, ss, at, r)
  PROVE  /\ \A p \in 1..Len(r) : \E k, j : Stands(ss, at, r, p, k, j)
         /\ \A k \in 1..Len(hits) : \A j \in 1..Len(ss[k]) : Stands(ss, at, r, at[k] + j, k, j)
<1>1. PICK n \in Nat : n = Len(hits)
  BY LenProperties
<1>2. /\ at \in [1..n + 1 -> Nat] /\ at[1] = 0 /\ at[n + 1] = Len(r)
      /\ \A k \in 1..n : at[k + 1] = at[k] + Len(ss[k])
      /\ \A k, l \in 1..n + 1 : k <= l => at[k] <= at[l]
      /\ \A k \in 1..n : \A j \in 1..Len(ss[k]) : r[at[k] + j] = ss[k][j]
      /\ \A p \in 1..Len(r) : \E k \in 1..n : \E j \in 1..Len(ss[k]) : p = at[k] + j
  BY <1>1 DEF Composed, Laid
<1>3. ASSUME NEW k \in 1..n, NEW j \in 1..Len(ss[k]) PROVE Stands(ss, at, r, at[k] + j, k, j)
  <2>1. PICK m \in Nat : m = Len(ss[k])
    BY <1>1, LenProperties DEF Composed, Shown
  <2>2. k \in 1..n + 1 /\ k + 1 \in 1..n + 1 /\ n + 1 \in 1..n + 1 /\ k + 1 <= n + 1
    OBVIOUS
  <2>3. at[k] \in Nat /\ at[k + 1] = at[k] + m /\ at[k + 1] <= at[n + 1] /\ at[n + 1] \in Nat
    BY <1>2, <2>1, <2>2
  <2>4. at[k] + j \in 1..Len(r)
    <3>1. PICK a \in Nat : a = at[k]
      BY <2>3
    <3>2. PICK l \in Nat : l = Len(r)
      BY <1>2, <2>3
    <3>3. a + m <= l /\ j \in 1..m
      BY <1>2, <2>1, <2>3, <3>1, <3>2
    <3> QED
      BY <3>1, <3>2, <3>3
  <2> QED
    BY <1>1, <1>2, <2>3, <2>4 DEF Stands
<1>4. ASSUME NEW p \in 1..Len(r) PROVE \E k, j : Stands(ss, at, r, p, k, j)
  <2>1. PICK k \in 1..n : \E j \in 1..Len(ss[k]) : p = at[k] + j
    BY <1>2
  <2>2. PICK j \in 1..Len(ss[k]) : p = at[k] + j
    BY <2>1
  <2> QED
    BY <1>3, <2>2
<1> QED
  BY <1>1, <1>3, <1>4

(* Nothing is read twice, and the hits keep their order.                   *)
LEMMA NothingIsRepeated ==
  ASSUME hits \in Seq(Chunks), hits # <<>>, IsInjective(hits), Whole,
         NEW own, NEW taken, NEW ss, NEW at, NEW r, Composed(own, taken, ss, at, r)
  PROVE  IsInjective(r)
<1>1. DOMAIN r = 1..Len(r)
  BY LenProperties DEF Composed
<1>2. ASSUME NEW p \in 1..Len(r), NEW q \in 1..Len(r), r[p] = r[q] PROVE p = q
  <2>1. PICK k, j : Stands(ss, at, r, p, k, j)
    BY StandsSomewhere
  <2>2. PICK l, i : Stands(ss, at, r, q, l, i)
    BY StandsSomewhere
  <2>3. /\ k \in 1..Len(hits) /\ j \in 1..Len(ss[k]) /\ p = at[k] + j
        /\ l \in 1..Len(hits) /\ i \in 1..Len(ss[l]) /\ q = at[l] + i
        /\ ss[k][j] = ss[l][i]
    BY <1>2, <2>1, <2>2 DEF Stands
  <2>4. k = l /\ j = i
    BY <2>3, ShownOnce
  <2> QED
    BY <2>3, <2>4
<1> QED
  BY <1>1, <1>2 DEF IsInjective

(* Leave out what was added and the retrieved list is back.                *)
LEMMA HitsKeepTheirOrder ==
  ASSUME hits \in Seq(Chunks), hits # <<>>, IsInjective(hits), Whole,
         NEW own, NEW taken, NEW ss, NEW at, NEW r, Composed(own, taken, ss, at, r)
  PROVE  Keep(r, Range(hits)) = hits
<1>1. PICK n \in Nat : n = Len(hits) /\ DOMAIN hits = 1..n
  BY LenProperties
<1>2. PICK m \in Nat : m = Len(r)
  BY LenProperties DEF Composed
<1>3. \A k \in 1..n : 1 \in 1..Len(ss[k]) /\ ss[k][1] = hits[k]
  <2>1. ASSUME NEW k \in 1..n PROVE 1 \in 1..Len(ss[k]) /\ ss[k][1] = hits[k]
    <3>1. ss[k] \in Seq(Chunks) /\ ss[k][1] = hits[k]
      BY <1>1 DEF Composed, Shown
    <3>2. PICK x \in Nat : x = Len(plan_neighbours[k])
      BY <1>1, LenProperties DEF Composed, Runs
    <3>3. Len(ss[k]) \in 1..x + 1
      BY <1>1, <3>2 DEF Composed, Shown
    <3> QED
      BY <3>1, <3>3
  <2> QED
    BY <2>1
<1> DEFINE e == [k \in 1..n |-> at[k] + 1]
<1>4. \A k \in 1..n : e[k] = at[k] + 1 /\ Stands(ss, at, r, e[k], k, 1)
  BY <1>1, <1>3, StandsSomewhere
<1>5. e \in [1..n -> 1..m]
  BY <1>2, <1>4 DEF Stands
<1> HIDE DEF e
<1>6. ASSUME NEW k \in 1..n, NEW l \in 1..n, k < l PROVE e[k] < e[l]
  <2>1. /\ k + 1 \in 1..n + 1 /\ l \in 1..n + 1 /\ k + 1 <= l
    BY <1>6
  <2>2. at[k + 1] <= at[l] /\ at[k + 1] = at[k] + Len(ss[k]) /\ at[k] \in Nat /\ at[l] \in Nat
    <3>1. /\ at \in [1..n + 1 -> Nat]
          /\ \A x \in 1..n : at[x + 1] = at[x] + Len(ss[x])
          /\ \A x, y \in 1..n + 1 : x <= y => at[x] <= at[y]
      BY <1>1 DEF Composed, Laid
    <3>2. k \in 1..n + 1
      OBVIOUS
    <3> QED
      BY <2>1, <3>1, <3>2
  <2>3. Len(ss[k]) >= 1 /\ Len(ss[k]) \in Nat
    <3>1. ss[k] \in Seq(Chunks)
      BY <1>1 DEF Composed, Shown
    <3> QED
      BY <1>3, <3>1, LenProperties
  <2> QED
    BY <1>4, <2>2, <2>3
<1>7. ASSUME NEW p \in 1..m PROVE r[p] \in Range(hits) <=> \E k \in 1..n : e[k] = p
  <2>1. ASSUME NEW k \in 1..n, e[k] = p PROVE r[p] \in Range(hits)
    <3>1. r[p] = hits[k]
      BY <1>3, <1>4, <2>1 DEF Stands
    <3> QED
      BY <1>1, <3>1 DEF Range
  <2>2. ASSUME r[p] \in Range(hits) PROVE \E k \in 1..n : e[k] = p
    <3>1. PICK k, j : Stands(ss, at, r, p, k, j)
      BY <1>2, StandsSomewhere
    <3>2. k \in 1..n /\ j \in 1..Len(ss[k]) /\ r[p] = ss[k][j] /\ p = at[k] + j
      BY <1>1, <3>1 DEF Stands
    <3>3. ~ j \in 2..Len(ss[k])
      BY <1>1, <2>2, <3>2, AddedInTurn
    <3>4. j = 1
      BY <3>2, <3>3
    <3> QED
      BY <1>4, <3>2, <3>4
  <2> QED
    BY <2>1, <2>2
<1>8. Picks(e, n, m, r, Range(hits))
  BY <1>5, <1>6, <1>7 DEF Picks
<1>9. r \in Seq(Chunks)
  BY DEF Composed
<1>10. Len(Keep(r, Range(hits))) = n /\ \A k \in 1..n : Keep(r, Range(hits))[k] = r[e[k]]
  BY <1>2, <1>8, <1>9, KeepIs
<1>11. \A k \in 1..n : r[e[k]] = hits[k]
  BY <1>3, <1>4 DEF Stands
<1>12. PICK h \in Seq(Chunks) : h = Keep(r, Range(hits))
  BY <1>9, KeepPicks
<1> QED
  BY <1>1, <1>10, <1>11, <1>12, SeqEqual

(* What was added continues the passage before it.                         *)
LEMMA AddedContinues ==
  ASSUME hits \in Seq(Chunks), hits # <<>>, Whole,
         NEW own, NEW taken, NEW ss, NEW at, NEW r, Composed(own, taken, ss, at, r),
         NEW p \in 1..Len(r), r[p] \notin Range(hits)
  PROVE  /\ p > 1 /\ Position[r[p - 1]] # NoPosition
         /\ Position[r[p]] = Following(r[p - 1], 1)
<1>1. PICK k, j : Stands(ss, at, r, p, k, j)
  BY StandsSomewhere
<1>2. /\ k \in 1..Len(hits) /\ j \in 1..Len(ss[k]) /\ at[k] \in Nat
      /\ p = at[k] + j /\ r[p] = ss[k][j]
  BY <1>1 DEF Stands
<1>3. PICK c \in Chunks : c = hits[k] /\ c \in Range(hits) /\ ss[k][1] = c
  <2>1. hits[k] \in Chunks /\ k \in DOMAIN hits
    BY <1>2, ElementOfSeq, LenProperties
  <2> QED
    BY <1>2, <2>1 DEF Range, Composed, Shown
<1>4. j \in 2..Len(ss[k])
  BY <1>2, <1>3
<1>5. j - 1 \in 1..Len(ss[k]) /\ p - 1 = at[k] + (j - 1) /\ p > 1
  BY <1>2, <1>4
<1>6. r[p - 1] = ss[k][j - 1]
  <2>1. Stands(ss, at, r, at[k] + (j - 1), k, j - 1)
    BY <1>2, <1>5, StandsSomewhere
  <2> QED
    BY <1>5, <2>1 DEF Stands
<1>7. Position[c] # NoPosition /\ Position[r[p]] = Following(c, j - 1) /\ j - 1 \in 1..Neighbours
  <2>1. /\ Position[hits[k]] # NoPosition /\ j - 1 \in 1..Neighbours
        /\ Position[ss[k][j]] = Following(hits[k], j - 1)
    BY <1>2, <1>4, AddedInTurn
  <2> QED
    BY <1>2, <1>3, <2>1
<1>8. PICK x : x = Position[c][1]
  OBVIOUS
<1>9. PICK m \in Nat : m = Position[c][2]
  BY <1>7, ReadingAssumption
<1>10. Position[c] = <<x, m>> /\ Position[r[p]] = <<x, m + (j - 1)>>
  BY <1>7, <1>8, <1>9, ReadingAssumption DEF Following
<1>11. CASE j = 2
  <2>1. r[p - 1] = c
    BY <1>3, <1>6, <1>11
  <2> QED
    BY <1>5, <1>7, <1>11, <2>1
<1>12. CASE j # 2
  <2>1. j - 1 \in 2..Len(ss[k])
    BY <1>4, <1>12
  <2>2. PICK d \in Chunks : d = ss[k][j - 1] /\ Position[d] = Following(c, (j - 1) - 1)
                            /\ (j - 1) - 1 \in 1..Neighbours
    <3>1. PICK i : i \in 2..Len(ss[k]) /\ i = j - 1
      BY <2>1
    <3>2. /\ ss[k][i] \in Chunks /\ Position[ss[k][i]] = Following(hits[k], i - 1)
          /\ i - 1 \in 1..Neighbours
      BY <1>2, <3>1, AddedInTurn
    <3> QED
      BY <1>3, <3>1, <3>2
  <2>3. Position[d] = <<x, m + (j - 2)>> /\ Position[d] # NoPosition
    BY <1>4, <1>7, <1>8, <1>9, <2>2, ReadingAssumption DEF Following
  <2>4. Following(d, 1) = <<x, (m + (j - 2)) + 1>>
    BY <2>3 DEF Following
  <2> QED
    BY <1>4, <1>5, <1>6, <1>10, <2>2, <2>3, <2>4
<1> QED
  BY <1>11, <1>12

(* A set counted by another.                                               *)
LEMMA Counted ==
  ASSUME NEW S, IsFiniteSet(S), NEW T, NEW f \in [T -> S],
         \A x, y \in T : f[x] = f[y] => x = y
  PROVE  /\ IsFiniteSet(T) /\ Cardinality(T) \in Nat /\ Cardinality(S) \in Nat
         /\ Cardinality(T) <= Cardinality(S)
<1>1. f \in Injection(T, S)
  BY DEF Injection, IsInjective
<1> QED
  BY <1>1, FS_Injection, FS_CardinalityType

(* A passage that was added has a turn of its own.                         *)
LEMMA TurnOf ==
  ASSUME hits \in Seq(Chunks), hits # <<>>, Whole,
         NEW own, NEW taken, NEW ss, NEW at, NEW r, Composed(own, taken, ss, at, r),
         NEW p \in 1..Len(r), r[p] \notin Range(hits)
  PROVE  /\ r[p] \in Chunks /\ r[p] \in committed /\ Position[r[p]] # NoPosition
         /\ \E k \in 1..Len(hits) : \E j \in 2..Len(ss[k]) :
              /\ Position[hits[k]] # NoPosition /\ j - 1 \in 1..Neighbours
              /\ Position[r[p]] = Following(hits[k], j - 1)
              /\ AddedBy(own, r[p], k, j - 1) /\ p = at[k] + j
<1>1. PICK k, j : Stands(ss, at, r, p, k, j)
  BY StandsSomewhere
<1>2. /\ k \in 1..Len(hits) /\ j \in 1..Len(ss[k]) /\ r[p] = ss[k][j] /\ p = at[k] + j
  BY <1>1 DEF Stands
<1>3. hits[k] \in Range(hits) /\ ss[k][1] = hits[k] /\ hits[k] \in Chunks
  <2>1. hits[k] \in Chunks /\ k \in DOMAIN hits
    BY <1>2, ElementOfSeq, LenProperties
  <2> QED
    BY <1>2, <2>1 DEF Range, Composed, Shown
<1>4. j \in 2..Len(ss[k])
  BY <1>2, <1>3
<1>5. /\ ss[k][j] \in committed /\ ss[k][j] \in Chunks
      /\ Position[hits[k]] # NoPosition
      /\ Position[ss[k][j]] = Following(hits[k], j - 1)
      /\ j - 1 \in 1..Neighbours
      /\ AddedBy(own, ss[k][j], k, j - 1)
  BY <1>2, <1>4, AddedInTurn
<1>6. Following(hits[k], j - 1) # NoPosition
  BY <1>3, <1>5, ReadingAssumption DEF Following
<1> QED
  BY <1>2, <1>4, <1>5, <1>6

(* The passages stay within the budget, unless the hits alone are more.    *)
LEMMA BudgetHolds ==
  ASSUME hits \in Seq(Chunks), hits # <<>>, IsInjective(hits), Whole,
         NEW own, NEW taken, NEW ss, NEW at, NEW r, Composed(own, taken, ss, at, r)
  PROVE  Len(r) <= Larger(MaxChunks, Len(hits))
<1>1. PICK n \in Nat : n = Len(hits) /\ DOMAIN hits = 1..n
  BY LenProperties
<1>2. PICK m \in Nat : m = Len(r) /\ DOMAIN r = 1..m
  BY LenProperties DEF Composed
<1>3. \A p, q \in 1..m : r[p] = r[q] => p = q
  BY <1>2, NothingIsRepeated DEF IsInjective
<1> DEFINE H == {p \in 1..m : r[p] \in Range(hits)}
           A == {p \in 1..m : r[p] \notin Range(hits)}
<1>4. IsFiniteSet(H) /\ Cardinality(H) \in Nat /\ Cardinality(H) <= n
  <2> DEFINE f == [p \in H |-> CHOOSE k \in 1..n : hits[k] = r[p]]
  <2>1. \A p \in H : f[p] \in 1..n /\ hits[f[p]] = r[p]
    BY <1>1 DEF Range
  <2>2. f \in [H -> 1..n]
    BY <2>1
  <2> HIDE DEF f
  <2>3. \A p, q \in H : f[p] = f[q] => p = q
    BY <1>3, <2>1
  <2>4. IsFiniteSet(1..n) /\ Cardinality(1..n) = n
    BY FS_Interval
  <2> HIDE DEF H
  <2> QED
    BY <2>2, <2>3, <2>4, Counted
<1>5. PICK budget : Pays(own, LastTurn, taken, budget)
  BY DEF Composed
<1>6. IsFiniteSet(A) /\ Cardinality(A) \in Nat /\ Cardinality(A) + budget <= Budget
  <2> DEFINE f == [p \in A |-> CHOOSE u \in own : Wish(u) = Position[r[p]]]
  <2>1. ASSUME NEW p \in A
        PROVE  f[p] \in own /\ Wish(f[p]) = Position[r[p]] /\ r[p] \in Chunks
               /\ Position[r[p]] # NoPosition
    <3>1. p \in 1..Len(r) /\ r[p] \notin Range(hits)
      BY <1>2
    <3>2. PICK k, i : AddedBy(own, r[p], k, i)
      BY <3>1, TurnOf
    <3>3. \E u \in own : Wish(u) = Position[r[p]]
      BY <3>2 DEF AddedBy
    <3>4. r[p] \in Chunks /\ Position[r[p]] # NoPosition
      BY <3>1, TurnOf
    <3> QED
      BY <3>3, <3>4
  <2>2. f \in [A -> own]
    BY <2>1
  <2> HIDE DEF f
  <2>3. ASSUME NEW p \in A, NEW q \in A, f[p] = f[q] PROVE p = q
    <3>1. r[p] = r[q]
      BY <2>1, <2>3, ReadingAssumption
    <3> QED
      BY <1>3, <3>1
  <2>4. IsFiniteSet(own) /\ Cardinality(own) + budget = Budget /\ budget \in Nat
    BY <1>5 DEF Pays
  <2> HIDE DEF A
  <2>5. IsFiniteSet(A) /\ Cardinality(A) \in Nat /\ Cardinality(own) \in Nat
        /\ Cardinality(A) <= Cardinality(own)
    BY <2>2, <2>3, <2>4, Counted
  <2> QED
    BY <2>4, <2>5
<1>7. H \cup A = 1..m /\ H \cap A = {}
  OBVIOUS
<1>8. Cardinality(1..m) = m
  BY FS_Interval
<1> HIDE DEF H, A
<1>9. Cardinality(H \cup A) = Cardinality(H) + Cardinality(A)
  <2>1. Cardinality(H \cup A) = Cardinality(H) + Cardinality(A) - Cardinality(H \cap A)
    BY <1>4, <1>6, FS_Union
  <2>2. Cardinality(H \cap A) = 0
    BY <1>7, FS_EmptySet
  <2> QED
    BY <1>4, <1>6, <2>1, <2>2
<1>10. m <= n + Budget
  <2>1. budget \in Nat /\ Budget \in Int
    <3>1. Budget \in Nat
      BY <1>1, ReadingAssumption DEF Budget, Smaller
    <3> QED
      BY <1>5, <3>1 DEF Pays
  <2>2. Cardinality(H \cup A) = m
    BY <1>7, <1>8
  <2>3. PICK a \in Nat, b \in Nat : a = Cardinality(H) /\ b = Cardinality(A)
    BY <1>4, <1>6
  <2>4. m = a + b /\ a <= n /\ b + budget <= Budget
    BY <1>4, <1>6, <1>9, <2>2, <2>3
  <2> QED
    BY <2>1, <2>4
<1> QED
  BY <1>1, <1>2, <1>10, ReadingAssumption DEF Budget, Smaller, Larger

(* When a hit was given a second passage, every hit had what it wished for *)
(* first.                                                                  *)
LEMMA FirstsBeforeSeconds ==
  ASSUME hits \in Seq(Chunks), hits # <<>>, IsInjective(hits), Whole,
         NEW own, NEW taken, NEW ss, NEW at, NEW r, Composed(own, taken, ss, at, r),
         NEW p \in 1..Len(r), p + 1 \in 1..Len(r),
         r[p] \notin Range(hits), r[p + 1] \notin Range(hits),
         NEW c \in Range(hits), NEW d \in committed,
         Position[c] # NoPosition, Position[d] = Following(c, 1)
  PROVE  d \in Range(r)
<1>1. PICK n \in Nat \ {0} : n = Len(hits) /\ DOMAIN hits = 1..n
  BY LenProperties, EmptySeq
<1>2. LastTurn \in Nat /\ d \in Chunks
  BY <1>1, WishFacts DEF Whole
<1>3. PICK R \in Nat : R = Neighbours /\ LastTurn = R * n
  BY <1>1, ReadingAssumption DEF LastTurn
<1>4. PICK u \in own : u \in 1..LastTurn /\ u > n
  <2>1. PICK k \in 1..n : \E j \in 2..Len(ss[k]) :
              AddedBy(own, r[p + 1], k, j - 1) /\ p + 1 = at[k] + j
    BY <1>1, TurnOf
  <2>2. PICK j \in 2..Len(ss[k]) : AddedBy(own, r[p + 1], k, j - 1) /\ p + 1 = at[k] + j
    BY <2>1
  <2>3. Stands(ss, at, r, at[k] + (j - 1), k, j - 1)
    <3>1. j - 1 \in 1..Len(ss[k])
      BY <2>2
    <3> QED
      BY <1>1, <3>1, StandsSomewhere
  <2>4. at[k] \in Nat /\ p = at[k] + (j - 1) /\ r[p] = ss[k][j - 1]
    BY <2>2, <2>3 DEF Stands
  <2>5. ss[k][1] = hits[k] /\ hits[k] \in Range(hits)
    BY <1>1 DEF Composed, Shown, Range
  <2>6. j # 2
    BY <2>4, <2>5
  <2>7. PICK u \in own : u \in 1..LastTurn /\ Round(u, n) = j - 1
    BY <1>1, <2>2 DEF AddedBy
  <2>8. \A t \in 1..n : Round(t, n) = 1
    BY <1>3, TurnFacts
  <2>9. ~ u \in 1..n
    BY <2>2, <2>6, <2>7, <2>8
  <2> QED
    BY <1>1, <1>2, <2>7, <2>9
<1>5. PICK h \in 1..n : hits[h] = c
  BY <1>1 DEF Range
<1>6. Seated(h) /\ Wish(h) = Position[d] /\ h \in 1..LastTurn
  <2>1. Seat(h, n) = h /\ Round(h, n) = 1
    BY <1>3, TurnFacts
  <2> QED
    BY <1>1, <1>2, <1>4, <1>5, <2>1 DEF Seated, Wish
<1>7. Wish(h) \in taken
  <2>1. h < u
    BY <1>4
  <2> QED
    BY <1>4, <1>6, <2>1 DEF Composed, Owns
<1>8. CASE Wish(h) \in HitSpots
  <2>1. PICK b \in Range(hits) : Position[b] = Position[d] /\ Position[b] # NoPosition
    BY <1>6, <1>8 DEF HitSpots
  <2>2. PICK k \in 1..n : hits[k] = b
    BY <1>1, <2>1 DEF Range
  <2>3. b \in Chunks
    BY <1>1, <2>2, ElementOfSeq
  <2>4. b = d
    BY <1>2, <2>1, <2>3, ReadingAssumption
  <2>5. ss[k][1] = d /\ 1 \in 1..Len(ss[k])
    <3>1. PICK x \in Nat : x = Len(plan_neighbours[k])
      BY <1>1, LenProperties DEF Composed, Runs
    <3>2. Len(ss[k]) \in 1..x + 1 /\ ss[k][1] = hits[k]
      BY <1>1, <3>1 DEF Composed, Shown
    <3> QED
      BY <2>2, <2>4, <3>2
  <2>6. Stands(ss, at, r, at[k] + 1, k, 1)
    BY <1>1, <2>5, StandsSomewhere
  <2>7. r[at[k] + 1] = d /\ at[k] + 1 \in DOMAIN r
    BY <2>5, <2>6, LenProperties DEF Stands, Composed
  <2> QED
    BY <2>7 DEF Range
<1>9. CASE Wish(h) \notin HitSpots
  <2>1. PICK w \in own : Wish(w) = Position[d]
    BY <1>6, <1>7, <1>9 DEF Composed, Owns
  <2>2. w \in 1..LastTurn /\ Seated(w)
    BY DEF Composed, Owns
  <2>3. PICK k \in 1..n, i \in 1..R : Seat(w, n) = k /\ Round(w, n) = i
    BY <1>3, <2>2, TurnFacts
  <2>4. PICK x \in Nat : x = Len(plan_neighbours[k])
    BY <1>1, <2>3, LenProperties DEF Composed, Runs
  <2>5. i \in 1..x
    BY <1>1, <2>2, <2>3, <2>4 DEF Composed, Runs
  <2>6. Following(hits[k], i) = Position[d]
    BY <1>1, <2>1, <2>3 DEF Wish
  <2>7. Following(hits[k], i) \in Stored
    BY <2>6 DEF Stored
  <2>8. PICK l \in Nat : l = Len(ss[k]) /\ i <= l - 1
    BY <1>1, <2>4, <2>5, <2>7, LenProperties DEF Composed, Shown
  <2>9. i + 1 \in 2..Len(ss[k]) /\ (i + 1) - 1 = i /\ i + 1 \in 1..Len(ss[k])
    BY <2>8
  <2>10. /\ ss[k][i + 1] \in Chunks /\ Position[hits[k]] # NoPosition
         /\ Position[ss[k][i + 1]] = Following(hits[k], (i + 1) - 1)
    BY <1>1, <2>9, AddedInTurn
  <2>11. Position[d] # NoPosition
    <3>1. hits[k] \in Chunks
      BY <1>1, ElementOfSeq
    <3> QED
      BY <1>3, <2>3, <2>6, <2>10, <3>1, ReadingAssumption DEF Following
  <2>12. ss[k][i + 1] = d
    BY <1>2, <2>6, <2>9, <2>10, <2>11, ReadingAssumption
  <2>13. Stands(ss, at, r, at[k] + (i + 1), k, i + 1)
    BY <1>1, <2>9, StandsSomewhere
  <2>14. r[at[k] + (i + 1)] = d /\ at[k] + (i + 1) \in DOMAIN r
    BY <2>12, <2>13, LenProperties DEF Stands, Composed
  <2> QED
    BY <2>14 DEF Range
<1> QED
  BY <1>8, <1>9
-----------------------------------------------------------------------------
(* Expand: what it reads of these hits is what the properties ask for.     *)
LEMMA ExpandWidens ==
  ASSUME hits \in Seq(Chunks), hits # <<>>, IsInjective(hits), Whole, Expand
  PROVE  WideningKeepsTheText' /\ BudgetIsShared' /\ read' \in Seq(Chunks)
<1>1. PICK own, taken, ss, at : Composed(own, taken, ss, at, read')
  BY ExpandComposes
<1>2. hits' = hits /\ committed' = committed
  BY DEF Expand
<1>3. PICK r : r = read'
  OBVIOUS
<1>4. Composed(own, taken, ss, at, r) /\ r \in Seq(Chunks) /\ DOMAIN r = 1..Len(r)
  BY <1>1, <1>3, LenProperties DEF Composed
<1> DEFINE More == {i \in DOMAIN r : r[i] \notin Range(hits)}
<1>5. Added' = More
  BY <1>2, <1>3 DEF Added
<1>6. \A i \in More : i \in 1..Len(r) /\ r[i] \notin Range(hits)
  BY <1>4
<1> HIDE DEF More
<1>7. \A i \in More : i > 1 /\ Position[r[i - 1]] # NoPosition
                            /\ Position[r[i]] = Following(r[i - 1], 1)
  BY <1>4, <1>6, AddedContinues
<1>8. WideningKeepsTheText'
  <2>1. Keep(r, Range(hits)) = hits /\ IsInjective(r)
    BY <1>4, NothingIsRepeated, HitsKeepTheirOrder
  <2> QED
    BY <1>2, <1>3, <1>5, <1>7, <2>1 DEF WideningKeepsTheText, Following
<1>9. ASSUME NEW i \in More, i + 1 \in More, NEW c \in Range(hits), NEW d \in committed,
             Position[c] # NoPosition, Position[d] = Following(c, 1)
      PROVE  d \in Range(r)
  BY <1>4, <1>6, <1>9, FirstsBeforeSeconds
<1>10. BudgetIsShared'
  <2>1. Len(r) <= Larger(MaxChunks, Len(hits))
    BY <1>4, BudgetHolds
  <2> QED
    BY <1>2, <1>3, <1>5, <1>9, <2>1 DEF BudgetIsShared, Following
<1> QED
  BY <1>3, <1>4, <1>8, <1>10

(* The chunks of no other document are read.                               *)
LEMMA ExpandStays ==
  ASSUME hits \in Seq(Chunks), hits # <<>>, Whole, Expand, NEW c \in Range(read')
  PROVE  \/ c \in Range(hits)
         \/ \E h \in Range(hits) : /\ Position[h] # NoPosition
                                   /\ Position[c] # NoPosition /\ Position[c][1] = Position[h][1]
<1>1. PICK own, taken, ss, at : Composed(own, taken, ss, at, read')
  BY ExpandComposes
<1>2. PICK r : r = read'
  OBVIOUS
<1>3. Composed(own, taken, ss, at, r) /\ DOMAIN r = 1..Len(r)
  BY <1>1, <1>2, LenProperties DEF Composed
<1>4. PICK p \in 1..Len(r) : r[p] = c
  BY <1>2, <1>3 DEF Range
<1>5. ASSUME c \notin Range(hits)
      PROVE  \E h \in Range(hits) : /\ Position[h] # NoPosition
                                    /\ Position[c] # NoPosition
                                    /\ Position[c][1] = Position[h][1]
  <2>1. Position[c] # NoPosition
    BY <1>3, <1>4, <1>5, TurnOf
  <2>2. PICK k \in 1..Len(hits) :
          \E j \in 2..Len(ss[k]) : /\ Position[hits[k]] # NoPosition
                                   /\ Position[r[p]] = Following(hits[k], j - 1)
    <3>1. r[p] \notin Range(hits)
      BY <1>4, <1>5
    <3>2. PICK k \in 1..Len(hits) : \E j \in 2..Len(ss[k]) :
            /\ Position[hits[k]] # NoPosition /\ j - 1 \in 1..Neighbours
            /\ Position[r[p]] = Following(hits[k], j - 1)
            /\ AddedBy(own, r[p], k, j - 1) /\ p = at[k] + j
      BY <1>3, <3>1, TurnOf
    <3> QED
      BY <3>2
  <2>3. hits[k] \in Range(hits)
    <3>1. k \in DOMAIN hits
      BY LenProperties
    <3> QED
      BY <3>1 DEF Range
  <2> QED
    BY <1>4, <2>1, <2>2, <2>3 DEF Following
<1> QED
  BY <1>5
-----------------------------------------------------------------------------
(* A finite set in the order of a relation: every element has its number.  *)
Orders(B, I) ==
  /\ B \in SUBSET (I \X I)
  /\ \A c \in I : <<c, c>> \notin B
  /\ \A c, d \in I : c # d => <<c, d>> \in B \/ <<d, c>> \in B
  /\ \A a, c, d \in I : <<a, c>> \in B /\ <<c, d>> \in B => <<a, d>> \in B
Ahead(B, I, c) == {d \in I : <<d, c>> \in B}

(* The numbers go from 0 to one less than the size, and no two elements    *)
(* share one.                                                              *)
LEMMA Ranks ==
  ASSUME NEW I, IsFiniteSet(I), NEW B, Orders(B, I), NEW n, n = Cardinality(I)
  PROVE  /\ n \in Nat
         /\ \A c \in I : IsFiniteSet(Ahead(B, I, c)) /\ Cardinality(Ahead(B, I, c)) \in 0..n - 1
         /\ \A c, d \in I : Cardinality(Ahead(B, I, c)) = Cardinality(Ahead(B, I, d)) => c = d
         /\ \A i \in 1..n : \E c \in I : Cardinality(Ahead(B, I, c)) = i - 1
<1>1. n \in Nat
  BY FS_CardinalityType
<1>2. \A c \in I : IsFiniteSet(Ahead(B, I, c)) /\ Cardinality(Ahead(B, I, c)) \in Nat
  BY FS_Subset, FS_CardinalityType DEF Ahead
<1>3. ASSUME NEW c \in I, NEW d \in I, <<c, d>> \in B
      PROVE  Cardinality(Ahead(B, I, c)) < Cardinality(Ahead(B, I, d))
  <2>1. Ahead(B, I, c) \in SUBSET Ahead(B, I, d)
    BY <1>3 DEF Ahead, Orders
  <2>2. c \in Ahead(B, I, d) /\ c \notin Ahead(B, I, c)
    BY <1>3 DEF Ahead, Orders
  <2>3. Cardinality(Ahead(B, I, c)) <= Cardinality(Ahead(B, I, d))
        /\ Cardinality(Ahead(B, I, c)) # Cardinality(Ahead(B, I, d))
    BY <1>2, <2>1, <2>2, FS_Subset
  <2> QED
    BY <1>2, <2>3
<1>4. ASSUME NEW c \in I, NEW d \in I,
             Cardinality(Ahead(B, I, c)) = Cardinality(Ahead(B, I, d))
      PROVE  c = d
  <2>1. ~ <<c, d>> \in B
    BY <1>2, <1>3, <1>4
  <2>2. ~ <<d, c>> \in B
    BY <1>2, <1>3, <1>4
  <2> QED
    BY <2>1, <2>2 DEF Orders
<1>5. ASSUME NEW c \in I PROVE Cardinality(Ahead(B, I, c)) \in 0..n - 1
  <2>1. Ahead(B, I, c) \in SUBSET I /\ Ahead(B, I, c) # I
    BY DEF Ahead, Orders
  <2>2. Cardinality(Ahead(B, I, c)) <= n /\ Cardinality(Ahead(B, I, c)) # n
    BY <2>1, FS_Subset
  <2> QED
    BY <1>1, <1>2, <2>2
<1> DEFINE f == [c \in I |-> Cardinality(Ahead(B, I, c)) + 1]
<1>6. \A c \in I : f[c] = Cardinality(Ahead(B, I, c)) + 1
  OBVIOUS
<1>7. f \in [I -> 1..n]
  BY <1>1, <1>5
<1> HIDE DEF f
<1>8. f \in Injection(I, 1..n)
  BY <1>2, <1>4, <1>6, <1>7 DEF Injection, IsInjective
<1>9. IsFiniteSet(1..n) /\ Cardinality(1..n) = n
  BY <1>1, FS_Interval
<1>10. f \in Surjection(I, 1..n)
  BY <1>8, <1>9, FS_Injection
<1>11. ASSUME NEW i \in 1..n PROVE \E c \in I : Cardinality(Ahead(B, I, c)) = i - 1
  <2>1. PICK c \in I : f[c] = i
    BY <1>10 DEF Surjection
  <2> QED
    BY <1>2, <1>6, <2>1
<1> QED
  BY <1>1, <1>2, <1>4, <1>5, <1>11

-----------------------------------------------------------------------------
(* rrf_fuse: its order, and what it makes of two rankings.                 *)
Ids == Range(nearest) \cup Range(matching)
Score(c) == Share(nearest, c) + Share(matching, c)
Before == {p \in Ids \X Ids :
             \/ Score(p[1]) > Score(p[2])
             \/ Score(p[1]) = Score(p[2]) /\ FirstMet(p[1]) < FirstMet(p[2])}

(* A list adds a whole number to a score: Scale is a multiple of its       *)
(* denominators.                                                           *)
LEMMA ShareType ==
  ASSUME NEW C, NEW s \in Seq(C), NEW c
  PROVE  Share(s, c) \in Nat
<1>1. PICK n \in Nat : n = Len(s) /\ DOMAIN s = 1..n
  BY LenProperties
<1>2. CASE c \in Range(s)
  <2>1. PICK i \in 1..n : i = CHOOSE x \in DOMAIN s : s[x] = c
    BY <1>1, <1>2 DEF Range
  <2>2. RrfK + i \in Nat \ {0} /\ Scale \in Nat
    BY ReadingAssumption
  <2>3. Scale \div (RrfK + i) \in Nat
    BY <2>2, Division
  <2> QED
    BY <1>2, <2>1, <2>3 DEF Share
<1>3. CASE c \notin Range(s)
  BY <1>3 DEF Share
<1> QED
  BY <1>2, <1>3

(* The place at which a chunk is first met.                                *)
LEMMA Met ==
  ASSUME nearest \in Seq(Chunks), matching \in Seq(Chunks)
  PROVE  /\ \A c \in Ids : FirstMet(c) \in Nat \ {0} /\ (nearest \o matching)[FirstMet(c)] = c
         /\ nearest # <<>> => FirstMet(nearest[1]) = 1
<1>1. PICK s : s = nearest \o matching
  OBVIOUS
<1>2. PICK a \in Nat : a = Len(nearest) /\ DOMAIN nearest = 1..a
  BY LenProperties
<1>3. PICK b \in Nat : b = Len(matching) /\ DOMAIN matching = 1..b
  BY LenProperties
<1>4. /\ s \in Seq(Chunks) /\ Len(s) = a + b
      /\ \A i \in 1..a + b : s[i] = IF i <= a THEN nearest[i] ELSE matching[i - a]
  BY <1>1, <1>2, <1>3, ConcatProperties
<1>5. DOMAIN s = 1..a + b
  BY <1>4, LenProperties
<1>6. ASSUME NEW c, NEW i \in 1..a + b, s[i] = c
      PROVE  /\ FirstMet(c) \in 1..a + b /\ s[FirstMet(c)] = c
             /\ \A j \in 1..FirstMet(c) - 1 : s[j] # c
  <2> DEFINE T == {j \in 1..a + b : s[j] = c}
  <2>1. PICK m \in T : \A j \in T : m <= j
    <3>1. T # {} /\ T \in SUBSET Nat
      BY <1>6
    <3> HIDE DEF T
    <3> QED
      BY <3>1, Least
  <2>2. m \in 1..a + b /\ s[m] = c /\ \A j \in 1..m - 1 : s[j] # c
    BY <2>1
  <2>3. FirstMet(c) = CHOOSE x \in 1..a + b : s[x] = c /\ \A j \in 1..x - 1 : s[j] # c
    BY <1>1, <1>5 DEF FirstMet
  <2> QED
    BY <2>2, <2>3
<1>7. ASSUME NEW c \in Ids PROVE \E i \in 1..a + b : s[i] = c
  <2>1. CASE c \in Range(nearest)
    <3>1. PICK i \in 1..a : nearest[i] = c
      BY <1>2, <2>1 DEF Range
    <3> QED
      BY <1>4, <3>1
  <2>2. CASE c \in Range(matching)
    <3>1. PICK i \in 1..b : matching[i] = c
      BY <1>3, <2>2 DEF Range
    <3>2. a + i \in 1..a + b /\ ~ a + i <= a /\ (a + i) - a = i
      OBVIOUS
    <3>3. s[a + i] = c
      BY <1>4, <3>1, <3>2
    <3> QED
      BY <3>2, <3>3
  <2> QED
    BY <2>1, <2>2 DEF Ids
<1>8. ASSUME nearest # <<>> PROVE FirstMet(nearest[1]) = 1
  <2>1. 1 \in 1..a + b /\ s[1] = nearest[1]
    BY <1>2, <1>4, <1>8, EmptySeq
  <2> QED
    BY <1>6, <2>1
<1>9. ASSUME NEW c \in Ids PROVE FirstMet(c) \in Nat \ {0} /\ s[FirstMet(c)] = c
  <2>1. PICK i \in 1..a + b : s[i] = c
    BY <1>7
  <2>2. FirstMet(c) \in 1..a + b /\ s[FirstMet(c)] = c
    BY <1>6, <2>1
  <2> QED
    BY <2>2
<1> QED
  BY <1>1, <1>8, <1>9

(* By score, and between equal scores by who was met first: a total        *)
(* order.                                                                  *)
LEMMA BeforeOrders ==
  ASSUME nearest \in Seq(Chunks), matching \in Seq(Chunks)
  PROVE  Orders(Before, Ids)
<1>1. \A c \in Ids : Score(c) \in Nat
  BY ShareType DEF Score
<1>2. \A c \in Ids : FirstMet(c) \in Nat
  BY Met
<1>3. \A c, d \in Ids : FirstMet(c) = FirstMet(d) => c = d
  BY Met
<1>4. \A c, d \in Ids :
        <<c, d>> \in Before <=> \/ Score(c) > Score(d)
                                \/ Score(c) = Score(d) /\ FirstMet(c) < FirstMet(d)
  BY DEF Before
<1>5. \A c \in Ids : <<c, c>> \notin Before
  BY <1>1, <1>2, <1>4
<1>6. ASSUME NEW c \in Ids, NEW d \in Ids, c # d PROVE <<c, d>> \in Before \/ <<d, c>> \in Before
  <2>1. FirstMet(c) # FirstMet(d)
    BY <1>3, <1>6
  <2>2. Score(c) \in Nat /\ Score(d) \in Nat /\ FirstMet(c) \in Nat /\ FirstMet(d) \in Nat
    BY <1>1, <1>2
  <2> QED
    BY <1>4, <2>1, <2>2
<1>7. \A b, c, d \in Ids : <<b, c>> \in Before /\ <<c, d>> \in Before => <<b, d>> \in Before
  BY <1>1, <1>2, <1>4
<1>8. Before \in SUBSET (Ids \X Ids)
  BY DEF Before
<1> QED
  BY <1>5, <1>6, <1>7, <1>8 DEF Orders

(* The fused list holds every chunk of the two once, in that order.        *)
LEMMA Fuses ==
  ASSUME nearest \in Seq(Chunks), matching \in Seq(Chunks)
  PROVE  /\ rrf_fuse \in Seq(Chunks) /\ IsInjective(rrf_fuse)
         /\ Range(rrf_fuse) \subseteq Ids
         /\ \A c \in Ids : /\ Cardinality(Ahead(Before, Ids, c)) + 1 \in 1..Len(rrf_fuse)
                           /\ rrf_fuse[Cardinality(Ahead(Before, Ids, c)) + 1] = c
<1>1. Ids \in SUBSET Chunks
  <2>1. ASSUME NEW s \in Seq(Chunks) PROVE Range(s) \subseteq Chunks
    BY ElementOfSeq, LenProperties DEF Range
  <2> QED
    BY <2>1 DEF Ids
<1>2. IsFiniteSet(Ids)
  BY <1>1, FS_Subset, ReadingAssumption
<1>3. PICK n : n = Cardinality(Ids)
  OBVIOUS
<1>4. PICK rank : rank = [c \in Ids |-> Cardinality(Ahead(Before, Ids, c))]
  OBVIOUS
<1>5. /\ n \in Nat
      /\ \A c \in Ids : rank[c] \in 0..n - 1
      /\ \A c, d \in Ids : rank[c] = rank[d] => c = d
      /\ \A i \in 1..n : \E c \in Ids : rank[c] = i - 1
  BY <1>2, <1>3, <1>4, BeforeOrders, Ranks
<1> DEFINE score == [c \in Ids |-> Share(nearest, c) + Share(matching, c)]
           met == [c \in Ids |-> FirstMet(c)]
           Better(c) == {d \in Ids :
                           score[d] > score[c] \/ (score[d] = score[c] /\ met[d] < met[c])}
           f == [i \in 1..n |-> CHOOSE c \in Ids : Cardinality(Better(c)) = i - 1]
<1>6. \A i \in 1..n : f[i] \in Ids /\ rank[f[i]] = i - 1
  <2>1. ASSUME NEW c \in Ids PROVE Cardinality(Better(c)) = rank[c]
    <3>1. score[c] = Score(c) /\ met[c] = FirstMet(c)
      BY DEF Score
    <3>2. \A d \in Ids : score[d] = Score(d) /\ met[d] = FirstMet(d)
      BY DEF Score
    <3>3. \A d \in Ids : d \in Better(c) <=> <<d, c>> \in Before
      BY <3>1, <3>2 DEF Before
    <3>4. Better(c) = Ahead(Before, Ids, c)
      BY <3>3 DEF Ahead
    <3> HIDE DEF Better
    <3> QED
      BY <1>4, <3>4
  <2> HIDE DEF Better
  <2>2. ASSUME NEW i \in 1..n PROVE f[i] \in Ids /\ Cardinality(Better(f[i])) = i - 1
    <3>1. \E c \in Ids : Cardinality(Better(c)) = i - 1
      BY <1>5, <2>1
    <3> QED
      BY <3>1
  <2> QED
    BY <2>1, <2>2
<1>7. rrf_fuse = f
  BY <1>3, Zenon DEF rrf_fuse, Ids
<1> HIDE DEF Better
<1>8. f \in Seq(Chunks) /\ Len(f) = n
  <2>1. DOMAIN f = 1..n /\ f \in [1..n -> Chunks]
    BY <1>1, <1>6, Zenon
  <2> HIDE DEF f
  <2> QED
    BY <1>5, <2>1
<1> HIDE DEF f
<1>9. IsInjective(f) /\ Range(f) \subseteq Ids
  <2>1. DOMAIN f = 1..n
    BY <1>8, LenProperties
  <2> QED
    BY <1>6, <2>1 DEF IsInjective, Range
<1>10. ASSUME NEW c \in Ids PROVE rank[c] + 1 \in 1..n /\ f[rank[c] + 1] = c
  <2>1. rank[c] + 1 \in 1..n /\ (rank[c] + 1) - 1 = rank[c]
    BY <1>5
  <2> QED
    BY <1>5, <1>6, <2>1
<1> QED
  BY <1>4, <1>7, <1>8, <1>9, <1>10

(* What a list adds to the score of its i-th chunk.                        *)
LEMMA ShareIs ==
  ASSUME NEW s \in Seq(Chunks), IsInjective(s), NEW i \in 1..Len(s)
  PROVE  s[i] \in Range(s) /\ Share(s, s[i]) = Scale \div (RrfK + i)
<1>1. PICK n \in Nat : n = Len(s) /\ DOMAIN s = 1..n
  BY LenProperties
<1>2. s[i] \in Range(s)
  BY <1>1 DEF Range
<1>3. i = CHOOSE x \in DOMAIN s : s[x] = s[i]
  BY <1>1 DEF IsInjective
<1> QED
  BY <1>2, <1>3 DEF Share

(* Only a chunk of both lists can overtake the closest one.                *)
LEMMA ClosestStaysAhead ==
  ASSUME nearest \in Seq(Chunks), matching \in Seq(Chunks),
         IsInjective(nearest), IsInjective(matching), nearest # <<>>
  PROVE  /\ nearest[1] \in Ids
         /\ Cardinality(Ahead(Before, Ids, nearest[1])) + 1 <= Len(nearest)
<1>1. PICK n \in Nat \ {0} : n = Len(nearest) /\ DOMAIN nearest = 1..n
  BY LenProperties, EmptySeq
<1>2. PICK b : b = nearest[1]
  OBVIOUS
<1>3. b \in Range(nearest) /\ b \in Ids
  BY <1>1, <1>2 DEF Range, Ids
<1>4. FirstMet(b) = 1
  BY <1>2, Met
<1>5. PICK top : top = Scale \div (RrfK + 1)
  OBVIOUS
<1>6. \A i \in Nat \ {0} : Scale \div (RrfK + i) <= top
  <2>1. PICK K \in Nat, M \in Nat : K = RrfK /\ M = Scale
    BY ReadingAssumption
  <2>2. \A i \in Nat \ {0} : M \div (K + i) <= M \div (K + 1)
    OBVIOUS
  <2> QED
    BY <1>5, <2>1, <2>2
<1>7. Share(nearest, b) = top
  BY <1>1, <1>2, <1>5, ShareIs
<1>8. ASSUME NEW s \in {nearest, matching}, NEW c PROVE Share(s, c) <= top /\ Share(s, c) \in Nat
  <2>1. s \in Seq(Chunks) /\ IsInjective(s)
    OBVIOUS
  <2>2. PICK m \in Nat : m = Len(s) /\ DOMAIN s = 1..m
    BY <2>1, LenProperties
  <2>3. top \in Nat
    BY <1>7, ShareType
  <2>4. CASE c \in Range(s)
    <3>1. PICK i \in 1..m : s[i] = c
      BY <2>2, <2>4 DEF Range
    <3>2. Share(s, c) = Scale \div (RrfK + i)
      BY <2>1, <2>2, <3>1, ShareIs
    <3>3. Scale \div (RrfK + i) <= top
      BY <1>6
    <3> QED
      BY <2>1, <3>2, <3>3, ShareType
  <2>5. CASE c \notin Range(s)
    BY <2>3, <2>5 DEF Share
  <2> QED
    BY <2>4, <2>5
<1>9. Score(b) >= top /\ Score(b) \in Nat /\ top \in Nat
  BY <1>7, <1>8 DEF Score
<1>10. ASSUME NEW c \in Ahead(Before, Ids, b) PROVE c \in Range(nearest) \ {b}
  <2>1. c \in Ids /\ <<c, b>> \in Before
    BY DEF Ahead
  <2>2. FirstMet(c) \in Nat \ {0}
    BY <2>1, Met
  <2>3. Score(c) > Score(b)
    BY <1>4, <2>1, <2>2 DEF Before
  <2>4. /\ Share(nearest, c) \in Nat /\ Share(matching, c) \in Nat
        /\ Share(matching, c) <= top /\ Score(c) = Share(nearest, c) + Share(matching, c)
    BY <1>8 DEF Score
  <2>5. Share(nearest, c) # 0
    BY <1>9, <2>3, <2>4
  <2>6. c \in Range(nearest)
    BY <2>5 DEF Share
  <2>7. c # b
    BY <1>9, <2>3
  <2> QED
    BY <2>6, <2>7
<1>11. IsFiniteSet(Range(nearest)) /\ Cardinality(Range(nearest)) <= n
       /\ Cardinality(Range(nearest)) \in Nat
  <2>1. IsFiniteSet(1..n) /\ Cardinality(1..n) = n
    BY FS_Interval
  <2>2. nearest \in Surjection(1..n, Range(nearest))
    <3>1. nearest \in [1..n -> Range(nearest)]
      <4>1. nearest = [i \in 1..n |-> nearest[i]]
        BY <1>1
      <4> QED
        BY <1>1, <4>1 DEF Range
    <3> QED
      BY <1>1, <3>1 DEF Surjection, Range
  <2> QED
    BY <2>1, <2>2, FS_Surjection, FS_CardinalityType
<1>12. /\ IsFiniteSet(Range(nearest) \ {b})
       /\ Cardinality(Range(nearest) \ {b}) = Cardinality(Range(nearest)) - 1
  BY <1>3, <1>11, FS_RemoveElement
<1>13. Ahead(Before, Ids, b) \in SUBSET (Range(nearest) \ {b})
  BY <1>10
<1>14. /\ IsFiniteSet(Ahead(Before, Ids, b))
       /\ Cardinality(Ahead(Before, Ids, b)) <= Cardinality(Range(nearest) \ {b})
  BY <1>12, <1>13, FS_Subset
<1>15. Cardinality(Ahead(Before, Ids, b)) \in Nat
  BY <1>14, FS_CardinalityType
<1> QED
  BY <1>1, <1>2, <1>3, <1>11, <1>12, <1>14, <1>15

(* What is left of a list that is cut short.                               *)
LEMMA Cut ==
  ASSUME NEW C, NEW s \in Seq(C), NEW k \in 0..Len(s)
  PROVE  /\ SubSeq(s, 1, k) \in Seq(C) /\ Len(SubSeq(s, 1, k)) = k
         /\ \A i \in 1..k : SubSeq(s, 1, k)[i] = s[i]
         /\ IsInjective(s) => IsInjective(SubSeq(s, 1, k))
         /\ Range(SubSeq(s, 1, k)) \subseteq Range(s)
<1>1. PICK n \in Nat : n = Len(s) /\ DOMAIN s = 1..n
  BY LenProperties
<1>2. k \in Nat /\ k \in Int /\ 1 \in Int /\ k <= n /\ \A i \in 1..k : i \in 1..n /\ s[i] \in C
  BY <1>1, ElementOfSeq
<1>3. PICK t : t = SubSeq(s, 1, k)
  OBVIOUS
<1>4. /\ t \in Seq(C) /\ Len(t) = IF 1 <= k THEN k - 1 + 1 ELSE 0
      /\ \A i \in 1..k - 1 + 1 : t[i] = s[1 + i - 1]
  BY <1>2, <1>3, SubSeqProperties
<1>5. Len(t) = k /\ \A i \in 1..k : t[i] = s[i]
  BY <1>2, <1>4
<1>6. DOMAIN t = 1..k
  BY <1>4, <1>5, LenProperties
<1> QED
  BY <1>1, <1>2, <1>3, <1>4, <1>5, <1>6 DEF IsInjective, Range
-----------------------------------------------------------------------------
(* The inductive invariant.                                                *)

(* Of the two copies of a document, at most one is in a set of chunks.     *)
OneCopy(S) == S \cap ChunksOf(Replaced) = {} \/ S \cap ChunksOf(Replacement) = {}

(* A list of different chunks.                                             *)
Ranked(s) == s \in Seq(Chunks) /\ IsInjective(s)

(* The closest stored chunk is on the way while nothing is replaced.       *)
Closest(c) == \A d \in committed : distance[c] <= distance[d]
ClosestIsKept ==
  calm /\ ~reranking =>
    /\ pc \in {"keywords", "fuse"} =>
         /\ Range(nearest) \subseteq committed /\ Len(nearest) <= TopK
         /\ committed # {} => nearest # <<>> /\ Closest(nearest[1])
    /\ pc = "fuse" => Range(matching) \subseteq committed
    /\ pc \in {"rerank", "gate"} =>
         /\ Range(hits) \subseteq committed /\ Len(hits) <= TopK
         /\ committed # {} => \E c \in Range(hits) : Closest(c)

ListsInv ==
  /\ \A s \in {nearest, matching, hits} : IsInjective(s)
  /\ pc = "expand" => hits # <<>>
  /\ pc # "done" => read = <<>>

CopiesInv == Whole /\ OneCopy(committed) /\ OneCopy(Range(hits)) /\ OneCopyIsRead

IInv ==
  /\ TypeOK /\ ListsInv /\ CopiesInv /\ ClosestIsKept
  /\ HybridKeepsTheGate /\ WideningKeepsTheText /\ BudgetIsShared
-----------------------------------------------------------------------------
(* Somebody is always asked for; without a cross-encoder it is TOP_K.      *)
LEMMA CandidatesAre ==
  /\ CandidateK \in Nat \ {0} /\ TopK \in Nat \ {0}
  /\ \A a, b \in Nat : Smaller(a, b) \in Nat /\ Smaller(a, b) <= a /\ Smaller(a, b) <= b
  /\ ~ reranking => CandidateK = TopK
BY ReadingAssumption DEF CandidateK, Larger, Smaller

(* The two copies of the replaced document share no chunk.                 *)
LEMMA ChunksOfOneDocument ==
  /\ ChunksOf(Replaced) \cap ChunksOf(Replacement) = {}
  /\ ChunksOf(Replaced) \subseteq Chunks /\ ChunksOf(Replacement) \subseteq Chunks
BY ReadingAssumption DEF ChunksOf

(* Nothing is in the empty list.                                           *)
LEMMA EmptyLists ==
  /\ <<>> \in Seq(Chunks) /\ IsInjective(<<>>) /\ Range(<<>>) = {} /\ Len(<<>>) = 0
  /\ DOMAIN <<>> = {}
<1>1. <<>> \in Seq(Chunks) /\ Len(<<>>) = 0 /\ DOMAIN <<>> = {}
  OBVIOUS
<1> QED
  BY <1>1 DEF IsInjective, Range

(* Nothing is read of no hits.                                             *)
LEMMA NothingToWiden ==
  hits = <<>> /\ read = <<>> => WideningKeepsTheText /\ BudgetIsShared
<1> SUFFICES ASSUME hits = <<>>, read = <<>> PROVE WideningKeepsTheText /\ BudgetIsShared
  OBVIOUS
<1>1. \A S : Keep(<<>>, S) = <<>>
  <2> SUFFICES ASSUME NEW S PROVE Keep(<<>>, S) = <<>>
    OBVIOUS
  <2>1. PICK k \in Seq(Chunks) : k = Keep(<<>>, S) /\ Len(k) <= 0
    BY EmptyLists, KeepPicks
  <2> QED
    BY <2>1, EmptySeq, LenProperties
<1>2. Added = {}
  BY EmptyLists DEF Added
<1>3. 0 <= Larger(MaxChunks, 0)
  BY ReadingAssumption DEF Larger
<1> QED
  BY <1>1, <1>2, <1>3, EmptyLists DEF WideningKeepsTheText, BudgetIsShared

(* Before the first search.                                                *)
LEMMA InitInv == Init => IInv
<1> SUFFICES ASSUME Init PROVE IInv
  OBVIOUS
<1> USE DEF Init
<1>1. TypeOK
  <2>1. committed \in SUBSET Chunks
    BY DEF ChunksOf
  <2> QED
    BY <2>1, EmptyLists DEF TypeOK
<1>2. ListsInv
  BY EmptyLists DEF ListsInv
<1>3. CopiesInv
  <2>1. Whole
    BY DEF Whole, ChunksOf
  <2>2. OneCopy(committed) /\ OneCopy(Range(hits)) /\ OneCopyIsRead
    BY EmptyLists DEF OneCopy, OneCopyIsRead
  <2> QED
    BY <2>1, <2>2 DEF CopiesInv
<1>4. ClosestIsKept
  BY DEF ClosestIsKept
<1>5. HybridKeepsTheGate /\ WideningKeepsTheText /\ BudgetIsShared
  BY DEF HybridKeepsTheGate, WideningKeepsTheText, BudgetIsShared
<1> QED
  BY <1>1, <1>2, <1>3, <1>4, <1>5 DEF IInv

(* Distances can be compared.                                              *)
LEMMA DistancesAre ==
  ASSUME TypeOK PROVE \A c \in Chunks : distance[c] \in Nat
BY ReadingAssumption DEF TypeOK

(* A ranking of some chunks lists each at most once.                       *)
LEMMA RankingsAre ==
  ASSUME NEW S \in SUBSET Chunks, NEW n \in Nat, NEW s \in Rankings(S, n)
  PROVE  Ranked(s) /\ Len(s) = n /\ DOMAIN s = 1..n /\ Range(s) \subseteq S
<1>1. s \in [1..n -> S] /\ IsInjective(s)
  BY DEF Rankings
<1>2. s \in Seq(Chunks) /\ Len(s) = n /\ DOMAIN s = 1..n
  BY <1>1
<1> QED
  BY <1>1, <1>2 DEF Ranked, Range

(* Vector search puts the closest stored chunk first.                      *)
LEMMA VectorSearchKeeps == IInv /\ VectorSearch => IInv'
<1> SUFFICES ASSUME IInv, VectorSearch PROVE IInv'
  OBVIOUS
<1> USE DEF IInv
<1>1. /\ pc = "search" /\ pc' = "keywords"
      /\ UNCHANGED <<committed, distance, reranking, matching, hits, read, calm>>
  BY DEF VectorSearch
<1>2. committed \in SUBSET Chunks /\ IsFiniteSet(committed) /\ Cardinality(committed) \in Nat
  BY FS_Subset, FS_CardinalityType, ReadingAssumption DEF TypeOK
<1>3. PICK n \in Nat : /\ n = Smaller(CandidateK, Cardinality(committed))
                       /\ n <= CandidateK /\ n <= Cardinality(committed)
                       /\ Cardinality(committed) # 0 => n # 0
  BY <1>2, CandidatesAre DEF Smaller
<1>4. PICK s \in Rankings(committed, n) :
        /\ \A i, j \in DOMAIN s : i < j => distance[s[i]] <= distance[s[j]]
        /\ \A c \in committed \ Range(s), i \in DOMAIN s : distance[s[i]] <= distance[c]
        /\ nearest' = s
  BY <1>3 DEF VectorSearch
<1>5. Ranked(s) /\ Len(s) = n /\ DOMAIN s = 1..n /\ Range(s) \subseteq committed
  BY <1>2, RankingsAre
<1>6. TypeOK'
  BY <1>1, <1>4, <1>5 DEF TypeOK, Ranked
<1>7. ListsInv'
  BY <1>1, <1>4, <1>5 DEF ListsInv, Ranked
<1>8. CopiesInv'
  BY <1>1 DEF CopiesInv, Whole, OneCopy, OneCopyIsRead
<1>9. ASSUME committed # {} PROVE s # <<>> /\ Closest(s[1])
  <2>1. Cardinality(committed) # 0
    BY <1>2, <1>9, FS_EmptySet
  <2>2. 1 \in 1..n /\ s # <<>>
    BY <1>3, <1>5, <2>1, EmptyLists
  <2>3. ASSUME NEW c \in committed PROVE distance[s[1]] <= distance[c]
    <3>1. CASE c \notin Range(s)
      BY <1>4, <1>5, <2>2, <3>1
    <3>2. CASE c \in Range(s)
      <4>1. PICK i \in 1..n : s[i] = c
        BY <1>5, <3>2 DEF Range
      <4>2. CASE i = 1
        BY <1>2, <4>1, <4>2, DistancesAre
      <4>3. CASE i # 1
        BY <1>4, <1>5, <2>2, <4>1, <4>3
      <4> QED
        BY <4>2, <4>3
    <3> QED
      BY <3>1, <3>2
  <2> QED
    BY <2>2, <2>3 DEF Closest
<1>10. ClosestIsKept'
  BY <1>1, <1>3, <1>4, <1>5, <1>9, CandidatesAre DEF ClosestIsKept, Closest
<1>11. HybridKeepsTheGate' /\ WideningKeepsTheText' /\ BudgetIsShared'
  BY <1>1 DEF HybridKeepsTheGate, WideningKeepsTheText, BudgetIsShared
<1> QED
  BY <1>6, <1>7, <1>8, <1>10, <1>11

(* Keyword search leaves the vector list alone.                            *)
LEMMA KeywordSearchKeeps == IInv /\ KeywordSearch => IInv'
<1> SUFFICES ASSUME IInv, KeywordSearch PROVE IInv'
  OBVIOUS
<1> USE DEF IInv
<1>1. /\ pc = "keywords" /\ pc' = "fuse"
      /\ UNCHANGED <<committed, distance, reranking, nearest, hits, read, calm>>
  BY DEF KeywordSearch
<1>2. committed \in SUBSET Chunks /\ IsFiniteSet(committed) /\ Cardinality(committed) \in Nat
  BY FS_Subset, FS_CardinalityType, ReadingAssumption DEF TypeOK
<1>3. PICK n \in Nat : matching' \in Rankings(committed, n)
  <2>1. Smaller(CandidateK, Cardinality(committed)) \in Nat
    BY <1>2, CandidatesAre
  <2> QED
    BY <2>1 DEF KeywordSearch
<1>4. Ranked(matching') /\ Range(matching') \subseteq committed
  BY <1>2, <1>3, RankingsAre
<1>5. TypeOK'
  BY <1>1, <1>4 DEF TypeOK, Ranked
<1>6. ListsInv'
  BY <1>1, <1>4 DEF ListsInv, Ranked
<1>7. CopiesInv'
  BY <1>1 DEF CopiesInv, Whole, OneCopy, OneCopyIsRead
<1>8. ClosestIsKept'
  BY <1>1, <1>4 DEF ClosestIsKept, Closest
<1>9. HybridKeepsTheGate' /\ WideningKeepsTheText' /\ BudgetIsShared'
  BY <1>1 DEF HybridKeepsTheGate, WideningKeepsTheText, BudgetIsShared
<1> QED
  BY <1>5, <1>6, <1>7, <1>8, <1>9

(* What the first candidates of a ranking hold that are still stored.      *)
LEMMA FuseKeeps == IInv /\ Fuse => IInv'
<1> SUFFICES ASSUME IInv, Fuse PROVE IInv'
  OBVIOUS
<1> USE DEF IInv
<1>1. /\ pc = "fuse" /\ pc' = "rerank" /\ nearest' = <<>> /\ matching' = <<>>
      /\ UNCHANGED <<committed, distance, reranking, read, calm>>
  BY DEF Fuse
<1>2. /\ nearest \in Seq(Chunks) /\ matching \in Seq(Chunks)
      /\ IsInjective(nearest) /\ IsInjective(matching) /\ committed \in SUBSET Chunks
  BY DEF TypeOK, ListsInv
<1>3. PICK fused : fused = rrf_fuse
  OBVIOUS
<1>4. /\ Ranked(fused) /\ Range(fused) \subseteq Ids
      /\ \A c \in Ids : /\ Cardinality(Ahead(Before, Ids, c)) + 1 \in 1..Len(fused)
                        /\ fused[Cardinality(Ahead(Before, Ids, c)) + 1] = c
  BY <1>2, <1>3, Fuses DEF Ranked
<1>5. PICK n \in Nat : n = Len(fused) /\ DOMAIN fused = 1..n
  BY <1>4, LenProperties DEF Ranked
<1>6. PICK k \in 0..n : k = Smaller(CandidateK, n)
  BY CandidatesAre
<1>7. PICK first : first = SubSeq(fused, 1, k)
  OBVIOUS
<1>8. /\ Ranked(first) /\ Len(first) = k /\ \A i \in 1..k : first[i] = fused[i]
      /\ Range(first) \subseteq Ids /\ DOMAIN first = 1..k
  <2>1. /\ first \in Seq(Chunks) /\ Len(first) = k /\ \A i \in 1..k : first[i] = fused[i]
        /\ IsInjective(first) /\ Range(first) \subseteq Range(fused)
    BY <1>4, <1>5, <1>7, Cut DEF Ranked
  <2> QED
    BY <1>4, <2>1, LenProperties DEF Ranked
<1>9. hits' = Keep(first, committed)
  BY <1>3, <1>5, <1>6, <1>7 DEF Fuse
<1>10. /\ hits' \in Seq(Chunks) /\ IsInjective(hits') /\ Len(hits') <= k
       /\ Range(hits') = Range(first) \cap committed
  <2>1. PICK kept : kept = Keep(first, committed)
    OBVIOUS
  <2>2. kept \in Seq(Chunks) /\ Len(kept) <= Len(first)
    BY <1>8, <2>1, KeepPicks DEF Ranked
  <2>3. Range(kept) = Range(first) \cap committed /\ IsInjective(kept)
    BY <1>8, <2>1, KeepFacts DEF Ranked
  <2> QED
    BY <1>8, <1>9, <2>1, <2>2, <2>3
<1>11. TypeOK'
  BY <1>1, <1>10, EmptyLists DEF TypeOK
<1>12. ListsInv'
  BY <1>1, <1>10, EmptyLists DEF ListsInv
<1>13. CopiesInv'
  BY <1>1, <1>10 DEF CopiesInv, Whole, OneCopy, OneCopyIsRead
<1>14. ClosestIsKept'
  <2> SUFFICES ASSUME calm, ~reranking
               PROVE  /\ Range(hits') \subseteq committed /\ Len(hits') <= TopK
                      /\ committed # {} => \E c \in Range(hits') : Closest(c)
    BY <1>1 DEF ClosestIsKept, Closest
  <2>1. /\ Len(nearest) <= TopK /\ Range(nearest) \subseteq committed
        /\ committed # {} => nearest # <<>> /\ Closest(nearest[1])
    BY <1>1 DEF ClosestIsKept
  <2>2. ASSUME committed # {} PROVE \E c \in Range(hits') : Closest(c)
    <3>1. nearest # <<>> /\ Closest(nearest[1])
      BY <2>1, <2>2
    <3>2. PICK i : i = Cardinality(Ahead(Before, Ids, nearest[1])) + 1
      OBVIOUS
    <3>3. nearest[1] \in Ids /\ i <= Len(nearest)
      BY <1>2, <3>1, <3>2, ClosestStaysAhead
    <3>4. i \in 1..n /\ fused[i] = nearest[1]
      BY <1>4, <1>5, <3>2, <3>3
    <3>5. i <= TopK
      <4>1. Len(nearest) \in Nat
        BY <1>2, LenProperties
      <4> QED
        BY <2>1, <3>3, <3>4, <4>1, CandidatesAre
    <3>6. i \in 1..k
      <4>1. CandidateK = TopK
        BY CandidatesAre
      <4>2. k = CandidateK \/ k = n
        BY <1>6 DEF Smaller
      <4> QED
        BY <3>4, <3>5, <4>1, <4>2
    <3>7. nearest[1] \in Range(first)
      BY <1>8, <3>4, <3>6 DEF Range
    <3>8. nearest[1] \in committed
      <4>1. 1 \in DOMAIN nearest
        BY <1>2, <3>1, EmptySeq, LenProperties
      <4> QED
        BY <2>1, <4>1 DEF Range
    <3> QED
      BY <1>10, <3>1, <3>7, <3>8
  <2>3. Len(hits') <= TopK
    <3>1. k <= TopK
      BY <1>6, CandidatesAre
    <3> QED
      BY <1>10, <3>1, CandidatesAre, LenProperties
  <2> QED
    BY <1>10, <2>2, <2>3
<1>15. HybridKeepsTheGate' /\ WideningKeepsTheText' /\ BudgetIsShared'
  BY <1>1 DEF HybridKeepsTheGate, WideningKeepsTheText, BudgetIsShared
<1> QED
  BY <1>11, <1>12, <1>13, <1>14, <1>15

(* Without a cross-encoder nothing is dropped: there were TOP_K            *)
(* candidates at most.                                                     *)
LEMMA RerankKeeps == IInv /\ Rerank => IInv'
<1> SUFFICES ASSUME IInv, Rerank PROVE IInv'
  OBVIOUS
<1> USE DEF IInv
<1>1. /\ pc = "rerank" /\ pc' = "gate"
      /\ UNCHANGED <<committed, distance, reranking, nearest, matching, read, calm>>
  BY DEF Rerank
<1>2. hits \in Seq(Chunks) /\ IsInjective(hits) /\ Range(hits) \in SUBSET Chunks
  BY ElementOfSeq, LenProperties DEF TypeOK, ListsInv, Range
<1>3. PICK s \in IF reranking THEN Rankings(Range(hits), Len(hits)) ELSE {hits} :
        hits' = SubSeq(s, 1, Smaller(TopK, Len(s)))
  BY DEF Rerank
<1>4. Ranked(s) /\ Range(s) \subseteq Range(hits) /\ (~reranking => s = hits)
  <2>1. CASE reranking
    <3>1. Len(hits) \in Nat /\ s \in Rankings(Range(hits), Len(hits))
      BY <1>2, <1>3, <2>1, LenProperties
    <3> QED
      BY <1>2, <2>1, <3>1, RankingsAre
  <2>2. CASE ~reranking
    BY <1>2, <1>3, <2>2 DEF Ranked
  <2> QED
    BY <2>1, <2>2
<1>5. PICK n \in Nat : n = Len(s) /\ DOMAIN s = 1..n
  BY <1>4, LenProperties DEF Ranked
<1>6. PICK k \in 0..n : k = Smaller(TopK, n) /\ k <= TopK
  BY CandidatesAre
<1>7. /\ hits' \in Seq(Chunks) /\ Len(hits') = k /\ \A i \in 1..k : hits'[i] = s[i]
      /\ IsInjective(hits') /\ Range(hits') \subseteq Range(s)
  BY <1>3, <1>4, <1>5, <1>6, Cut DEF Ranked
<1>8. TypeOK'
  BY <1>1, <1>6, <1>7 DEF TypeOK
<1>9. ListsInv'
  BY <1>1, <1>7 DEF ListsInv
<1>10. CopiesInv'
  BY <1>1, <1>4, <1>7 DEF CopiesInv, Whole, OneCopy, OneCopyIsRead
<1>11. ClosestIsKept'
  <2>1. ASSUME calm, ~reranking PROVE Range(hits') = Range(hits)
    <3>1. Len(hits) <= TopK /\ s = hits
      BY <1>1, <1>4, <2>1 DEF ClosestIsKept
    <3>2. k = n
      BY <1>5, <1>6, <3>1, CandidatesAre DEF Smaller
    <3>3. DOMAIN hits' = 1..n
      BY <1>7, <3>2, LenProperties
    <3> QED
      BY <1>5, <1>7, <3>1, <3>2, <3>3 DEF Range
  <2>2. Len(hits') <= TopK
    BY <1>6, <1>7
  <2> QED
    BY <1>1, <2>1, <2>2 DEF ClosestIsKept, Closest
<1>12. HybridKeepsTheGate' /\ WideningKeepsTheText' /\ BudgetIsShared'
  BY <1>1 DEF HybridKeepsTheGate, WideningKeepsTheText, BudgetIsShared
<1> QED
  BY <1>8, <1>9, <1>10, <1>11, <1>12

(* The gate lets the question through if and only if the closest chunk     *)
(* passes it.                                                              *)
LEMMA GateKeeps == IInv /\ Gate => IInv'
<1> SUFFICES ASSUME IInv, Gate PROVE IInv'
  OBVIOUS
<1> USE DEF IInv
<1>1. /\ pc = "gate" /\ hits' = select_context(hits)
      /\ pc' = IF hits' = <<>> THEN "done" ELSE "expand"
      /\ UNCHANGED <<committed, distance, reranking, nearest, matching, read, calm>>
  BY DEF Gate
<1>2. hits \in Seq(Chunks) /\ IsInjective(hits) /\ Len(hits) <= TopK /\ read = <<>>
  BY <1>1 DEF TypeOK, ListsInv
<1> DEFINE near == {c \in Chunks : distance[c] <= context_ceiling}
<1>3. /\ hits' \in Seq(Chunks) /\ IsInjective(hits') /\ Len(hits') <= TopK
      /\ Range(hits') \subseteq Range(hits)
      /\ (\E c \in Range(hits) : distance[c] <= MaxDistance) => Range(hits') = Range(hits) \cap near
      /\ ~ (\E c \in Range(hits) : distance[c] <= MaxDistance) => hits' = <<>>
  <2>1. CASE \E c \in Range(hits) : distance[c] <= MaxDistance
    <3>1. hits' = Keep(hits, near)
      BY <1>1, <2>1 DEF select_context
    <3> HIDE DEF near
    <3>2. PICK kept : kept = Keep(hits, near)
      OBVIOUS
    <3>3. kept \in Seq(Chunks) /\ Len(kept) <= Len(hits)
      BY <1>2, <3>2, KeepPicks
    <3>4. Range(kept) = Range(hits) \cap near /\ IsInjective(kept)
      BY <1>2, <3>2, KeepFacts
    <3>5. Len(kept) <= TopK
      BY <1>2, <3>3, CandidatesAre, LenProperties
    <3> QED
      BY <2>1, <3>1, <3>2, <3>3, <3>4, <3>5
  <2>2. CASE ~ \E c \in Range(hits) : distance[c] <= MaxDistance
    <3>1. hits' = <<>>
      BY <1>1, <2>2 DEF select_context
    <3> QED
      BY <2>2, <3>1, EmptyLists, CandidatesAre
  <2> QED
    BY <2>1, <2>2
<1>4. TypeOK'
  BY <1>1, <1>3 DEF TypeOK
<1>5. ListsInv'
  BY <1>1, <1>3 DEF ListsInv
<1>6. CopiesInv'
  BY <1>1, <1>3 DEF CopiesInv, Whole, OneCopy, OneCopyIsRead
<1>7. ClosestIsKept'
  BY <1>1 DEF ClosestIsKept
<1>8. HybridKeepsTheGate'
  <2> SUFFICES ASSUME calm, ~reranking
               PROVE  hits' # <<>> <=> \E c \in committed : distance[c] <= MaxDistance
    BY <1>1 DEF HybridKeepsTheGate
  <2>1. /\ Range(hits) \subseteq committed /\ committed \subseteq Chunks
        /\ committed # {} => \E c \in Range(hits) : Closest(c)
    BY <1>1 DEF ClosestIsKept, TypeOK
  <2>2. ASSUME hits' # <<>> PROVE \E c \in committed : distance[c] <= MaxDistance
    BY <1>3, <2>1, <2>2
  <2>3. ASSUME NEW d \in committed, distance[d] <= MaxDistance PROVE hits' # <<>>
    <3>1. PICK c \in Range(hits) : Closest(c)
      BY <2>1, <2>3
    <3>2. distance[c] <= distance[d] /\ c \in Chunks
      BY <2>1, <3>1 DEF Closest
    <3>3. /\ distance[c] \in Nat /\ distance[d] \in Nat
          /\ MaxDistance \in Nat /\ ContextMaxDistance \in Nat
      BY <2>1, <3>2, DistancesAre, ReadingAssumption
    <3>4. distance[c] <= MaxDistance
      BY <2>3, <3>2, <3>3
    <3>5. c \in near
      BY <3>2, <3>3, <3>4 DEF context_ceiling, Larger
    <3>6. c \in Range(hits')
      BY <1>3, <3>4, <3>5
    <3> QED
      BY <3>6, EmptyLists
  <2> QED
    BY <2>2, <2>3
<1>9. WideningKeepsTheText' /\ BudgetIsShared'
  <2>1. CASE hits' = <<>>
    <3>1. (hits = <<>> /\ read = <<>>)'
      BY <1>1, <1>2, <2>1
    <3>2. (WideningKeepsTheText /\ BudgetIsShared)'
      BY <3>1, NothingToWiden, PTL
    <3> QED
      BY <3>2
  <2>2. CASE hits' # <<>>
    BY <1>1, <2>2 DEF WideningKeepsTheText, BudgetIsShared
  <2> QED
    BY <2>1, <2>2
<1> QED
  BY <1>4, <1>5, <1>6, <1>7, <1>8, <1>9

(* Widening stays within the documents of the hits.                        *)
LEMMA ExpandKeeps == IInv /\ Expand => IInv'
<1> SUFFICES ASSUME IInv, Expand PROVE IInv'
  OBVIOUS
<1> USE DEF IInv
<1>1. /\ pc = "expand" /\ pc' = "done"
      /\ UNCHANGED <<committed, distance, reranking, nearest, matching, hits, calm>>
  BY DEF Expand
<1>2. hits \in Seq(Chunks) /\ hits # <<>> /\ IsInjective(hits) /\ Whole
  BY <1>1 DEF TypeOK, ListsInv, CopiesInv
<1>3. WideningKeepsTheText' /\ BudgetIsShared' /\ read' \in Seq(Chunks)
  BY <1>2, ExpandWidens
<1>4. TypeOK'
  BY <1>1, <1>3 DEF TypeOK
<1>5. ListsInv'
  BY <1>1 DEF ListsInv
<1>6. CopiesInv'
  <2>1. ASSUME NEW c \in Range(read') \cap ChunksOf(Replaced)
        PROVE  Range(hits) \cap ChunksOf(Replaced) # {}
    <3>1. c \in ChunksOf(Replaced) /\ Position[c] # NoPosition /\ Position[c][1] = Replaced
      BY DEF ChunksOf
    <3>2. CASE c \in Range(hits)
      BY <3>1, <3>2
    <3>3. CASE c \notin Range(hits)
      <4>1. PICK h \in Range(hits) : Position[h] # NoPosition /\ Position[h][1] = Replaced
        BY <1>2, <3>1, <3>3, ExpandStays
      <4>2. h \in Chunks
        BY <1>2, ElementOfSeq, LenProperties DEF Range
      <4> QED
        BY <4>1, <4>2 DEF ChunksOf
    <3> QED
      BY <3>2, <3>3
  <2>2. ASSUME NEW c \in Range(read') \cap ChunksOf(Replacement)
        PROVE  Range(hits) \cap ChunksOf(Replacement) # {}
    <3>1. c \in ChunksOf(Replacement) /\ Position[c] # NoPosition /\ Position[c][1] = Replacement
      BY DEF ChunksOf
    <3>2. CASE c \in Range(hits)
      BY <3>1, <3>2
    <3>3. CASE c \notin Range(hits)
      <4>1. PICK h \in Range(hits) : Position[h] # NoPosition /\ Position[h][1] = Replacement
        BY <1>2, <3>1, <3>3, ExpandStays
      <4>2. h \in Chunks
        BY <1>2, ElementOfSeq, LenProperties DEF Range
      <4> QED
        BY <4>1, <4>2 DEF ChunksOf
    <3> QED
      BY <3>2, <3>3
  <2> QED
    BY <1>1, <2>1, <2>2 DEF CopiesInv, Whole, OneCopy, OneCopyIsRead, ChunksOf
<1>7. ClosestIsKept'
  BY <1>1 DEF ClosestIsKept
<1>8. HybridKeepsTheGate'
  BY <1>1 DEF HybridKeepsTheGate
<1> QED
  BY <1>3, <1>4, <1>5, <1>6, <1>7, <1>8

(* A replacement leaves one whole copy, and ends what is promised of a     *)
(* calm database.                                                          *)
LEMMA ReplaceKeeps == IInv /\ Replace => IInv'
<1> SUFFICES ASSUME IInv, Replace PROVE IInv'
  OBVIOUS
<1> USE DEF IInv
<1>1. /\ pc # "done" /\ committed' = (committed \ ChunksOf(Replaced)) \cup ChunksOf(Replacement)
      /\ calm' = (calm /\ pc = "search")
      /\ UNCHANGED <<distance, reranking, pc, nearest, matching, hits, read>>
  BY DEF Replace
<1>2. TypeOK'
  BY <1>1, ChunksOfOneDocument DEF TypeOK
<1>3. ListsInv'
  BY <1>1 DEF ListsInv
<1>4. CopiesInv'
  <2>1. Whole'
    <3>1. committed' \in SUBSET Chunks
      BY <1>2 DEF TypeOK
    <3>2. ASSUME NEW c \in committed', NEW d \in Chunks,
                 Position[c] # NoPosition, Position[d] # NoPosition,
                 Position[c][1] = Position[d][1]
          PROVE  d \in committed'
      <4>1. CASE c \in ChunksOf(Replacement)
        BY <1>1, <3>2, <4>1 DEF ChunksOf
      <4>2. CASE c \in committed \ ChunksOf(Replaced)
        <5>1. d \in committed
          BY <3>2, <4>2 DEF CopiesInv, Whole
        <5>2. d \notin ChunksOf(Replaced)
          BY <3>1, <3>2, <4>2 DEF ChunksOf
        <5> QED
          BY <1>1, <5>1, <5>2
      <4> QED
        BY <1>1, <4>1, <4>2
    <3> QED
      BY <3>1, <3>2 DEF Whole
  <2>2. OneCopy(committed')
    BY <1>1, ChunksOfOneDocument DEF OneCopy
  <2>3. OneCopy(Range(hits')) /\ OneCopyIsRead'
    BY <1>1 DEF CopiesInv, OneCopy, OneCopyIsRead, ChunksOf
  <2> QED
    BY <2>1, <2>2, <2>3 DEF CopiesInv, OneCopy, ChunksOf
<1>5. ClosestIsKept'
  BY <1>1 DEF ClosestIsKept
<1>6. HybridKeepsTheGate' /\ WideningKeepsTheText' /\ BudgetIsShared'
  BY <1>1 DEF HybridKeepsTheGate, WideningKeepsTheText, BudgetIsShared
<1> QED
  BY <1>2, <1>3, <1>4, <1>5, <1>6

(* Nothing else changes anything.                                          *)
LEMMA StutterKeeps == IInv /\ UNCHANGED vars => IInv'
BY DEF vars, IInv, TypeOK, ListsInv, CopiesInv, Whole, OneCopy, OneCopyIsRead, ClosestIsKept,
       Closest, HybridKeepsTheGate, WideningKeepsTheText, BudgetIsShared, Added

(* Every reachable state satisfies the inductive invariant.                *)
THEOREM Invariance == Spec => []IInv
<1>1. IInv /\ [Next]_vars => IInv'
  BY VectorSearchKeeps, KeywordSearchKeeps, FuseKeeps, RerankKeeps, GateKeeps, ExpandKeeps,
     ReplaceKeeps, StutterKeeps DEF Next
<1> QED
  BY <1>1, InitInv, PTL DEF Spec

(* Every reachable state is well typed.                                    *)
THEOREM TypeCorrect == Spec => []TypeOK
BY Invariance, PTL DEF IInv

(* However a replacement falls between the SELECTs, the passages of one    *)
(* answer come from one copy of the document.                              *)
THEOREM OneCopyRead == Spec => []OneCopyIsRead
BY Invariance, PTL DEF IInv, CopiesInv

(* Neither keyword search nor the fusion nor the cut changes a refusal:    *)
(* the closest stored chunk survives them all.                             *)
THEOREM GateKept == Spec => []HybridKeepsTheGate
BY Invariance, PTL DEF IInv

(* Widening keeps the hits and their order, repeats nothing and reads      *)
(* over no gap.                                                            *)
THEOREM TextKept == Spec => []WideningKeepsTheText
BY Invariance, PTL DEF IInv

(* The passages stay within CONTEXT_MAX_CHUNKS, and every hit is given     *)
(* its first continuation before any is given a second.                    *)
THEOREM BudgetShared == Spec => []BudgetIsShared
BY Invariance, PTL DEF IInv
=============================================================================
