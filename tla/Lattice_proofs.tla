--------------------------- MODULE Lattice_proofs ---------------------------
(***************************************************************************)
(* What the operators of Lattice return, for every table that satisfies    *)
(* LatticeAssumption and every spread.                                     *)
(***************************************************************************)
EXTENDS Lattice, WellFoundedInduction, TLAPS

Rows == 1..Len(LatticeTable)

LEMMA TableShape ==
  /\ Len(LatticeTable) \in Nat \ {0}
  /\ \A i \in Rows : LatticeTable[i] \in [Threshold : Nat, PositionBuild : Nat, PositionReduce : Nat]
<1> DEFINE R == [Threshold : Nat, PositionBuild : Nat, PositionReduce : Nat]
<1>1. LatticeTable \in Seq(R) /\ Len(LatticeTable) > 0
  BY TableIsLattice DEF LatticeAssumption
<1> HIDE DEF R
<1>2. Len(LatticeTable) \in Nat /\ \A i \in 1..Len(LatticeTable) : LatticeTable[i] \in R
  BY <1>1
<1> QED BY <1>1, <1>2 DEF R, Rows

(* A non-empty set of naturals with a bound has a last one.                *)
LEMMA LastOfRange ==
  ASSUME NEW n \in Nat, NEW S, S \subseteq 1..n, S # {}
  PROVE  \E i \in S : \A j \in S : j <= i
<1> DEFINE T == {k \in Nat : n - k \in S}
<1>1. T \subseteq Nat /\ T # {}
  <2>1. PICK i \in S : TRUE
    OBVIOUS
  <2>2. n - i \in Nat /\ n - (n - i) = i
    BY <2>1
  <2>3. n - i \in T
    BY <2>1, <2>2
  <2> QED BY <2>3
<1>2. IsWellFoundedOn(OpToRel(<, Nat), Nat)
  BY NatLessThanWellFounded
<1> HIDE DEF T
<1>3. \E k \in T : \A m \in T : ~ (<<m, k>> \in OpToRel(<, Nat))
  BY <1>1, <1>2, WFMin
<1>4. PICK k \in T : \A m \in T : ~ (<<m, k>> \in OpToRel(<, Nat))
  BY <1>3
<1>5. \A m \in T : ~(m < k)
  BY <1>1, <1>4 DEF OpToRel
<1>6. k \in Nat /\ n - k \in S
  BY <1>4 DEF T
<1>7. ASSUME NEW j \in S PROVE j <= n - k
  <2>1. j \in Int /\ n - j \in Nat /\ n - (n - j) = j
    BY <1>7
  <2>2. n - j \in T
    BY <2>1, <1>7 DEF T
  <2>3. ~(n - j < k)
    BY <1>5, <2>2
  <2> QED BY <1>6, <2>1, <2>3
<1> QED BY <1>6, <1>7

LEMMA LastRow ==
  ASSUME NEW S, S \subseteq Rows, S # {}
  PROVE  \E i \in S : \A j \in S : j <= i
BY LastOfRange, TableShape DEF Rows

(* Every spread that is not negative reaches a row.                        *)
LEMMA SomeRowReached ==
  ASSUME NEW spread \in Int, spread >= 0
  PROVE  \E i \in Rows : Reached(spread, i)
<1> DEFINE S == {i \in Rows : LatticeTable[i].Threshold <= spread}
<1>1. 1 \in S
  BY TableShape, TableIsLattice DEF LatticeAssumption, Rows
<1>2. PICK i \in S : \A j \in S : j <= i
  BY <1>1, LastRow
<1>3. \A j \in Rows : i < j => spread < LatticeTable[j].Threshold
  <2>1. SUFFICES ASSUME NEW j \in Rows, i < j PROVE spread < LatticeTable[j].Threshold
    OBVIOUS
  <2>2. i \in Int /\ j \in Int
    BY TableShape DEF Rows
  <2>3. j \notin S
    BY <1>2, <2>1, <2>2
  <2> QED BY <2>1, <2>3, TableShape
<1> QED BY <1>2, <1>3 DEF Reached, Rows

(* The row a spread is given, when it is given one.                        *)
LEMMA RowIsReached ==
  ASSUME NEW spread \in Int, spread >= 0
  PROVE  \E i \in Rows : GetNotioinalByProfitPrice(spread) = LatticeTable[i] /\ Reached(spread, i)
<1>1. (CHOOSE i \in Rows : Reached(spread, i)) \in Rows
      /\ Reached(spread, CHOOSE i \in Rows : Reached(spread, i))
  BY SomeRowReached
<1>2. ~(spread < 0)
  OBVIOUS
<1> QED BY <1>1, <1>2 DEF GetNotioinalByProfitPrice, Rows

LEMMA EdgesAreNaturals ==
  ASSUME NEW spread \in Int
  PROVE  Build(spread) \in Nat /\ Reduce(spread) \in Nat
<1>1. CASE spread < 0
  BY <1>1 DEF Build, Reduce, GetNotioinalByProfitPrice
<1>2. CASE spread >= 0
  BY <1>2, RowIsReached, TableShape DEF Build, Reduce
<1> QED BY <1>1, <1>2

(* A larger spread never builds less, nor makes the band's upper edge      *)
(* lower: the source's scan from the last row down finds a later row.      *)
THEOREM EdgesAreMonotone ==
  ASSUME NEW s \in Int, NEW t \in Int, s <= t
  PROVE  Build(s) <= Build(t) /\ Reduce(s) <= Reduce(t)
<1>1. CASE s < 0
  <2>1. Build(s) = 0 /\ Reduce(s) = 0
    BY <1>1 DEF Build, Reduce, GetNotioinalByProfitPrice
  <2> QED BY <2>1, EdgesAreNaturals
<1>2. CASE s >= 0
  <2>1. PICK i \in Rows : GetNotioinalByProfitPrice(s) = LatticeTable[i] /\ Reached(s, i)
    BY <1>2, RowIsReached
  <2>2. t >= 0
    BY <1>2
  <2>3. PICK j \in Rows : GetNotioinalByProfitPrice(t) = LatticeTable[j] /\ Reached(t, j)
    BY <2>2, RowIsReached
  <2>4. i \in Int /\ j \in Int /\ LatticeTable[i].Threshold \in Int
    BY TableShape DEF Rows
  <2>5. ~(j < i)
    <3>1. LatticeTable[i].Threshold <= t
      BY <2>1, <2>4 DEF Reached
    <3> QED BY <2>3, <2>4, <3>1 DEF Reached, Rows
  <2>6. CASE i = j
    BY <2>1, <2>3, <2>6, TableShape DEF Build, Reduce
  <2>7. CASE i < j
    BY <2>1, <2>3, <2>7, TableIsLattice DEF LatticeAssumption, Build, Reduce, Rows
  <2> QED BY <2>4, <2>5, <2>6, <2>7
<1> QED BY <1>1, <1>2

(* Whatever spread is shown, the band it builds to does not lie above the  *)
(* one it reduces to.                                                      *)
LEMMA BandIsNotEmpty ==
  ASSUME NEW spread \in Int
  PROVE  Build(spread) <= Reduce(spread)
<1>1. CASE spread < 0
  BY <1>1 DEF Build, Reduce, GetNotioinalByProfitPrice
<1>2. CASE spread >= 0
  BY <1>2, RowIsReached, TableIsLattice DEF LatticeAssumption, Build, Reduce, Rows
<1> QED BY <1>1, <1>2

LEMMA UpdateIsPosition ==
  ASSUME NEW c \in Position, NEW on \in Int, NEW off \in Int
  PROVE  UpdatePosition(c, on, off) \in Position
<1>1. /\ Build(off) \in Int /\ Reduce(-on) \in Int
      /\ Build(on) \in Int /\ Reduce(-off) \in Int
  BY EdgesAreNaturals
<1> QED BY <1>1 DEF UpdatePosition, IntoBand, Position

LEMMA OneNotionalIsPosition ==
  ASSUME NEW p \in Position, NEW c \in Position, NEW target \in Int
  PROVE  OneNotional(p, c, target) \in Position
BY DEF OneNotional, Position, Net, Gap

(* The grid does not churn: after the order UpdatePosition asked for has   *)
(* filled, the same spreads ask for nothing more, whatever the table and   *)
(* the position, provided the market offers no gain both ways at once.     *)
THEOREM UpdateIsStable ==
  ASSUME NEW c \in Position, NEW on \in Int, NEW off \in Int, on + off <= 0
  PROVE  LET p == UpdatePosition(c, on, off) IN UpdatePosition(p, on, off) = p
<1>1. Build(off) <= Reduce(-on) /\ Build(on) <= Reduce(-off)
  BY EdgesAreMonotone, BandIsNotEmpty, EdgesAreNaturals
<1>2. /\ Build(off) \in Int /\ Reduce(-on) \in Int
      /\ Build(on) \in Int /\ Reduce(-off) \in Int
  BY EdgesAreNaturals
<1> QED BY <1>1, <1>2 DEF UpdatePosition, IntoBand, Position

(* An order cut down by tryPaths keeps its side and is of one notional.    *)
THEOREM OneNotionalKeepsSide ==
  ASSUME NEW p \in Position, NEW c \in Position, NEW target \in Int
  PROVE  LET want == Net(p) - target
             left == Net(OneNotional(p, c, target)) - target
         IN  /\ want > 1 => left = 1
             /\ want < -1 => left = -1
             /\ want \in -1..1 => left = want
BY DEF OneNotional, Position, Net, Gap
----------------------------------------------------------------------------
(* Nothing is built at a spread without a gain.                            *)
LEMMA BuildNeedsGain ==
  ASSUME NEW s \in Int, Build(s) > 0
  PROVE  s > 0
<1>1. CASE s < 0
  BY <1>1 DEF Build, GetNotioinalByProfitPrice
<1>2. CASE s = 0
  <2>1. PICK i \in Rows : GetNotioinalByProfitPrice(0) = LatticeTable[i] /\ Reached(0, i)
    BY RowIsReached
  <2>2. /\ i \in Int /\ i >= 1 /\ 1 \in Rows
        /\ LatticeTable[i].Threshold \in Nat /\ LatticeTable[i].Threshold <= 0
    BY <2>1, TableShape DEF Rows, Reached
  <2>3. ~(1 < i)
    BY <2>1, <2>2, TableIsLattice DEF LatticeAssumption, Rows
  <2>4. i = 1
    BY <2>2, <2>3
  <2> QED BY <1>2, <2>1, <2>4, TableIsLattice DEF LatticeAssumption, Build
<1> QED BY <1>1, <1>2

BothSides(p) == p.pos > 0 /\ p.neg > 0

(* A market without a gain both ways never plans for both sides at once.   *)
LEMMA UpdateIsOneSided ==
  ASSUME NEW c, c.pos \in Nat, c.neg \in Int, ~BothSides(c),
         NEW on \in Int, NEW off \in Int, on + off <= 0
  PROVE  ~BothSides(UpdatePosition(c, on, off))
<1> DEFINE q == UpdatePosition(c, on, off)
<1> SUFFICES ~BothSides(q)
  OBVIOUS
<1>1. /\ Build(on) \in Nat /\ Build(off) \in Nat
      /\ Reduce(-on) \in Nat /\ Reduce(-off) \in Nat
  BY EdgesAreNaturals
<1>2. /\ q.pos = IntoBand(c.pos, Build(off), Reduce(-on))
      /\ q.neg = IntoBand(c.neg, Build(on), Reduce(-off))
  BY DEF UpdatePosition
<1> HIDE DEF q
<1>3. CASE Build(off) > 0
  <2>1. off > 0 /\ on < 0
    BY <1>3, BuildNeedsGain
  <2>2. Build(on) = 0 /\ Reduce(-off) = 0
    BY <2>1 DEF Build, Reduce, GetNotioinalByProfitPrice
  <2> QED BY <1>2, <2>2 DEF IntoBand, BothSides
<1>4. CASE Build(on) > 0
  <2>1. on > 0 /\ off < 0
    BY <1>4, BuildNeedsGain
  <2>2. Build(off) = 0 /\ Reduce(-on) = 0
    BY <2>1 DEF Build, Reduce, GetNotioinalByProfitPrice
  <2> QED BY <1>2, <2>2 DEF IntoBand, BothSides
<1>5. CASE Build(off) = 0 /\ Build(on) = 0
  BY <1>1, <1>2, <1>5 DEF IntoBand, BothSides
<1> QED BY <1>1, <1>3, <1>4, <1>5

(* A plan on one side of the grid, no further out than its edge.           *)
Inside(p, edge) ==
  /\ 0 <= p.pos /\ p.pos <= edge /\ p.neg <= edge
  /\ ~BothSides(p)
  /\ Gap(Net(p)) <= edge

(* Neither of the two ways a plan changes leads out of the grid: what the  *)
(* spreads ask for, and what is left of an order cut down to one notional. *)
LEMMA UpdateStaysInside ==
  ASSUME NEW edge \in Int, NEW c \in Position, Inside(c, edge),
         NEW on \in Int, NEW off \in Int, on + off <= 0,
         Build(on) <= edge, Build(off) <= edge
  PROVE  Inside(UpdatePosition(c, on, off), edge)
<1> DEFINE q == UpdatePosition(c, on, off)
<1>1. /\ Build(on) \in Nat /\ Build(off) \in Nat
      /\ Reduce(-on) \in Nat /\ Reduce(-off) \in Nat
  BY EdgesAreNaturals
<1>2. c.pos \in Nat /\ c.neg \in Int /\ ~BothSides(c) /\ c.pos <= edge /\ c.neg <= edge
  BY DEF Position, Inside
<1>3. /\ q.pos = IntoBand(c.pos, Build(off), Reduce(-on))
      /\ q.neg = IntoBand(c.neg, Build(on), Reduce(-off))
  BY DEF UpdatePosition
<1>4. ~BothSides(q)
  BY <1>2, UpdateIsOneSided
<1> HIDE DEF q
<1>5. /\ q.pos \in Int /\ 0 <= q.pos /\ q.pos <= edge
      /\ q.neg \in Int /\ 0 <= q.neg /\ q.neg <= edge
  BY <1>1, <1>2, <1>3 DEF IntoBand
<1>6. Gap(Net(q)) <= edge
  BY <1>5 DEF Gap, Net
<1>7. Inside(q, edge)
  BY <1>4, <1>5, <1>6 DEF Inside
<1> QED BY <1>7 DEF q

LEMMA OneNotionalStaysInside ==
  ASSUME NEW edge \in Int, NEW p \in Position, NEW c \in Position,
         Inside(p, edge), Inside(c, edge)
  PROVE  Inside(OneNotional(p, c, Net(c)), edge)
<1> DEFINE t == Net(c)
           d == Net(p) - t
           q == OneNotional(p, c, t)
<1> SUFFICES Inside(q, edge)
  OBVIOUS
<1>1. /\ p = [pos |-> p.pos, neg |-> p.neg] /\ p.pos \in Int /\ p.neg \in Int
      /\ c.pos \in Int /\ c.neg \in Int
      /\ t \in Int /\ t = c.pos - c.neg /\ d \in Int /\ d = p.pos - p.neg - t
  BY DEF Position, Net
<1>2. /\ 0 <= p.pos /\ p.pos <= edge /\ p.neg <= edge /\ ~(p.pos > 0 /\ p.neg > 0)
      /\ 0 <= c.pos /\ c.pos <= edge /\ c.neg <= edge /\ ~(c.pos > 0 /\ c.neg > 0)
      /\ -edge <= t /\ t <= edge /\ -edge <= p.pos - p.neg /\ p.pos - p.neg <= edge
  BY <1>1 DEF Inside, BothSides, Gap, Net
<1>3. ASSUME NEW pos \in Int, NEW neg \in Int, q = [pos |-> pos, neg |-> neg],
             0 <= pos, pos <= edge, neg <= edge, ~(pos > 0 /\ neg > 0),
             -edge <= pos - neg, pos - neg <= edge
      PROVE  Inside(q, edge)
  BY <1>3 DEF Inside, BothSides, Gap, Net
<1>4. CASE d > 1
  <2> DEFINE raise == p.pos - c.pos
             back == IF raise < d - 1 THEN IF raise < 0 THEN 0 ELSE raise ELSE d - 1
  <2>1. q = [pos |-> p.pos - back, neg |-> p.neg + (d - 1 - back)]
    BY <1>1, <1>4 DEF OneNotional, Gap
  <2>2. /\ p.pos - back \in Int /\ p.neg + (d - 1 - back) \in Int
        /\ 0 <= p.pos - back /\ p.pos - back <= edge /\ p.neg + (d - 1 - back) <= edge
        /\ ~(p.pos - back > 0 /\ p.neg + (d - 1 - back) > 0)
        /\ -edge <= p.pos - back - (p.neg + (d - 1 - back))
        /\ p.pos - back - (p.neg + (d - 1 - back)) <= edge
    <3> HIDE DEF t, d
    <3> QED BY <1>1, <1>2, <1>4
  <2> HIDE DEF back, q
  <2> QED BY <1>3, <2>1, <2>2
<1>5. CASE d < -1
  <2>0. Gap(d) = -d /\ ~(d > 1)
    BY <1>1, <1>5 DEF Gap
  <2>1. q = IF p.pos - c.pos > 0 THEN [pos |-> p.pos + (-d - 1), neg |-> p.neg]
                                 ELSE [pos |-> p.pos, neg |-> p.neg - (-d - 1)]
    BY <1>1, <1>5, <2>0 DEF OneNotional
  <2> HIDE DEF t, d, q
  <2>2. CASE p.pos - c.pos > 0
    BY <1>1, <1>2, <1>3, <1>5, <2>1, <2>2
  <2>3. CASE ~(p.pos - c.pos > 0)
    BY <1>1, <1>2, <1>3, <1>5, <2>1, <2>3
  <2> QED BY <2>2, <2>3
<1>6. CASE d \in -1..1
  BY <1>1, <1>6 DEF OneNotional
<1> QED BY <1>1, <1>4, <1>5, <1>6

(* Every spread builds what some row of the table says.                    *)
LEMMA BuildIsOfRow ==
  ASSUME NEW spread \in Int
  PROVE  \E i \in Rows : Build(spread) = LatticeTable[i].PositionBuild
<1>1. CASE spread < 0
  <2>1. 1 \in Rows /\ LatticeTable[1].PositionBuild = 0
    BY TableShape, TableIsLattice DEF LatticeAssumption, Rows
  <2> QED BY <1>1, <2>1 DEF Build, GetNotioinalByProfitPrice
<1>2. CASE spread >= 0
  BY <1>2, RowIsReached DEF Build
<1> QED BY <1>1, <1>2

(* However many spreads the market may show, one of them builds most.      *)
LEMMA MostIsBuilt ==
  ASSUME NEW S, S \subseteq Int, S # {}
  PROVE  \E s \in S : \A r \in S : Build(r) <= Build(s)
<1> DEFINE I == {i \in Rows : \E s \in S : Build(s) = LatticeTable[i].PositionBuild}
<1>1. I \subseteq Rows /\ I # {}
  BY BuildIsOfRow
<1>2. PICK i \in I : \A j \in I : j <= i
  BY <1>1, LastRow
<1>3. PICK s \in S : Build(s) = LatticeTable[i].PositionBuild
  OBVIOUS
<1>4. ASSUME NEW r \in S PROVE Build(r) <= Build(s)
  <2>1. PICK j \in Rows : Build(r) = LatticeTable[j].PositionBuild
    BY BuildIsOfRow
  <2>2. j <= i /\ i \in Rows
    BY <1>2, <2>1
  <2>3. i \in Int /\ j \in Int /\ Build(r) \in Int
    BY <2>2, EdgesAreNaturals DEF Rows
  <2>4. CASE j = i
    BY <1>3, <2>1, <2>3, <2>4
  <2>5. CASE j < i
    BY <1>3, <2>1, <2>2, <2>5, TableIsLattice DEF LatticeAssumption, Rows
  <2> QED BY <2>2, <2>3, <2>4, <2>5
<1> QED BY <1>4
=============================================================================
