-------------------------- MODULE PaperTradesProofs --------------------------
(***************************************************************************)
(* Facts about the operators of PaperTrades.                               *)
(***************************************************************************)
EXTENDS PaperTrades, FiniteSetTheorems, TLAPS

-----------------------------------------------------------------------------
(* Induction over finite sets, as the existence of a minimal member.       *)

\* A collection of subsets of a finite set has a member with no other below it.
LEMMA MinimalSubset ==
  ASSUME NEW S, IsFiniteSet(S), NEW C \in SUBSET SUBSET S, C # {}
  PROVE  \E T \in C : \A U \in C : U \subseteq T => U = T
<1>1. IsWellFoundedOn(StrictSubsetOrdering(S), SUBSET S)
  BY FS_FiniteSubsetsOfFinite, FS_StrictSubsetOrderingWellFounded, Zenon
<1>2. PICK T \in C : \A U \in C : ~(<<U, T>> \in StrictSubsetOrdering(S))
  BY <1>1, WFMin, Zenon
<1>3. \A U \in C : U \subseteq T => U = T
  BY <1>2 DEF StrictSubsetOrdering
<1> QED BY <1>3

-----------------------------------------------------------------------------
(* The recursive function behind NetQty.                                   *)

Amount(r) == Signed(r.action, r.qty)
First(T) == CHOOSE x \in T : TRUE
SumStep(f, T) == IF T = {} THEN 0 ELSE Amount(First(T)) + f[T \ {First(T)}]
IsSum(f, S) == f = [T \in SUBSET S |-> SumStep(f, T)]

\* What is summed are whole quantities.
Amounts(S) == \A r \in S : Amount(r) \in Int

LEMMA NetQtyIsSum ==
  ASSUME NEW S
  PROVE  NetQty(S) = (CHOOSE f : IsSum(f, S))[S]
BY DEF NetQty, MapThenSumSet, MapThenFoldSet, IsSum, SumStep, Amount, First

\* A fact that fails for some subset of a finite set fails for one all of whose
\* proper subsets satisfy it.
LEMMA SumUnique ==
  ASSUME NEW S, IsFiniteSet(S), NEW f, NEW g, IsSum(f, S), IsSum(g, S)
  PROVE  f = g
<1> DEFINE C == {T \in SUBSET S : f[T] # g[T]}
<1>1. SUFFICES ASSUME C # {} PROVE FALSE
  <2>1. \A T \in SUBSET S : f[T] = g[T]
    BY <1>1
  <2>2. f = [T \in SUBSET S |-> f[T]] /\ g = [T \in SUBSET S |-> g[T]]
    BY DEF IsSum
  <2> QED BY <2>1, <2>2
<1>2. PICK T \in C : \A U \in C : U \subseteq T => U = T
  <2>1. C \in SUBSET SUBSET S
    OBVIOUS
  <2> HIDE DEF C
  <2> QED BY <1>1, <2>1, MinimalSubset
<1>3. f[T] = SumStep(f, T) /\ g[T] = SumStep(g, T)
  BY DEF IsSum
<1>4. T # {}
  BY <1>3 DEF SumStep
<1>5. First(T) \in T
  BY <1>4 DEF First
<1>6. f[T \ {First(T)}] = g[T \ {First(T)}]
  BY <1>2, <1>5
<1> QED BY <1>2, <1>3, <1>4, <1>6 DEF SumStep

LEMMA SumRestrict ==
  ASSUME NEW S, NEW f, IsSum(f, S), NEW R \in SUBSET S
  PROVE  IsSum([T \in SUBSET R |-> f[T]], R)
<1> DEFINE g == [T \in SUBSET R |-> f[T]]
<1>1. ASSUME NEW T \in SUBSET R PROVE g[T] = SumStep(g, T)
  <2>1. f[T] = SumStep(f, T)
    BY DEF IsSum
  <2>2. T \ {First(T)} \in SUBSET R
    OBVIOUS
  <2> QED BY <2>1, <2>2 DEF SumStep
<1> QED BY <1>1 DEF IsSum

\* Below a set with a sum function NetQty satisfies the recursion equation.
LEMMA NetQtyBelow ==
  ASSUME NEW S, IsFiniteSet(S), NEW f, IsSum(f, S), NEW R \in SUBSET S
  PROVE  NetQty(R) = f[R]
<1> DEFINE g == [T \in SUBSET R |-> f[T]]
<1>1. IsSum(g, R)
  BY SumRestrict
<1>2. IsFiniteSet(R)
  BY FS_Subset
<1>3. IsSum(CHOOSE h : IsSum(h, R), R)
  BY <1>1
<1>4. g = CHOOSE h : IsSum(h, R)
  BY <1>1, <1>2, <1>3, SumUnique
<1> HIDE DEF g
<1>5. NetQty(R) = g[R]
  BY <1>4, NetQtyIsSum
<1> QED BY <1>5 DEF g

\* Every finite set has a sum function.
LEMMA SumExists ==
  ASSUME NEW S, IsFiniteSet(S)
  PROVE  \E f : IsSum(f, S)
<1> DEFINE C == {T \in SUBSET S : ~\E f : IsSum(f, T)}
<1>1. SUFFICES ASSUME C # {} PROVE FALSE
  BY <1>1
<1>2. PICK B \in C : \A U \in C : U \subseteq B => U = B
  <2>1. C \in SUBSET SUBSET S
    OBVIOUS
  <2> HIDE DEF C
  <2> QED BY <1>1, <2>1, MinimalSubset
<1>3. IsFiniteSet(B)
  BY <1>2, FS_Subset
<1>4. ASSUME NEW U \in SUBSET B, U # B
      PROVE  NetQty(U) = IF U = {} THEN 0
                         ELSE Amount(First(U)) + NetQty(U \ {First(U)})
  <2>1. PICK h : IsSum(h, U)
    BY <1>2, <1>4
  <2>2. IsFiniteSet(U)
    BY <1>3, FS_Subset
  <2>3. NetQty(U) = h[U] /\ NetQty(U \ {First(U)}) = h[U \ {First(U)}]
    BY <2>1, <2>2, NetQtyBelow
  <2>4. h[U] = SumStep(h, U)
    BY <2>1 DEF IsSum
  <2> QED BY <2>3, <2>4 DEF SumStep
<1> DEFINE g == [T \in SUBSET B |->
                  IF T = {} THEN 0
                  ELSE Amount(First(T)) + NetQty(T \ {First(T)})]
<1>5. ASSUME NEW T \in SUBSET B PROVE g[T] = SumStep(g, T)
  <2>1. CASE T = {}
    BY <2>1 DEF SumStep
  <2>2. CASE T # {}
    <3>1. First(T) \in T
      BY <2>2 DEF First
    <3>2. T \ {First(T)} \in SUBSET B /\ T \ {First(T)} # B
      BY <3>1
    <3>3. g[T \ {First(T)}] = NetQty(T \ {First(T)})
      BY <3>2, <1>4
    <3> QED BY <2>2, <3>3 DEF SumStep
  <2> QED BY <2>1, <2>2
<1>6. IsSum(g, B)
  BY <1>5 DEF IsSum
<1> QED BY <1>2, <1>6

\* What a rest of the rows and one row of it add up to.
LEMMA NetQtyStep ==
  ASSUME NEW S, IsFiniteSet(S)
  PROVE  NetQty(S) = IF S = {} THEN 0
                     ELSE Amount(First(S)) + NetQty(S \ {First(S)})
<1>1. PICK f : IsSum(f, S)
  BY SumExists
<1>2. NetQty(S) = f[S] /\ NetQty(S \ {First(S)}) = f[S \ {First(S)}]
  BY <1>1, NetQtyBelow
<1>3. f[S] = SumStep(f, S)
  BY <1>1 DEF IsSum
<1> QED BY <1>2, <1>3 DEF SumStep

-----------------------------------------------------------------------------
(* What NetQty does.                                                       *)

LEMMA NetQtyEmpty == NetQty({}) = 0
BY NetQtyStep, FS_EmptySet

LEMMA NetQtyType ==
  ASSUME NEW S, IsFiniteSet(S), Amounts(S)
  PROVE  NetQty(S) \in Int
<1> DEFINE C == {T \in SUBSET S : NetQty(T) \notin Int}
<1>1. SUFFICES ASSUME C # {} PROVE FALSE
  BY <1>1
<1>2. PICK T \in C : \A U \in C : U \subseteq T => U = T
  <2>1. C \in SUBSET SUBSET S
    OBVIOUS
  <2> HIDE DEF C
  <2> QED BY <1>1, <2>1, MinimalSubset
<1>3. T # {}
  <2>1. NetQty({}) \in Int
    BY NetQtyEmpty
  <2> QED BY <1>2, <2>1
<1>4. First(T) \in T
  BY <1>3 DEF First
<1>5. NetQty(T \ {First(T)}) \in Int
  BY <1>2, <1>4
<1>6. IsFiniteSet(T)
  BY FS_Subset
<1>7. Amount(First(T)) \in Int
  BY <1>4 DEF Amounts
<1> QED BY <1>2, <1>3, <1>5, <1>6, <1>7, NetQtyStep

\* The order in which rows are added does not matter.
LEMMA NetQtyRemove ==
  ASSUME NEW S, IsFiniteSet(S), Amounts(S), NEW x \in S
  PROVE  NetQty(S) = Amount(x) + NetQty(S \ {x})
<1> DEFINE Holds(T) == \A y \in T : NetQty(T) = Amount(y) + NetQty(T \ {y})
           C == {T \in SUBSET S : ~Holds(T)}
<1>1. SUFFICES ASSUME C # {} PROVE FALSE
  BY <1>1
<1>2. PICK T \in C : \A U \in C : U \subseteq T => U = T
  <2>1. C \in SUBSET SUBSET S
    OBVIOUS
  <2> HIDE DEF C
  <2> QED BY <1>1, <2>1, MinimalSubset
<1>3. PICK y \in T : NetQty(T) # Amount(y) + NetQty(T \ {y})
  BY <1>2
<1> DEFINE z == First(T)
           R == T \ {y, z}
<1>4. z \in T
  BY <1>3 DEF First
<1> HIDE DEF z
<1>5. NetQty(T) = Amount(z) + NetQty(T \ {z})
  BY <1>3, FS_Subset, NetQtyStep DEF z
<1>6. y # z
  BY <1>3, <1>5
<1>7. NetQty(T \ {z}) = Amount(y) + NetQty((T \ {z}) \ {y})
  BY <1>2, <1>4, <1>6
<1>8. NetQty(T \ {y}) = Amount(z) + NetQty((T \ {y}) \ {z})
  BY <1>2, <1>4, <1>6
<1>9. (T \ {z}) \ {y} = R /\ (T \ {y}) \ {z} = R
  OBVIOUS
<1>10. NetQty(R) \in Int
  BY FS_Subset, NetQtyType DEF Amounts
<1>11. Amount(y) \in Int /\ Amount(z) \in Int
  BY <1>4 DEF Amounts
<1> HIDE DEF R
<1> QED BY <1>3, <1>5, <1>7, <1>8, <1>9, <1>10, <1>11

LEMMA NetQtyAdd ==
  ASSUME NEW S, IsFiniteSet(S), Amounts(S), NEW x, x \notin S, Amount(x) \in Int
  PROVE  NetQty(S \cup {x}) = NetQty(S) + Amount(x)
<1>1. IsFiniteSet(S \cup {x}) /\ Amounts(S \cup {x})
  BY FS_AddElement DEF Amounts
<1>2. (S \cup {x}) \ {x} = S
  OBVIOUS
<1>3. NetQty(S \cup {x}) = Amount(x) + NetQty((S \cup {x}) \ {x})
  BY <1>1, NetQtyRemove
<1>4. NetQty(S \cup {x}) = Amount(x) + NetQty(S)
  BY <1>2, <1>3, Zenon
<1>5. NetQty(S) \in Int
  BY NetQtyType
<1> QED BY <1>4, <1>5

\* Two sets of rows that share none add up.
LEMMA NetQtyUnion ==
  ASSUME NEW S, IsFiniteSet(S), Amounts(S),
         NEW T, IsFiniteSet(T), Amounts(T), S \cap T = {}
  PROVE  NetQty(S \cup T) = NetQty(S) + NetQty(T)
<1> DEFINE C == {U \in SUBSET T : NetQty(S \cup U) # NetQty(S) + NetQty(U)}
<1>1. SUFFICES ASSUME C # {} PROVE FALSE
  BY <1>1
<1>2. PICK U \in C : \A V \in C : V \subseteq U => V = U
  <2>1. C \in SUBSET SUBSET T
    OBVIOUS
  <2> HIDE DEF C
  <2> QED BY <1>1, <2>1, MinimalSubset
<1>3. NetQty(S) \in Int
  BY NetQtyType
<1>4. U # {}
  <2>1. S \cup {} = S /\ NetQty({}) = 0
    BY NetQtyEmpty
  <2>2. ASSUME U = {} PROVE NetQty(S \cup U) = NetQty(S) + NetQty(U)
    BY <1>3, <2>1, <2>2
  <2> QED BY <1>2, <2>2
<1>5. PICK x \in U : TRUE
  BY <1>4
<1> DEFINE V == U \ {x}
<1>6. NetQty(S \cup V) = NetQty(S) + NetQty(V)
  BY <1>2, <1>5
<1>7. /\ IsFiniteSet(V) /\ Amounts(V) /\ x \notin V /\ Amount(x) \in Int
      /\ IsFiniteSet(S \cup V) /\ Amounts(S \cup V) /\ x \notin S \cup V
      /\ V \cup {x} = U /\ (S \cup V) \cup {x} = S \cup U
  BY <1>5, FS_Subset, FS_Union DEF Amounts
<1> HIDE DEF V
<1>8. NetQty(V) \in Int
  BY <1>7, NetQtyType
<1>9. NetQty(V \cup {x}) = NetQty(V) + Amount(x)
  BY <1>7, NetQtyAdd
<1>10. NetQty((S \cup V) \cup {x}) = NetQty(S \cup V) + Amount(x)
  BY <1>7, NetQtyAdd
<1>11. NetQty(U) = NetQty(V) + Amount(x)
  BY <1>7, <1>9
<1>12. NetQty(S \cup U) = NetQty(S \cup V) + Amount(x)
  BY <1>7, <1>10
<1>13. NetQty(S \cup U) # NetQty(S) + NetQty(U)
  BY <1>2
<1> QED BY <1>3, <1>6, <1>7, <1>8, <1>11, <1>12, <1>13

\* A rewrite of the rows that keeps their amounts and merges none keeps the sum.
LEMMA NetQtyRewrite ==
  ASSUME NEW S, IsFiniteSet(S), Amounts(S), NEW f,
         \A r, s \in S : f[r] = f[s] => r = s,
         \A r \in S : Amount(f[r]) = Amount(r)
  PROVE  /\ IsFiniteSet({f[r] : r \in S}) /\ Amounts({f[r] : r \in S})
         /\ NetQty({f[r] : r \in S}) = NetQty(S)
<1> DEFINE Image(U) == {f[r] : r \in U}
           Holds(U) == IsFiniteSet(Image(U)) /\ NetQty(Image(U)) = NetQty(U)
           C == {U \in SUBSET S : ~Holds(U)}
<1>1. SUFFICES ASSUME C # {} PROVE FALSE
  <2>1. Holds(S)
    BY <1>1
  <2>2. Amounts(Image(S))
    BY DEF Amounts
  <2> QED BY <2>1, <2>2
<1>2. PICK U \in C : \A V \in C : V \subseteq U => V = U
  <2>1. C \in SUBSET SUBSET S
    OBVIOUS
  <2> HIDE DEF C
  <2> QED BY <1>1, <2>1, MinimalSubset
<1>3. U # {}
  <2>1. Image({}) = {}
    OBVIOUS
  <2>2. Holds({})
    BY <2>1, FS_EmptySet
  <2> QED BY <1>2, <2>2
<1>4. PICK x \in U : TRUE
  BY <1>3
<1> DEFINE V == U \ {x}
<1>5. Holds(V)
  BY <1>2, <1>4
<1>6. /\ Image(U) = Image(V) \cup {f[x]} /\ f[x] \notin Image(V)
      /\ V \cup {x} = U /\ x \notin V
      /\ Amounts(V) /\ Amounts(Image(V))
      /\ Amount(x) \in Int /\ Amount(f[x]) = Amount(x)
  BY <1>2, <1>4 DEF Amounts
<1>7. IsFiniteSet(V) /\ IsFiniteSet(Image(U))
  BY <1>5, <1>6, FS_Subset, FS_AddElement
<1>8. ~Holds(U)
  BY <1>2
<1> HIDE DEF V, Image
<1>9. NetQty(Image(V) \cup {f[x]}) = NetQty(Image(V)) + Amount(x)
  BY <1>5, <1>6, NetQtyAdd
<1>10. NetQty(V \cup {x}) = NetQty(V) + Amount(x)
  BY <1>6, <1>7, NetQtyAdd
<1> QED BY <1>5, <1>6, <1>7, <1>8, <1>9, <1>10, Zenon

\* Rows of one side never add up to a position on the other.
LEMMA NetQtySign ==
  ASSUME NEW S, IsFiniteSet(S), Amounts(S)
  PROVE  /\ (\A r \in S : Amount(r) < 0) => NetQty(S) <= 0
         /\ (\A r \in S : Amount(r) > 0) => NetQty(S) >= 0
<1> DEFINE Fits(T) == /\ (\A r \in T : Amount(r) < 0) => NetQty(T) <= 0
                      /\ (\A r \in T : Amount(r) > 0) => NetQty(T) >= 0
           C == {T \in SUBSET S : ~Fits(T)}
<1>1. SUFFICES ASSUME C # {} PROVE FALSE
  BY <1>1
<1>2. PICK T \in C : \A U \in C : U \subseteq T => U = T
  <2>1. C \in SUBSET SUBSET S
    OBVIOUS
  <2> HIDE DEF C
  <2> QED BY <1>1, <2>1, MinimalSubset
<1>3. PICK x \in T : TRUE
  <2>1. NetQty({}) <= 0 /\ NetQty({}) >= 0
    BY NetQtyEmpty
  <2>2. Fits({})
    BY <2>1
  <2> QED BY <1>2, <2>2
<1> DEFINE U == T \ {x}
<1>4. Fits(U) /\ ~Fits(T) /\ U \subseteq T
  BY <1>2, <1>3
<1>5. IsFiniteSet(T) /\ Amounts(T) /\ IsFiniteSet(U) /\ Amounts(U)
  BY <1>2, FS_Subset DEF Amounts
<1>6. NetQty(T) = Amount(x) + NetQty(U) /\ Amount(x) \in Int
  BY <1>3, <1>5, NetQtyRemove DEF Amounts
<1>7. NetQty(U) \in Int
  BY <1>5, NetQtyType
<1> HIDE DEF U
<1> QED BY <1>3, <1>4, <1>6, <1>7

LEMMA NetQtySingle ==
  ASSUME NEW x, Amount(x) \in Int
  PROVE  NetQty({x}) = Amount(x)
<1>1. IsFiniteSet({}) /\ Amounts({}) /\ NetQty({}) = 0 /\ {} \cup {x} = {x}
  BY FS_EmptySet, NetQtyEmpty DEF Amounts
<1>2. NetQty({} \cup {x}) = NetQty({}) + Amount(x)
  BY <1>1, NetQtyAdd
<1> QED BY <1>1, <1>2

-----------------------------------------------------------------------------
(* Tables.                                                                 *)

TradeRow(L) ==
  [leg : L, date : Int, action : Actions, qty : Nat \ {0}, state : States]

\* Finitely many rows of legs in L, no two with the same unique key.
IsTable(T, L) ==
  /\ IsFiniteSet(T) /\ T \subseteq TradeRow(L)
  /\ \A r, s \in T : SameKey(r, s) => r = s

\* The net quantity of a leg in a table.
Held(T, l) == NetQty(RowsOf(T, l))

LEMMA RowAmount ==
  ASSUME NEW L, NEW r \in TradeRow(L)
  PROVE  /\ Amount(r) \in Int
         /\ r.action = "BUY" => Amount(r) = r.qty /\ Amount(r) > 0
         /\ r.action = "SELL" => Amount(r) = -r.qty /\ Amount(r) < 0
         /\ r.action \in {"BUY", "SELL"}
BY DEF TradeRow, Amount, Signed, Actions

\* What NetQty needs to know of some rows of a table.
LEMMA SomeRows ==
  ASSUME NEW T, NEW L, IsTable(T, L), NEW U \in SUBSET T
  PROVE  IsFiniteSet(U) /\ Amounts(U) /\ NetQty(U) \in Int
<1>1. IsFiniteSet(U) /\ Amounts(U)
  BY FS_Subset, RowAmount DEF IsTable, Amounts
<1> QED BY <1>1, NetQtyType

LEMMA HeldType ==
  ASSUME NEW T, NEW L, IsTable(T, L), NEW l
  PROVE  /\ IsFiniteSet(RowsOf(T, l)) /\ Amounts(RowsOf(T, l))
         /\ Held(T, l) \in Int
<1>1. RowsOf(T, l) \in SUBSET T
  BY DEF RowsOf
<1> QED BY <1>1, SomeRows DEF Held

LEMMA EmptyTable ==
  ASSUME NEW L
  PROVE  IsTable({}, L) /\ \A l : Held({}, l) = 0
<1>1. \A l : RowsOf({}, l) = {}
  BY DEF RowsOf
<1> QED BY <1>1, FS_EmptySet, NetQtyEmpty DEF IsTable, Held

\* A leg that is not flat has a row.
LEMMA HeldHasRow ==
  ASSUME NEW T, NEW l, Held(T, l) # 0
  PROVE  \E r \in T : r.leg = l
<1>1. RowsOf(T, l) # {}
  BY NetQtyEmpty DEF Held
<1> QED BY <1>1 DEF RowsOf

\* A leg that is short was sold, and one that is long was bought.
LEMMA HeldHasOpener ==
  ASSUME NEW T, NEW L, IsTable(T, L), NEW l
  PROVE  /\ Held(T, l) < 0 => \E r \in T : r.leg = l /\ r.action = "SELL"
         /\ Held(T, l) > 0 => \E r \in T : r.leg = l /\ r.action = "BUY"
<1>1. \A r \in RowsOf(T, l) :
        /\ r \in T /\ r.leg = l /\ Amount(r) \in Int
        /\ \/ r.action = "BUY" /\ Amount(r) > 0
           \/ r.action = "SELL" /\ Amount(r) < 0
  BY RowAmount DEF IsTable, RowsOf
<1>2. Held(T, l) \in Int
  BY HeldType
<1>3. /\ (\A r \in RowsOf(T, l) : Amount(r) < 0) => Held(T, l) <= 0
      /\ (\A r \in RowsOf(T, l) : Amount(r) > 0) => Held(T, l) >= 0
  BY HeldType, NetQtySign DEF Held
<1> QED BY <1>1, <1>2, <1>3

\* Of several days there is a latest.
LEMMA LatestDay ==
  ASSUME NEW n \in Nat, NEW S \in SUBSET (1 .. n), S # {}
  PROVE  Max(S) \in S /\ \A d \in S : d <= Max(S)
<1> DEFINE N == 1 .. n
           C == {B \in SUBSET N : S \subseteq B /\ \E m \in N : B = 1 .. m}
<1>1. PICK B \in C : \A A \in C : A \subseteq B => A = B
  <2>1. C \in SUBSET SUBSET N /\ C # {}
    <3>1. PICK d \in S : TRUE
      OBVIOUS
    <3>2. n \in 1 .. n
      BY <3>1
    <3>3. 1 .. n \in C
      BY <3>2
    <3> QED BY <3>3
  <2>2. IsFiniteSet(N)
    BY FS_Interval
  <2> HIDE DEF C, N
  <2> QED BY <2>1, <2>2, MinimalSubset
<1>2. PICK m \in 1 .. n : B = 1 .. m
  BY <1>1
<1>3. S \subseteq 1 .. m
  BY <1>1, <1>2
<1>4. m \in S
  <2> SUFFICES ASSUME m \notin S PROVE FALSE
    OBVIOUS
  <2>1. S \subseteq 1 .. (m - 1)
    BY <1>3
  <2>2. PICK d \in S : TRUE
    OBVIOUS
  <2>3. m - 1 \in 1 .. n
    BY <1>3, <2>1, <2>2
  <2>4. 1 .. (m - 1) \in C
    BY <2>1, <2>3
  <2>5. 1 .. (m - 1) \subseteq B /\ m \in B
    BY <1>2
  <2>6. m \notin 1 .. (m - 1)
    OBVIOUS
  <2> QED BY <1>1, <2>4, <2>5, <2>6
<1>5. \A d \in S : m >= d
  BY <1>3
<1>6. Max(S) \in S /\ \A d \in S : Max(S) >= d
  BY <1>4, <1>5 DEF Max
<1> QED BY <1>6

\* Rows of which only the lifecycle state was changed.
Relabels(f, T) ==
  \A r \in T : /\ f[r].leg = r.leg /\ f[r].date = r.date
               /\ f[r].action = r.action /\ f[r].qty = r.qty

\* A change of lifecycle states leaves the table a table and its quantities.
LEMMA RelabelTable ==
  ASSUME NEW T, NEW L, IsTable(T, L), NEW f, Relabels(f, T),
         \A r \in T : f[r] \in TradeRow(L)
  PROVE  /\ IsTable({f[r] : r \in T}, L)
         /\ \A l : Held({f[r] : r \in T}, l) = Held(T, l)
<1> DEFINE N == {f[r] : r \in T}
<1>1. \A r, s \in T : SameKey(f[r], f[s]) => r = s
  BY DEF IsTable, SameKey, Relabels
<1>2. \A r, s \in T : f[r] = f[s] => r = s
  BY <1>1 DEF SameKey
<1>3. \A r \in T : Amount(f[r]) = Amount(r)
  BY DEF Amount, Signed, Relabels
<1>4. IsFiniteSet(N)
  <2>1. T \in SUBSET T /\ IsFiniteSet(T)
    BY DEF IsTable
  <2>2. Amounts(T)
    BY <2>1, SomeRows
  <2> QED BY <1>2, <1>3, <2>1, <2>2, NetQtyRewrite
<1>5. IsTable(N, L)
  BY <1>1, <1>4 DEF IsTable
<1>6. ASSUME NEW l PROVE Held(N, l) = Held(T, l)
  <2>1. RowsOf(N, l) = {f[r] : r \in RowsOf(T, l)}
    BY DEF RowsOf, Relabels
  <2>2. \A r \in RowsOf(T, l) : r \in T
    BY DEF RowsOf
  <2>3. NetQty({f[r] : r \in RowsOf(T, l)}) = NetQty(RowsOf(T, l))
    BY <1>2, <1>3, <2>2, HeldType, NetQtyRewrite
  <2> QED BY <2>1, <2>3 DEF Held
<1> QED BY <1>5, <1>6

-----------------------------------------------------------------------------
(* The store methods.                                                      *)

LEMMA TradeIsRow ==
  ASSUME NEW L, NEW l \in L, NEW d \in Int, NEW a \in Actions, NEW q \in Nat \ {0}
  PROVE  Trade(l, d, a, q) \in TradeRow(L)
BY DEF Trade, TradeRow, States

\* A trade that is not a duplicate moves its own leg by its amount.
LEMMA RecordTradeTable ==
  ASSUME NEW T, NEW L, IsTable(T, L), NEW t \in TradeRow(L), ~Duplicate(T, t)
  PROVE  /\ IsTable(RecordTrade(T, t), L)
         /\ \A l : Held(RecordTrade(T, t), l) =
                     Held(T, l) + IF t.leg = l THEN Amount(t) ELSE 0
<1>1. RecordTrade(T, t) = T \cup {t} /\ t \notin T
  BY DEF RecordTrade, Duplicate, SameKey
<1>2. IsTable(T \cup {t}, L)
  BY FS_AddElement DEF IsTable, Duplicate, SameKey
<1>3. ASSUME NEW l
      PROVE  Held(T \cup {t}, l) =
               Held(T, l) + IF t.leg = l THEN Amount(t) ELSE 0
  <2>1. Held(T, l) \in Int /\ Amount(t) \in Int
    BY HeldType, RowAmount
  <2>2. CASE t.leg = l
    <3>1. RowsOf(T \cup {t}, l) = RowsOf(T, l) \cup {t} /\ t \notin RowsOf(T, l)
      BY <1>1, <2>2 DEF RowsOf
    <3>2. NetQty(RowsOf(T, l) \cup {t}) = NetQty(RowsOf(T, l)) + Amount(t)
      BY <2>1, <3>1, HeldType, NetQtyAdd
    <3> QED BY <2>2, <3>1, <3>2 DEF Held
  <2>3. CASE t.leg # l
    <3>1. RowsOf(T \cup {t}, l) = RowsOf(T, l)
      BY <2>3 DEF RowsOf
    <3> QED BY <2>1, <2>3, <3>1 DEF Held
  <2> QED BY <2>2, <2>3
<1> QED BY <1>1, <1>2, <1>3

\* The trades of a batch that are inserted move their legs by what they add up to.
LEMMA RecordTradesTable ==
  ASSUME NEW T, NEW L, IsTable(T, L), NEW B, IsTable(B, L)
  PROVE  /\ IsTable(RecordTrades(T, B), L)
         /\ \A l : Held(RecordTrades(T, B), l) =
                     Held(T, l) + Held(Inserted(T, B), l)
<1> DEFINE I == Inserted(T, B)
<1>1. /\ I \subseteq B /\ I \cap T = {}
      /\ \A t \in I, r \in T : ~SameKey(r, t) /\ ~SameKey(t, r)
  BY DEF Inserted, Duplicate, SameKey
<1>2. IsTable(I, L)
  BY <1>1, FS_Subset DEF IsTable
<1> HIDE DEF I
<1>3. IsTable(T \cup I, L)
  BY <1>1, <1>2, FS_Union DEF IsTable
<1>4. ASSUME NEW l PROVE Held(T \cup I, l) = Held(T, l) + Held(I, l)
  <2>1. /\ RowsOf(T \cup I, l) = RowsOf(T, l) \cup RowsOf(I, l)
        /\ RowsOf(T, l) \cap RowsOf(I, l) = {}
    BY <1>1 DEF RowsOf
  <2> QED BY <1>2, <2>1, HeldType, NetQtyUnion DEF Held
<1> QED BY <1>3, <1>4 DEF RecordTrades, I

\* One trade of a table is all there is of its leg.
LEMMA HeldOfOne ==
  ASSUME NEW T, NEW L, IsTable(T, L), NEW l,
         NEW t \in T, t.leg = l, \A s \in T : s.leg = l => s = t
  PROVE  Held(T, l) = Amount(t)
<1>1. RowsOf(T, l) = {t}
  BY DEF RowsOf
<1>2. Amount(t) \in Int
  BY RowAmount DEF IsTable
<1> QED BY <1>1, <1>2, NetQtySingle DEF Held

LEMMA HeldOfNone ==
  ASSUME NEW T, NEW l, \A s \in T : s.leg # l
  PROVE  Held(T, l) = 0
<1>1. RowsOf(T, l) = {}
  BY DEF RowsOf
<1> QED BY <1>1, NetQtyEmpty DEF Held

\* The marks change lifecycle states only.
LEMMA MarkTradeClosedTable ==
  ASSUME NEW T, NEW L, IsTable(T, L), NEW leg
  PROVE  /\ IsTable(MarkTradeClosed(T, leg), L)
         /\ \A l : Held(MarkTradeClosed(T, leg), l) = Held(T, l)
<1> DEFINE f == [r \in T |-> IF r.leg = leg /\ r.state \in OpenStates
                               THEN [r EXCEPT !.state = "CLOSED"] ELSE r]
<1>1. {f[r] : r \in T} = MarkTradeClosed(T, leg)
  BY DEF MarkTradeClosed
<1>2. Relabels(f, T) /\ \A r \in T : f[r] \in TradeRow(L)
  BY DEF IsTable, Relabels, TradeRow, States
<1> HIDE DEF f
<1> QED BY <1>1, <1>2, RelabelTable

LEMMA MarkTradeDefendedTable ==
  ASSUME NEW T, NEW L, IsTable(T, L), NEW leg
  PROVE  /\ IsTable(MarkTradeDefended(T, leg), L)
         /\ \A l : Held(MarkTradeDefended(T, leg), l) = Held(T, l)
<1> DEFINE f == [r \in T |-> IF r.leg = leg /\ r.state = "OPEN"
                               THEN [r EXCEPT !.state = "DEFENDED"] ELSE r]
<1>1. {f[r] : r \in T} = MarkTradeDefended(T, leg)
  BY DEF MarkTradeDefended
<1>2. Relabels(f, T) /\ \A r \in T : f[r] \in TradeRow(L)
  BY DEF IsTable, Relabels, TradeRow, States
<1> HIDE DEF f
<1> QED BY <1>1, <1>2, RelabelTable

\* A deleted row takes its amount with it.
LEMMA DeleteTradeTable ==
  ASSUME NEW T, NEW L, IsTable(T, L), NEW t
  PROVE  /\ IsTable(DeleteTrade(T, t), L)
         /\ \A r \in T : SameKey(r, t) =>
              \A l : Held(DeleteTrade(T, t), l) =
                       Held(T, l) - IF r.leg = l THEN Amount(r) ELSE 0
<1>1. IsTable(DeleteTrade(T, t), L)
  BY FS_Subset DEF IsTable, DeleteTrade
<1>2. ASSUME NEW r \in T, SameKey(r, t), NEW l
      PROVE  Held(DeleteTrade(T, t), l) =
               Held(T, l) - IF r.leg = l THEN Amount(r) ELSE 0
  <2>1. DeleteTrade(T, t) = T \ {r}
    BY <1>2 DEF DeleteTrade, IsTable, SameKey
  <2>2. Held(T, l) \in Int /\ Held(T \ {r}, l) \in Int /\ Amount(r) \in Int
    BY <1>1, <2>1, HeldType, RowAmount DEF IsTable
  <2>3. CASE r.leg = l
    <3>1. RowsOf(T \ {r}, l) = RowsOf(T, l) \ {r} /\ r \in RowsOf(T, l)
      BY <2>3 DEF RowsOf
    <3>2. NetQty(RowsOf(T, l)) = Amount(r) + NetQty(RowsOf(T, l) \ {r})
      BY <3>1, HeldType, NetQtyRemove
    <3>3. Held(T, l) = Amount(r) + Held(T \ {r}, l)
      BY <3>1, <3>2 DEF Held
    <3> QED BY <2>1, <2>2, <2>3, <3>3
  <2>4. CASE r.leg # l
    <3>1. RowsOf(T \ {r}, l) = RowsOf(T, l)
      BY <2>4 DEF RowsOf
    <3> QED BY <2>1, <2>2, <2>4, <3>1 DEF Held
  <2> QED BY <2>3, <2>4
<1> QED BY <1>1, <1>2

\* Rows of legs that are all flat add up to nothing.
LEMMA FlatRows ==
  ASSUME NEW T, NEW L, IsTable(T, L), \A l : Held(T, l) = 0
  PROVE  NetQty(T) = 0
<1> DEFINE Flat(R) == \A l : Held(R, l) = 0
           C == {R \in SUBSET T : Flat(R) /\ NetQty(R) # 0}
<1> SUFFICES ASSUME C # {} PROVE FALSE
  OBVIOUS
<1>1. IsFiniteSet(T) /\ C \in SUBSET SUBSET T
  BY DEF IsTable
<1>2. PICK R \in C : \A V \in C : V \subseteq R => V = R
  <2> HIDE DEF C
  <2> QED BY <1>1, MinimalSubset
<1>3. R \in SUBSET T /\ Flat(R) /\ NetQty(R) # 0
  BY <1>2
<1>4. PICK r \in R : TRUE
  BY <1>3, NetQtyEmpty
<1> DEFINE A == RowsOf(R, r.leg)
           B == R \ A
<1>5. /\ A \in SUBSET T /\ B \in SUBSET T /\ A \cap B = {} /\ R = A \cup B
      /\ B # R /\ B \subseteq R
  BY <1>3, <1>4 DEF RowsOf
<1>6. NetQty(A) = 0
  BY <1>3 DEF Held
<1>7. Flat(B)
  <2> SUFFICES ASSUME NEW l PROVE Held(B, l) = 0
    OBVIOUS
  <2>1. CASE l = r.leg
    <3>1. RowsOf(B, l) = {}
      BY <2>1 DEF RowsOf
    <3> QED BY <3>1, NetQtyEmpty DEF Held
  <2>2. CASE l # r.leg
    <3>1. RowsOf(B, l) = RowsOf(R, l)
      BY <2>2 DEF RowsOf
    <3> QED BY <1>3, <3>1 DEF Held
  <2> QED BY <2>1, <2>2
<1> HIDE DEF A, B, Flat
<1>8. NetQty(B) = 0
  BY <1>2, <1>5, <1>7
<1>9. /\ IsFiniteSet(A) /\ Amounts(A) /\ IsFiniteSet(B) /\ Amounts(B)
  BY <1>5, SomeRows
<1>10. NetQty(R) = NetQty(A) + NetQty(B)
  BY <1>5, <1>9, NetQtyUnion
<1> QED BY <1>3, <1>6, <1>8, <1>10

\* Two elements make a finite set.
LEMMA PairIsFinite ==
  ASSUME NEW a, NEW b
  PROVE  IsFiniteSet({a, b})
<1>1. IsFiniteSet({a})
  BY FS_Singleton
<1>2. IsFiniteSet({a} \cup {b})
  BY <1>1, FS_AddElement
<1>3. {a} \cup {b} = {a, b}
  OBVIOUS
<1> QED BY <1>2, <1>3
==============================================================================
