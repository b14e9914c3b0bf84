----------------------------- MODULE BooksProofs -----------------------------
(****************************************************************************)
(* Sums over the tables, and what a transfer does to them.                  *)
(*                                                                          *)
(* SUM is a fold, which takes the rows of a set in some order.  That the    *)
(* order does not matter, and what one row more adds, is shown without      *)
(* induction: a finite set of counterexamples has a smallest one, and       *)
(* taking one row out of that gives a smaller one.  From this follows what  *)
(* the books are proved to be in Posting, in the API and under the stress   *)
(* tool: a transfer and its two legs change a balance and the sum of its    *)
(* entries by the same amount.                                              *)
(****************************************************************************)
EXTENDS Reconcile, FiniteSetTheorems, TLAPS

USE Zenon

(****************************************************************************)
(* Sums                                                                     *)
(****************************************************************************)
(* The element a fold over the set s takes out first.                       *)
Pick(s) == CHOOSE x \in s : TRUE

(* g gives every subset of S the sum of its weights w, taking them in the   *)
(* order of the fold.                                                       *)
Adds(g, w, S) ==
    /\ g \in [SUBSET S -> Int]
    /\ g[{}] = 0
    /\ \A s \in SUBSET S :
          s # {} => g[s] = w[Pick(s)] + g[s \ {Pick(s)}]

(* What Pick takes out of a set was in it.                                  *)
LEMMA PickIn ==
  ASSUME NEW s, s # {}
  PROVE  Pick(s) \in s
  BY Zenon DEF Pick

(* A set of subsets of a finite set has a minimal element.                  *)
LEMMA Minimal ==
  ASSUME NEW S, IsFiniteSet(S), NEW B, B \subseteq SUBSET S, B # {}
  PROVE  \E T \in B : \A U \in B : U \subseteq T => U = T
  <1>1. IsWellFoundedOn(StrictSubsetOrdering(S), SUBSET S)
    BY FS_StrictSubsetOrderingWellFounded, FS_FiniteSubsetsOfFinite
  <1>2. PICK T \in B : \A U \in B : <<U, T>> \notin StrictSubsetOrdering(S)
    BY <1>1, WFMin
  <1>3. \A U \in B : U \subseteq T => U = T
    BY <1>2 DEF StrictSubsetOrdering
  <1> QED BY <1>3

(* The weights w and v agree on Q.                                          *)
Agree(w, v, Q) == \A x \in Q : w[x] = v[x]

(* Two sums agree on a set on which their weights do.                       *)
LEMMA SumsAgree ==
  ASSUME NEW S, NEW R, NEW Q \in SUBSET S, Q \in SUBSET R, IsFiniteSet(Q),
         NEW g, NEW h, NEW w, NEW v, Adds(g, w, S), Adds(h, v, R),
         Agree(w, v, Q)
  PROVE  g[Q] = h[Q]
  <1> DEFINE B == { s \in SUBSET Q : g[s] # h[s] }
  <1>1. SUFFICES ASSUME B # {} PROVE FALSE
    OBVIOUS
  <1>2. PICK T \in B : \A U \in B : U \subseteq T => U = T
    <2> HIDE DEF B
    <2>1. B \subseteq SUBSET Q
      BY DEF B
    <2> QED BY <1>1, <2>1, Minimal, SMT
  <1>3. T # {}
    BY <1>2 DEF Adds
  <1> DEFINE p == Pick(T)
  <1>4. p \in T
    BY <1>3, PickIn
  <1>5. g[T \ {p}] = h[T \ {p}]
    BY <1>2, <1>4, SMT
  <1>6. g[T] = w[p] + g[T \ {p}] /\ h[T] = v[p] + h[T \ {p}]
    BY <1>2, <1>3 DEF Adds
  <1> QED BY <1>2, <1>4, <1>5, <1>6 DEF Agree

(* The sum over a part of S is the same in S and by itself.                 *)
LEMMA PartSum ==
  ASSUME NEW S, NEW Q \in SUBSET S, IsFiniteSet(Q), NEW g, NEW h, NEW w,
         Adds(g, w, S), Adds(h, w, Q)
  PROVE  g[Q] = h[Q]
  <1>1. Q \in SUBSET Q /\ Agree(w, w, Q)
    BY DEF Agree
  <1> QED BY <1>1, SumsAgree, SMT

(* Whatever the weights, there is such a sum.                               *)
LEMMA SumExists ==
  ASSUME NEW S, IsFiniteSet(S), NEW w, \A x \in S : w[x] \in Int
  PROVE  \E g : Adds(g, w, S)
  <1> DEFINE B == { s \in SUBSET S : ~\E g : Adds(g, w, s) }
  <1>1. SUFFICES ASSUME B # {} PROVE FALSE
    OBVIOUS
  <1>2. PICK T \in B : \A U \in B : U \subseteq T => U = T
    <2> HIDE DEF B
    <2>1. B \subseteq SUBSET S
      BY DEF B
    <2> QED BY <1>1, <2>1, Minimal, SMT
  <1>3. \A U \in SUBSET T : U # T => \E g : Adds(g, w, U)
    BY <1>2
  <1> DEFINE G(U) == CHOOSE g : Adds(g, w, U)
             Rest(U) == U \ {Pick(U)}
             V(U) == IF U = {} THEN 0 ELSE w[Pick(U)] + G(Rest(U))[Rest(U)]
             h == [U \in SUBSET T |-> V(U)]
  <1>4. \A U \in SUBSET T : U # T => Adds(G(U), w, U)
    BY <1>3, Zenon
  <1>5. \A U \in SUBSET T : U # {} =>
            /\ Pick(U) \in U
            /\ Rest(U) \in SUBSET T /\ Rest(U) # T
            /\ Rest(U) # U
    BY PickIn
  <1>6. \A U \in SUBSET T : U # {} => G(Rest(U))[Rest(U)] \in Int
    <2> TAKE U \in SUBSET T
    <2> HAVE U # {}
    <2>1. Adds(G(Rest(U)), w, Rest(U))
      BY <1>4, <1>5
    <2> HIDE DEF G, Rest
    <2> QED BY <2>1 DEF Adds
  <1>7. \A U \in SUBSET T : V(U) \in Int
    <2> TAKE U \in SUBSET T
    <2>1. U # {} => w[Pick(U)] \in Int
      BY <1>5
    <2> HIDE DEF G, Rest
    <2> QED BY <2>1, <1>6, SMT
  <1>8. \A U \in SUBSET T : U # T => G(U)[U] = V(U)
    <2> SUFFICES ASSUME NEW U \in SUBSET T, U # T PROVE G(U)[U] = V(U)
      OBVIOUS
    <2>1. Adds(G(U), w, U)
      BY <1>4
    <2>2. CASE U = {}
      <3> HIDE DEF G, Rest
      <3> QED BY <2>1, <2>2 DEF Adds
    <2>3. CASE U # {}
      <3>1. Adds(G(Rest(U)), w, Rest(U))
        BY <1>4, <1>5, <2>3, Zenon
      <3>2. IsFiniteSet(Rest(U))
        BY FS_Subset, <1>2
      <3>3. Rest(U) \subseteq U
        OBVIOUS
      <3>4. G(U)[Rest(U)] = G(Rest(U))[Rest(U)]
        <4> DEFINE k == G(U)
                   l == G(Rest(U))
                   Q == Rest(U)
        <4>2. Adds(k, w, U) /\ Adds(l, w, Q) /\ Q \in SUBSET U /\ IsFiniteSet(Q)
          BY <2>1, <3>1, <3>2, <3>3
        <4> HIDE DEF k, l, Q
        <4>3. k[Q] = l[Q]
          BY <4>2, PartSum, ZenonT(40)
        <4> QED BY <4>3 DEF k, l, Q
      <3>5. G(U)[U] = w[Pick(U)] + G(U)[Rest(U)]
        <4> HIDE DEF G
        <4> QED BY <2>1, <2>3 DEF Adds
      <3> HIDE DEF G, Rest
      <3> QED BY <2>3, <3>4, <3>5
    <2> QED BY <2>2, <2>3
  <1>9. Adds(h, w, T)
    <2>1. h \in [SUBSET T -> Int]
      <3> HIDE DEF V
      <3> QED BY <1>7
    <2>2. h[{}] = 0
      OBVIOUS
    <2>3. \A s \in SUBSET T : s # {} => h[s] = w[Pick(s)] + h[Rest(s)]
      <3> TAKE s \in SUBSET T
      <3> HAVE s # {}
      <3>1. Rest(s) \in SUBSET T /\ Rest(s) # T
        BY <1>5
      <3>2. G(Rest(s))[Rest(s)] = V(Rest(s))
        <4> HIDE DEF G, Rest, V
        <4> QED BY <1>8, <3>1
      <3>3. h[Rest(s)] = V(Rest(s))
        <4> HIDE DEF V, Rest
        <4> QED BY <3>1
      <3>4. h[s] = w[Pick(s)] + G(Rest(s))[Rest(s)]
        <4> HIDE DEF G, Rest
        <4> QED OBVIOUS
      <3> HIDE DEF h, G, Rest, V
      <3> QED BY <3>2, <3>3, <3>4
    <2> HIDE DEF h
    <2> QED BY <2>1, <2>2, <2>3 DEF Adds
  <1> QED
    <2> HIDE DEF h
    <2> QED BY <1>2, <1>9

(* Any element may be taken out first.                                      *)
LEMMA TakeOut ==
  ASSUME NEW S, IsFiniteSet(S), NEW w, \A x \in S : w[x] \in Int,
         NEW g, Adds(g, w, S), NEW y \in S
  PROVE  g[S] = w[y] + g[S \ {y}]
  <1> DEFINE Odd(s, x) == g[s] # w[x] + g[s \ {x}]
             B == { s \in SUBSET S : \E x \in s : Odd(s, x) }
  <1>1. SUFFICES ASSUME B # {} PROVE FALSE
    OBVIOUS
  <1>2. PICK T \in B : \A U \in B : U \subseteq T => U = T
    <2> HIDE DEF B
    <2>1. B \subseteq SUBSET S
      BY DEF B
    <2> QED BY <1>1, <2>1, Minimal, SMT
  <1>3. PICK x \in T : Odd(T, x)
    BY <1>2
  <1>4. \A U \in SUBSET T : U # T => \A z \in U : ~Odd(U, z)
    BY <1>2
  <1> DEFINE p == Pick(T)
  <1>5. T \in SUBSET S /\ p \in T
    BY <1>2, PickIn
  <1>6. g[T] = w[p] + g[T \ {p}]
    BY <1>5 DEF Adds
  <1>7. p # x
    BY <1>3, <1>6
  <1>8. g[T \ {p}] = w[x] + g[(T \ {p}) \ {x}]
    BY <1>4, <1>5, <1>7
  <1>9. g[T \ {x}] = w[p] + g[(T \ {p}) \ {x}]
    <2>1. g[T \ {x}] = w[p] + g[(T \ {x}) \ {p}]
      BY <1>4, <1>5, <1>7
    <2>2. (T \ {p}) \ {x} = (T \ {x}) \ {p}
      OBVIOUS
    <2> QED BY <2>1, <2>2
  <1>10. /\ w[p] \in Int /\ w[x] \in Int
         /\ g[(T \ {p}) \ {x}] \in Int
    BY <1>5 DEF Adds
  <1>11. w[p] + g[T \ {p}] = w[x] + g[T \ {x}]
    <2> DEFINE m == g[(T \ {p}) \ {x}]
    <2> HIDE DEF p, m
    <2>1. g[T \ {p}] = w[x] + m /\ g[T \ {x}] = w[p] + m /\ m \in Int
      BY <1>8, <1>9, <1>10 DEF m
    <2> QED BY <2>1, <1>10, SMT
  <1> QED
    <2> HIDE DEF p
    <2> QED BY <1>3, <1>6, <1>11

(* A fold with + computes such a sum.                                       *)
LEMMA FoldAdds ==
  ASSUME NEW S, IsFiniteSet(S), NEW w, \A x \in S : w[x] \in Int, NEW g,
         g = [s \in SUBSET S |-> IF s = {} THEN 0
                                 ELSE w[Pick(s)] + g[s \ {Pick(s)}]]
  PROVE  Adds(g, w, S)
  <1>1. \A s \in SUBSET S : g[s] = IF s = {} THEN 0
                                   ELSE w[Pick(s)] + g[s \ {Pick(s)}]
    BY Zenon
  <1>2. DOMAIN g = SUBSET S
    BY Zenon
  <1> DEFINE B == { s \in SUBSET S : g[s] \notin Int }
  <1>3. B = {}
    <2>1. SUFFICES ASSUME B # {} PROVE FALSE
      OBVIOUS
    <2>2. PICK T \in B : \A U \in B : U \subseteq T => U = T
      <3> HIDE DEF B
      <3>1. B \subseteq SUBSET S
        BY DEF B
      <3> QED BY <2>1, <3>1, Minimal, SMT
    <2>3. T \in SUBSET S /\ g[T] \notin Int /\ T # {}
      BY <1>1, <2>2, SMT
    <2>4. Pick(T) \in T
      BY <2>3, PickIn
    <2>5. g[T \ {Pick(T)}] \in Int
      <3>1. T \ {Pick(T)} \in SUBSET S /\ T \ {Pick(T)} # T
        BY <2>3, <2>4
      <3> QED BY <2>2, <3>1
    <2>6. g[T] = w[Pick(T)] + g[T \ {Pick(T)}] /\ w[Pick(T)] \in Int
      BY <1>1, <2>3, <2>4
    <2> QED BY <2>3, <2>5, <2>6, SMT
  <1>4. g \in [SUBSET S -> Int]
    <2>1. \A s \in SUBSET S : g[s] \in Int
      BY <1>3
    <2>2. g = [s \in SUBSET S |-> g[s]]
      BY Zenon
    <2> QED BY <2>1, <2>2
  <1> QED BY <1>1, <1>4 DEF Adds

(* The sum of the weights w of the members of S.                            *)
TotalOf(w, S) == (CHOOSE g : Adds(g, w, S))[S]

(* TotalOf is what any such g computes.                                     *)
LEMMA TotalIs ==
  ASSUME NEW S, IsFiniteSet(S), NEW w, \A x \in S : w[x] \in Int, NEW g,
         Adds(g, w, S)
  PROVE  TotalOf(w, S) = g[S]
  <1> DEFINE h == CHOOSE f : Adds(f, w, S)
  <1>1. Adds(h, w, S)
    BY Zenon
  <1> HIDE DEF h
  <1>2. h[S] = g[S]
    <2>1. S \in SUBSET S
      OBVIOUS
    <2> QED BY <1>1, <2>1, PartSum
  <1> QED BY <1>2 DEF TotalOf, h

(* A total of integers is an integer.                                       *)
LEMMA TotalInt ==
  ASSUME NEW S, IsFiniteSet(S), NEW w, \A x \in S : w[x] \in Int
  PROVE  TotalOf(w, S) \in Int
  <1>1. PICK g : Adds(g, w, S)
    BY SumExists
  <1>2. g[S] \in Int
    BY <1>1 DEF Adds
  <1> QED BY <1>1, <1>2, TotalIs

(* Nothing adds up to zero.                                                 *)
LEMMA TotalEmpty ==
  ASSUME NEW w
  PROVE  TotalOf(w, {}) = 0
  <1>1. IsFiniteSet({}) /\ \A x \in {} : w[x] \in Int
    BY FS_EmptySet
  <1>2. PICK g : Adds(g, w, {})
    BY <1>1, SumExists
  <1>3. g[{}] = 0
    BY <1>2 DEF Adds
  <1> QED BY <1>1, <1>2, <1>3, TotalIs

(* The total depends on the weights of the members only.                    *)
LEMMA TotalAgrees ==
  ASSUME NEW S, IsFiniteSet(S), NEW w, NEW v, \A x \in S : w[x] \in Int,
         Agree(w, v, S)
  PROVE  TotalOf(w, S) = TotalOf(v, S)
  <1>1. PICK g : Adds(g, w, S)
    BY SumExists
  <1>2. PICK h : Adds(h, v, S)
    <2>1. \A x \in S : v[x] \in Int
      BY DEF Agree
    <2> QED BY <2>1, SumExists
  <1>3. g[S] = h[S]
    <2>1. S \in SUBSET S
      OBVIOUS
    <2> QED BY <1>1, <1>2, <2>1, SumsAgree, SMT
  <1>4. TotalOf(w, S) = g[S]
    BY <1>1, TotalIs
  <1>5. TotalOf(v, S) = h[S]
    BY <1>2, TotalIs DEF Agree
  <1> QED BY <1>3, <1>4, <1>5

(* One more member adds its weight.                                         *)
LEMMA TotalOneMore ==
  ASSUME NEW S, IsFiniteSet(S), NEW w, \A x \in S : w[x] \in Int,
         NEW y, y \notin S, w[y] \in Int
  PROVE  TotalOf(w, S \cup {y}) = w[y] + TotalOf(w, S)
  <1> DEFINE R == S \cup {y}
  <1>1. IsFiniteSet(R) /\ (\A x \in R : w[x] \in Int) /\ y \in R
    BY FS_AddElement
  <1>2. PICK g : Adds(g, w, R)
    BY <1>1, SumExists
  <1>3. g[R] = w[y] + g[R \ {y}]
    <2> HIDE DEF R
    <2> QED BY <1>1, <1>2, TakeOut, SMT
  <1>4. R \ {y} = S
    OBVIOUS
  <1>5. PICK h : Adds(h, w, S)
    BY SumExists
  <1>6. g[S] = h[S]
    <2>1. S \in SUBSET R
      OBVIOUS
    <2> HIDE DEF R
    <2> QED BY <2>1, <1>2, <1>5, PartSum, SMT
  <1>7. TotalOf(w, R) = g[R]
    <2> HIDE DEF R
    <2> QED BY <1>1, <1>2, TotalIs
  <1>8. TotalOf(w, S) = h[S]
    BY <1>5, TotalIs
  <1> QED BY <1>3, <1>4, <1>6, <1>7, <1>8

(* A non-empty set of naturals up to n has a largest element.               *)
LEMMA Largest ==
  ASSUME NEW n \in Nat, NEW T, T \subseteq 0 .. n, T # {}
  PROVE  \E x \in T : \A y \in T : ~(x < y)
  <1> DEFINE U == { n - t : t \in T }
  <1>1. U \subseteq Nat /\ U # {}
    <2>1. PICK t \in T : TRUE
      BY Zenon
    <2>2. n - t \in U
      BY <2>1
    <2>3. \A s \in T : n - s \in Nat
      BY SMT
    <2> QED BY <2>2, <2>3
  <1>2. PICK u \in U : \A v \in U : <<v, u>> \notin OpToRel(<, Nat)
    <2>1. IsWellFoundedOn(OpToRel(<, Nat), Nat)
      BY NatLessThanWellFounded
    <2> HIDE DEF U
    <2> QED BY <1>1, <2>1, WFMin
  <1>3. \A v \in U : ~(v < u)
    BY <1>1, <1>2, Zenon DEF OpToRel
  <1>4. PICK x \in T : u = n - x
    OBVIOUS
  <1>5. \A y \in T : ~(x < y)
    <2> TAKE y \in T
    <2>1. n - y \in U
      OBVIOUS
    <2> QED BY <2>1, <1>3, <1>4, SMT
  <1> QED BY <1>5

(****************************************************************************)
(* SUM(amount_minor) and SUM(balance_minor)                                 *)
(****************************************************************************)
(* There is a sum of the amounts of S.                                      *)
Summable(S) == IsFiniteSet(S) /\ \A e \in S : e.amount \in Int

(* SumOf, the SUM(amount_minor) of the queries, is the total of the         *)
(* amounts.                                                                 *)
LEMMA SumOfIsTotal ==
  ASSUME NEW S, Summable(S)
  PROVE  SumOf(S) = TotalOf([e \in S |-> e.amount], S)
  <1> DEFINE w == [e \in S |-> e.amount]
             F(g) == [s \in SUBSET S |-> IF s = {} THEN 0
                              ELSE Pick(s).amount + g[s \ {Pick(s)}]]
             G(g) == [s \in SUBSET S |-> IF s = {} THEN 0
                              ELSE w[Pick(s)] + g[s \ {Pick(s)}]]
             it == CHOOSE g : g = F(g)
  <1>1. SumOf(S) = it[S]
    BY DEF SumOf, MapThenSumSet, MapThenFoldSet, Pick
  <1>2. \A g : F(g) = G(g)
    <2> TAKE g
    <2>1. \A s \in SUBSET S : s # {} => Pick(s).amount = w[Pick(s)]
      BY PickIn
    <2> QED BY <2>1
  <1>3. PICK h : Adds(h, w, S)
    BY SumExists DEF Summable
  <1>4. h = G(h)
    <2>1. \A s \in SUBSET S : h[s] = G(h)[s]
      <3> HIDE DEF w
      <3> QED BY <1>3 DEF Adds
    <2>2. h = [s \in SUBSET S |-> h[s]]
      BY <1>3 DEF Adds
    <2> QED BY <2>1, <2>2
  <1>5. it = F(it)
    <2>1. h = F(h)
      BY <1>2, <1>4
    <2> HIDE DEF F
    <2> QED BY <2>1, Zenon
  <1>6. it = G(it)
    <2> HIDE DEF F, G, it
    <2> QED BY <1>2, <1>5
  <1>7. Adds(it, w, S)
    <2>1. \A x \in S : w[x] \in Int
      BY DEF Summable
    <2> HIDE DEF it, w
    <2> QED BY <1>6, <2>1, FoldAdds DEF Summable
  <1> HIDE DEF it
  <1> QED BY <1>1, <1>7, TotalIs DEF Summable

(* COALESCE(SUM(...), 0) over no rows.                                      *)
LEMMA SumOfEmpty == SumOf({}) = 0
  <1>1. Summable({})
    BY FS_EmptySet DEF Summable
  <1> QED BY <1>1, SumOfIsTotal, TotalEmpty

(* A sum of amounts is an integer.                                          *)
LEMMA SumOfInt ==
  ASSUME NEW S, Summable(S)
  PROVE  SumOf(S) \in Int
  <1> DEFINE w == [e \in S |-> e.amount]
  <1>1. \A x \in S : w[x] \in Int
    BY DEF Summable
  <1> HIDE DEF w
  <1>2. TotalOf(w, S) \in Int
    BY <1>1, TotalInt DEF Summable
  <1> QED BY <1>2, SumOfIsTotal DEF w

(* One row more adds its amount.                                            *)
LEMMA SumOfOneMore ==
  ASSUME NEW S, Summable(S), NEW y, y \notin S, y.amount \in Int
  PROVE  /\ Summable(S \cup {y})
         /\ SumOf(S \cup {y}) = SumOf(S) + y.amount
  <1> DEFINE R == S \cup {y}
             w == [e \in R |-> e.amount]
             v == [e \in S |-> e.amount]
  <1>1. Summable(R)
    BY FS_AddElement DEF Summable
  <1>2. SumOf(R) = TotalOf(w, R) /\ SumOf(S) = TotalOf(v, S)
    BY <1>1, SumOfIsTotal
  <1>3. w[y] = y.amount /\ (\A x \in S : w[x] \in Int) /\ Agree(w, v, S)
    BY DEF Agree, Summable
  <1>4. TotalOf(w, S) \in Int /\ TotalOf(w, S) = TotalOf(v, S)
    <2> HIDE DEF w, v
    <2> QED BY <1>3, TotalAgrees, TotalInt DEF Summable
  <1>5. TotalOf(w, R) = w[y] + TotalOf(w, S)
    <2> HIDE DEF w
    <2> QED BY <1>3, TotalOneMore DEF Summable
  <1> HIDE DEF w, v
  <1> QED BY <1>1, <1>2, <1>3, <1>4, <1>5, SMT

(****************************************************************************)
(* A transfer and the books                                                 *)
(****************************************************************************)
DebitLeg(id, m)  == [transfer |-> id, account |-> m.src, amount |-> -m.amount,
                  currency |-> m.currency]
CreditLeg(id, m) == [transfer |-> id, account |-> m.dst, amount |-> m.amount,
                  currency |-> m.currency]

(* The accounts rows after the transfer m.                                  *)
AfterMove(A, m) == [A EXCEPT ![m.src] = Moved(@, -m.amount),
                             ![m.dst] = Moved(@, m.amount)]

(* What the transfer m adds to account a.                                   *)
Effect(m, a) == IF a = m.src THEN -m.amount
                ELSE IF a = m.dst THEN m.amount ELSE 0

Rows == [Accounts -> Row \cup {NoRow}]

(* The transfer m can be made on the rows A.                                *)
Possible(A, m) ==
    /\ m.amount \in Int /\ m.amount > 0
    /\ m.src # m.dst
    /\ m.src \in Present(A) /\ m.dst \in Present(A)
    /\ A[m.src].balance >= m.amount
    /\ A[m.dst].balance + m.amount <= MaxBalance

(* A possible transfer moves its amount and touches no third row.           *)
LEMMA MoveFacts ==
  ASSUME NEW A \in Rows, NEW m, Possible(A, m)
  PROVE  /\ AfterMove(A, m) \in Rows
         /\ Present(AfterMove(A, m)) = Present(A)
         /\ \A a \in Present(A) :
               AfterMove(A, m)[a].balance = A[a].balance + Effect(m, a)
         /\ \A a \in Present(A) : A[a].balance \in Int
  <1> DEFINE N == AfterMove(A, m)
  <1>1. \A a \in Present(A) : A[a] \in Row /\ A[a].balance \in 0 .. MaxBalance
    BY DEF Rows, Present, Row
  <1>2. m.src \in Accounts /\ m.dst \in Accounts
    BY DEF Possible, Present
  <1>3. /\ N[m.src] = Moved(A[m.src], -m.amount)
        /\ N[m.dst] = Moved(A[m.dst], m.amount)
        /\ \A a \in Accounts \ {m.src, m.dst} : N[a] = A[a]
    BY <1>2 DEF AfterMove, Rows, Possible
  <1>4. N[m.src] \in Row /\ N[m.dst] \in Row
    BY <1>1, <1>3, BoundsAssumption, SMT DEF Moved, Row, Possible
  <1>5. N \in Rows
    <2>1. N = [a \in Accounts |-> N[a]]
      BY DEF AfterMove, Rows
    <2>2. \A a \in Accounts : N[a] \in Row \cup {NoRow}
      BY <1>3, <1>4 DEF Rows
    <2> HIDE DEF N
    <2> QED BY <2>1, <2>2 DEF Rows
  <1>6. Present(N) = Present(A)
    <2>1. \A a \in Accounts : N[a] = NoRow <=> A[a] = NoRow
      BY <1>3, <1>4, NullsAssumption DEF Possible, Present
    <2> HIDE DEF N
    <2> QED BY <2>1 DEF Present
  <1>7. \A a \in Present(A) :
           N[a].balance = A[a].balance + Effect(m, a)
    <2>1. Present(A) \subseteq Accounts
      BY DEF Present
    <2> HIDE DEF N
    <2> QED BY <2>1, <1>1, <1>2, <1>3, SMT DEF Moved, Possible, Effect
  <1> QED BY <1>1, <1>5, <1>6, <1>7, SMT

(* The two legs are two rows, and they sum to zero.                         *)
LEMMA LegsFacts ==
  ASSUME NEW id, NEW m, m.src # m.dst, m.amount \in Int
  PROVE  /\ Legs(id, m) = {DebitLeg(id, m), CreditLeg(id, m)}
         /\ DebitLeg(id, m) # CreditLeg(id, m)
         /\ Summable(Legs(id, m))
         /\ Cardinality(Legs(id, m)) = 2
         /\ SumOf(Legs(id, m)) = 0
  <1> DEFINE d == DebitLeg(id, m)
             c == CreditLeg(id, m)
  <1>1. Legs(id, m) = {d, c} /\ d # c /\ d.amount = -m.amount
           /\ c.amount = m.amount
    BY DEF Legs, DebitLeg, CreditLeg
  <1> HIDE DEF d, c
  <1>2. Summable({}) /\ SumOf({}) = 0
    BY FS_EmptySet, SumOfEmpty DEF Summable
  <1>3. Summable({} \cup {d}) /\ SumOf({} \cup {d}) = d.amount
    BY <1>1, <1>2, SumOfOneMore, SMT
  <1>4. {} \cup {d} = {d}
    OBVIOUS
  <1>5. Summable({d} \cup {c}) /\ SumOf({d} \cup {c}) = d.amount + c.amount
    BY <1>1, <1>3, <1>4, SumOfOneMore
  <1>6. {d} \cup {c} = {d, c}
    OBVIOUS
  <1>7. Cardinality({d, c}) = 2
    <2>1. IsFiniteSet({d}) /\ Cardinality({d}) = 1
      BY FS_Singleton
    <2>2. c \notin {d}
      BY <1>1
    <2>3. Cardinality({d} \cup {c}) = Cardinality({d}) + 1
      BY <2>1, <2>2, FS_AddElement
    <2> QED BY <2>1, <2>3, <1>6, SMT
  <1>8. d.amount + c.amount = 0
    BY <1>1, SMT
  <1> QED BY <1>1, <1>5, <1>6, <1>7, <1>8 DEF d, c

(* No entry of E is of the transfer id.                                     *)
NewID(id, E) == \A e \in E : e.transfer # id

(* Both legs are new rows of E: its sum does not change, and the sum of an  *)
(* account changes by what its balance changes.                             *)
LEMMA LegsAdd ==
  ASSUME NEW E, Summable(E), NEW id, NewID(id, E),
         NEW m, m.src # m.dst, m.amount \in Int
  PROVE  /\ Summable(E \cup Legs(id, m))
         /\ SumOf(E \cup Legs(id, m)) = SumOf(E)
         /\ \A a : /\ LedgerMinor(E, a) \in Int
                   /\ LedgerMinor(E \cup Legs(id, m), a) =
                         LedgerMinor(E, a) + Effect(m, a)
  <1> DEFINE d == DebitLeg(id, m)
             c == CreditLeg(id, m)
             Of(a) == { e \in E : e.account = a }
             N == E \cup Legs(id, m)
  <1>1. /\ Legs(id, m) = {d, c} /\ d # c
        /\ d.amount = -m.amount /\ c.amount = m.amount
        /\ d.account = m.src /\ c.account = m.dst
        /\ d \notin E /\ c \notin E
    BY LegsFacts DEF DebitLeg, CreditLeg, NewID
  <1> HIDE DEF d, c
  <1>2. Summable(E \cup {d}) /\ SumOf(E \cup {d}) = SumOf(E) + d.amount
    BY <1>1, SumOfOneMore, SMT
  <1>3. /\ Summable((E \cup {d}) \cup {c})
        /\ SumOf((E \cup {d}) \cup {c}) = SumOf(E \cup {d}) + c.amount
    BY <1>1, <1>2, SumOfOneMore
  <1>4. N = (E \cup {d}) \cup {c}
    BY <1>1
  <1>5. SumOf(E) \in Int
    BY SumOfInt
  <1>6. Summable(N) /\ SumOf(N) = SumOf(E)
    <2> HIDE DEF N
    <2> QED BY <1>1, <1>2, <1>3, <1>4, <1>5, SMT
  <1>7. \A a : Summable(Of(a)) /\ SumOf(Of(a)) \in Int
    <2> TAKE a
    <2>1. Of(a) \in SUBSET E
      OBVIOUS
    <2>2. Summable(Of(a))
      <3> HIDE DEF Of
      <3> QED BY <2>1, FS_Subset DEF Summable
    <2> HIDE DEF Of
    <2> QED BY <2>2, SumOfInt
  <1>8. \A a : { e \in N : e.account = a } =
                   IF a = m.src THEN Of(a) \cup {d}
                   ELSE IF a = m.dst THEN Of(a) \cup {c} ELSE Of(a)
    BY <1>1, <1>4
  <1>9. \A a : d \notin Of(a) /\ c \notin Of(a)
    BY <1>1
  <1>10. \A a : LedgerMinor(N, a) = SumOf(Of(a)) + Effect(m, a)
    <2> TAKE a
    <2>1. LedgerMinor(N, a) = SumOf(IF a = m.src THEN Of(a) \cup {d}
                   ELSE IF a = m.dst THEN Of(a) \cup {c} ELSE Of(a))
      <3> HIDE DEF Of, N
      <3> QED BY <1>8 DEF LedgerMinor
    <2>2. /\ SumOf(Of(a) \cup {d}) = SumOf(Of(a)) + d.amount
          /\ SumOf(Of(a) \cup {c}) = SumOf(Of(a)) + c.amount
      <3>1. Summable(Of(a)) /\ d \notin Of(a) /\ c \notin Of(a)
        BY <1>7, <1>9
      <3> HIDE DEF Of
      <3> QED BY <3>1, <1>1, SumOfOneMore, SMT
    <2> HIDE DEF Of, N
    <2> QED BY <1>1, <1>7, <2>1, <2>2, SMT DEF Effect
  <1> HIDE DEF N
  <1> QED BY <1>6, <1>7, <1>10 DEF N, LedgerMinor

(* The books reconcile with the baseline B, and every entry is of an        *)
(* account that exists.                                                     *)
Reconciled(A, E, B) ==
    /\ Summable(E)
    /\ \A e \in E : e.account \in Present(A)
    /\ \A a \in Accounts \ Present(A) : B[a] = 0
    /\ findBalanceMismatches(A, E, B) = {}

(* A transfer keeps the books reconciled.                                   *)
LEMMA TransferReconciles ==
  ASSUME NEW A \in Rows, NEW B \in [Accounts -> Int], NEW E,
         Reconciled(A, E, B), NEW m, Possible(A, m), NEW id, NewID(id, E)
  PROVE  Reconciled(AfterMove(A, m), E \cup Legs(id, m), B)
  <1> DEFINE N == AfterMove(A, m)
             F == E \cup Legs(id, m)
  <1>1. /\ Present(N) = Present(A)
        /\ \A a \in Present(A) :
              /\ A[a].balance \in Int
              /\ N[a].balance = A[a].balance + Effect(m, a)
    BY MoveFacts
  <1>2. m.src # m.dst /\ m.amount \in Int
          /\ m.src \in Present(A) /\ m.dst \in Present(A)
    BY DEF Possible
  <1>3. Summable(E)
    BY DEF Reconciled
  <1>4. /\ Summable(F)
        /\ \A a : /\ LedgerMinor(E, a) \in Int
                  /\ LedgerMinor(F, a) = LedgerMinor(E, a) + Effect(m, a)
    BY <1>2, <1>3, LegsAdd, SMT
  <1>5. \A e \in F : e.account \in Present(A)
    BY <1>2, SMT DEF Reconciled, Legs
  <1>6. \A a \in Present(A) : A[a].balance = B[a] + LedgerMinor(E, a)
    BY DEF Reconciled, findBalanceMismatches
  <1>7. \A a \in Present(A) : B[a] \in Int
    BY DEF Present
  <1> HIDE DEF N, F
  <1>8. \A a \in Present(A) : N[a].balance = B[a] + LedgerMinor(F, a)
    <2>1. \A a : Effect(m, a) \in Int
      BY <1>2, SMT DEF Effect
    <2> QED BY <1>1, <1>4, <1>6, <1>7, <2>1, SMT
  <1>9. findBalanceMismatches(N, F, B) = {}
    BY <1>1, <1>8 DEF findBalanceMismatches
  <1>10. Reconciled(N, F, B)
    BY <1>1, <1>4, <1>5, <1>9 DEF Reconciled
  <1> QED BY <1>10 DEF N, F

(* So does a new account, which starts empty.                               *)
LEMMA AccountReconciles ==
  ASSUME NEW A \in Rows, NEW B \in [Accounts -> Int], NEW E,
         Reconciled(A, E, B), NEW a \in Accounts, A[a] = NoRow,
         NEW cur \in Currencies
  PROVE  Reconciled([A EXCEPT ![a] = [currency |-> cur, balance |-> 0]], E, B)
  <1> DEFINE r == [currency |-> cur, balance |-> 0]
             N == [A EXCEPT ![a] = r]
  <1>1. r \in Row /\ r # NoRow /\ r.balance = 0
    BY BoundsAssumption, NullsAssumption, SMT DEF Row
  <1>2. /\ N[a] = r /\ \A b \in Accounts \ {a} : N[b] = A[b]
        /\ a \notin Present(A)
    BY DEF Rows, Present
  <1> HIDE DEF r, N
  <1>3. Present(N) = Present(A) \cup {a}
    BY <1>1, <1>2 DEF Present
  <1>4. { e \in E : e.account = a } = {}
    BY <1>2 DEF Reconciled
  <1>5. LedgerMinor(E, a) = 0 /\ B[a] = 0
    BY <1>2, <1>4, SumOfEmpty DEF LedgerMinor, Reconciled
  <1>6. \A b \in Present(N) : N[b].balance = B[b] + LedgerMinor(E, b)
    <2>1. \A b \in Present(A) : A[b].balance = B[b] + LedgerMinor(E, b)
      BY DEF Reconciled, findBalanceMismatches
    <2>2. Present(A) \subseteq Accounts \ {a}
      BY <1>2 DEF Present
    <2> QED BY <2>1, <2>2, <1>1, <1>2, <1>3, <1>5, SMT
  <1>7. findBalanceMismatches(N, E, B) = {}
    BY <1>6 DEF findBalanceMismatches
  <1>8. Reconciled(N, E, B)
    BY <1>3, <1>7 DEF Reconciled
  <1> QED BY <1>8 DEF N, r

(****************************************************************************)
(* The money in the accounts                                                *)
(****************************************************************************)
(* There are finitely many accounts.                                        *)
LEMMA FiniteAccounts == \A A : IsFiniteSet(Present(A))
  <1>1. IsFiniteSet(1 .. MaxAccountID)
    BY AccountsAssumption, FS_Interval, SMT
  <1>2. \A A : Present(A) \in SUBSET (1 .. MaxAccountID)
    BY AccountsAssumption DEF Present
  <1> QED BY <1>1, <1>2, FS_Subset, Zenon

(* What the accounts in S hold together, by the rows A.                     *)
Held(A, S) == MapThenSumSet(LAMBDA a : A[a].balance, S)

(* Held, the SUM(balance_minor) of the queries, is the total of the         *)
(* balances.                                                                *)
LEMMA HeldIs ==
  ASSUME NEW A, NEW S, IsFiniteSet(S), \A a \in S : A[a].balance \in Int
  PROVE  Held(A, S) = TotalOf([a \in S |-> A[a].balance], S)
  <1> DEFINE w == [a \in S |-> A[a].balance]
             F(g) == [s \in SUBSET S |-> IF s = {} THEN 0
                              ELSE A[Pick(s)].balance + g[s \ {Pick(s)}]]
             G(g) == [s \in SUBSET S |-> IF s = {} THEN 0
                              ELSE w[Pick(s)] + g[s \ {Pick(s)}]]
             it == CHOOSE g : g = F(g)
  <1>0. \A x \in S : w[x] \in Int
    OBVIOUS
  <1>1. Held(A, S) = it[S]
    BY DEF Held, MapThenSumSet, MapThenFoldSet, Pick
  <1>2. \A g : F(g) = G(g)
    <2> TAKE g
    <2>1. \A s \in SUBSET S : s # {} => A[Pick(s)].balance = w[Pick(s)]
      BY PickIn
    <2> QED BY <2>1
  <1>3. PICK h : Adds(h, w, S)
    BY <1>0, SumExists
  <1>4. h = G(h)
    <2>1. \A s \in SUBSET S : h[s] = G(h)[s]
      <3> HIDE DEF w
      <3> QED BY <1>3 DEF Adds
    <2>2. h = [s \in SUBSET S |-> h[s]]
      BY <1>3 DEF Adds
    <2> QED BY <2>1, <2>2
  <1>5. it = F(it)
    <2>1. h = F(h)
      BY <1>2, <1>4
    <2> HIDE DEF F
    <2> QED BY <2>1, Zenon
  <1>6. it = G(it)
    <2> HIDE DEF F, G, it
    <2> QED BY <1>2, <1>5
  <1>7. Adds(it, w, S)
    <2> HIDE DEF it, w
    <2> QED BY <1>0, <1>6, FoldAdds DEF w
  <1> HIDE DEF it, w
  <1>8. TotalOf(w, S) = it[S]
    BY <1>0, <1>7, TotalIs
  <1> QED BY <1>1, <1>8 DEF w

(* A total of all members but two.                                          *)
LEMMA TotalButTwo ==
  ASSUME NEW S, IsFiniteSet(S), NEW w, \A x \in S : w[x] \in Int,
         NEW a \in S, NEW b \in S, a # b, NEW R, R = (S \ {a}) \ {b}
  PROVE  /\ IsFiniteSet(R) /\ TotalOf(w, R) \in Int
         /\ TotalOf(w, S) = w[a] + w[b] + TotalOf(w, R)
  <1> DEFINE Q == S \ {a}
  <1>1. IsFiniteSet(Q) /\ IsFiniteSet(R)
    <2>1. Q \in SUBSET S /\ R \in SUBSET S
      OBVIOUS
    <2> HIDE DEF Q
    <2> QED BY <2>1, FS_Subset
  <1>2. Q \cup {a} = S /\ R \cup {b} = Q /\ a \notin Q /\ b \notin R
    BY SMT
  <1>3. (\A x \in Q : w[x] \in Int) /\ \A x \in R : w[x] \in Int
    OBVIOUS
  <1> HIDE DEF Q
  <1>4. TotalOf(w, Q \cup {a}) = w[a] + TotalOf(w, Q)
    BY <1>1, <1>2, <1>3, TotalOneMore
  <1>5. TotalOf(w, R \cup {b}) = w[b] + TotalOf(w, R)
    BY <1>1, <1>2, <1>3, TotalOneMore
  <1>6. TotalOf(w, R) \in Int
    BY <1>1, <1>3, TotalInt
  <1>7. TotalOf(w, S) = w[a] + w[b] + TotalOf(w, R)
    <2>1. TotalOf(w, S) = w[a] + (w[b] + TotalOf(w, R))
      BY <1>2, <1>4, <1>5
    <2>2. w[a] \in Int /\ w[b] \in Int
      OBVIOUS
    <2> QED BY <2>1, <2>2, <1>6, SMT
  <1> QED BY <1>1, <1>6, <1>7

(* A transfer between two accounts of S, or between two others, leaves what *)
(* the accounts of S hold together.                                         *)
LEMMA MoveKeeps ==
  ASSUME NEW A \in Rows, NEW m, Possible(A, m), NEW S, S \subseteq Present(A),
         m.src \in S <=> m.dst \in S
  PROVE  Held(AfterMove(A, m), S) = Held(A, S)
  <1> DEFINE N == AfterMove(A, m)
             v == [a \in S |-> A[a].balance]
             w == [a \in S |-> N[a].balance]
  <1>1. \A a \in S : /\ A[a].balance \in Int
                     /\ N[a].balance = A[a].balance + Effect(m, a)
    BY MoveFacts
  <1>2. m.amount \in Int /\ m.src # m.dst
    BY DEF Possible
  <1>3. IsFiniteSet(S)
    BY FiniteAccounts, FS_Subset
  <1>4. \A a \in S : N[a].balance \in Int
    BY <1>1, <1>2, SMT DEF Effect
  <1>5. \A a \in S : v[a] \in Int /\ w[a] \in Int /\ w[a] = v[a] + Effect(m, a)
    BY <1>1, <1>4
  <1>6. Held(A, S) = TotalOf(v, S) /\ Held(N, S) = TotalOf(w, S)
    <2> HIDE DEF N
    <2>1. Held(A, S) = TotalOf(v, S)
      BY <1>1, <1>3, HeldIs
    <2>2. Held(N, S) = TotalOf(w, S)
      BY <1>3, <1>4, HeldIs
    <2> QED BY <2>1, <2>2
  <1> HIDE DEF N, v, w
  <1>7. CASE m.src \notin S
    <2>1. Agree(w, v, S)
      BY <1>2, <1>5, <1>7, SMT DEF Agree, Effect
    <2> QED BY <1>3, <1>5, <1>6, <2>1, TotalAgrees DEF N
  <1>8. CASE m.src \in S
    <2>0. m.dst \in S
      BY <1>8
    <2>1. PICK R : R = (S \ {m.src}) \ {m.dst}
      OBVIOUS
    <2>2. /\ IsFiniteSet(R) /\ TotalOf(v, R) \in Int
          /\ TotalOf(v, S) = v[m.src] + v[m.dst] + TotalOf(v, R)
      BY <1>2, <1>3, <1>5, <1>8, <2>0, <2>1, TotalButTwo, SMT
    <2>3. TotalOf(w, S) = w[m.src] + w[m.dst] + TotalOf(w, R)
      BY <1>2, <1>3, <1>5, <1>8, <2>0, <2>1, TotalButTwo, SMT
    <2>4. Agree(w, v, R) /\ \A a \in R : w[a] \in Int
      BY <1>2, <1>5, <2>1, SMT DEF Agree, Effect
    <2>5. TotalOf(w, R) = TotalOf(v, R)
      BY <2>2, <2>4, TotalAgrees
    <2>6. w[m.src] = v[m.src] - m.amount /\ w[m.dst] = v[m.dst] + m.amount
          /\ v[m.src] \in Int /\ v[m.dst] \in Int
      BY <1>2, <1>5, <1>8, <2>0, SMT DEF Effect
    <2>7. TotalOf(w, S) = TotalOf(v, S)
      BY <1>2, <2>2, <2>3, <2>5, <2>6, SMT
    <2> QED BY <1>6, <2>7 DEF N
  <1> QED BY <1>7, <1>8

(* Another row is added to what a set of accounts holds.                    *)
LEMMA HeldOneMore ==
  ASSUME NEW A, NEW S, IsFiniteSet(S), NEW a, a \notin S,
         \A b \in S \cup {a} : A[b].balance \in Int
  PROVE  Held(A, S \cup {a}) = A[a].balance + Held(A, S)
  <1> DEFINE R == S \cup {a}
             w == [b \in R |-> A[b].balance]
             v == [b \in S |-> A[b].balance]
  <1>1. IsFiniteSet(R)
    BY FS_AddElement
  <1>2. \A b \in R : w[b] \in Int /\ w[b] = A[b].balance
    OBVIOUS
  <1>3. \A b \in S : v[b] \in Int /\ v[b] = w[b]
    OBVIOUS
  <1>4. Held(A, R) = TotalOf(w, R)
    <2> HIDE DEF R
    <2> QED BY <1>1, <1>2, HeldIs DEF R
  <1>5. Held(A, S) = TotalOf(v, S)
    BY HeldIs
  <1>6. TotalOf(v, S) = TotalOf(w, S)
    <2>1. Agree(v, w, S)
      BY <1>3 DEF Agree
    <2> HIDE DEF v, w
    <2> QED BY <1>3, <2>1, TotalAgrees
  <1>7. TotalOf(w, S \cup {a}) = w[a] + TotalOf(w, S)
    <2>1. a \in R /\ \A b \in S : b \in R
      OBVIOUS
    <2> HIDE DEF w, R
    <2> QED BY <1>2, <2>1, TotalOneMore
  <1> QED BY <1>2, <1>4, <1>5, <1>6, <1>7

==============================================================================
