----------------------------- MODULE WasmProofs -----------------------------
(***************************************************************************)
(* Proofs about the WASM agent.  The parser, for every set of signatures   *)
(* and every size of a module: the tables it fills agree with one another, *)
(* and every string in the heap belongs to exactly one of them, after an   *)
(* error at any point too.  The runtime, for every number and size of code *)
(* pages, every operation and every way that a compilation fails: each page*)
(* is in one place, the counts of pages in use are right, code that can be *)
(* called is whole on pages of its runtime, and the start function runs    *)
(* first and once.                                                         *)
(***************************************************************************)
EXTENDS WasmParse, WasmRuntime, CommonLemmas

-----------------------------------------------------------------------------
(*                       The parser of WASM modules                        *)

(* A sum, step by step.                                                    *)
Sums(f, w, n) ==
  f \in [0 .. n -> Int] /\ f[0] = 0 /\ \A i \in 1 .. n : f[i] = f[i-1] + w[i]

LEMMA TotalIs ==
  ASSUME NEW n \in Nat, NEW w \in [1 .. n -> Int]
  PROVE  \E f : Sums(f, w, n) /\ Total(w, n) = f[n]
<1> DEFINE Is(u) == u = [i \in 0 .. n |-> IF i = 0 THEN 0 ELSE u[i-1] + w[i]]
           s == CHOOSE u : Is(u)
           G == [i \in Nat |-> [x \in Int |-> IF i \in 1 .. n THEN x + w[i] ELSE x]]
<1>1. PICK f : Iterated(f, Int, 0, G, n)
  <2>1. G \in [Nat -> [Int -> Int]] /\ 0 \in Int
    OBVIOUS
  <2> HIDE DEF G
  <2> QED BY <2>1, Iterates
<1>2. f \in [0 .. n -> Int] /\ f[0] = 0
  BY <1>1 DEF Iterated
<1>3. ASSUME NEW i \in 1 .. n PROVE f[i] = f[i-1] + w[i]
  <2>1. i \in Nat /\ i - 1 \in 0 .. n
    OBVIOUS
  <2>2. f[i] = G[i][f[i-1]] /\ f[i-1] \in Int
    BY <1>1, <1>2, <2>1 DEF Iterated
  <2> QED BY <2>1, <2>2
<1>4. Is(f)
  <2>1. ASSUME NEW i \in 0 .. n PROVE f[i] = IF i = 0 THEN 0 ELSE f[i-1] + w[i]
    <3>1. CASE i = 0
      BY <1>2, <3>1
    <3>2. CASE i # 0
      <4>1. i \in 1 .. n
        BY <3>2
      <4> QED BY <1>3, <3>2, <4>1
    <3> QED BY <3>1, <3>2
  <2> QED BY <1>2, <2>1
<1>5. Is(s)
  <2> HIDE DEF Is
  <2> QED BY <1>4
<1>6. /\ s[0] = 0 /\ \A i \in 1 .. n : s[i] = s[i-1] + w[i]
  <2> DEFINE R(i) == IF i = 0 THEN 0 ELSE s[i-1] + w[i]
  <2>1. s = [i \in 0 .. n |-> R(i)]
    BY <1>5
  <2> HIDE DEF s
  <2>2. \A i \in 0 .. n : s[i] = R(i)
    <3> HIDE DEF R
    <3> QED BY <2>1
  <2>3. ASSUME NEW i \in 1 .. n PROVE s[i] = s[i-1] + w[i]
    <3>1. i \in 0 .. n /\ i # 0
      OBVIOUS
    <3> QED BY <2>2, <3>1
  <2> QED BY <2>2, <2>3
<1> HIDE DEF s, Is
<1>7. \A i \in 0 .. n : s[i] = f[i]
  <2> DEFINE S == {i \in 0 .. n : s[i] = f[i]}
  <2>1. 0 \in S
    BY <1>2, <1>6
  <2>2. ASSUME NEW i \in 1 .. n, i - 1 \in S PROVE i \in S
    BY <1>3, <1>6, <2>2
  <2> HIDE DEF S
  <2>3. \A i \in 0 .. n : i \in S
    BY <2>1, <2>2, StepByStep
  <2> QED BY <2>3 DEF S
<1>8. Total(w, n) = s[n]
  BY DEF Total, s, Is
<1>9. n \in 0 .. n
  OBVIOUS
<1> QED BY <1>2, <1>3, <1>7, <1>8, <1>9 DEF Sums

(* Sums of the same weights are the same, and one weight more or one       *)
(* weight changed shows in the total as it is.                             *)
Shifted(w, v, k, c, d) ==
  \A i \in 1 .. k : w[i] \in Int /\ v[i] = IF i = c THEN w[i] + d ELSE w[i]

LEMMA SumsAgree ==
  ASSUME NEW w, NEW v, NEW f, NEW g, NEW k \in Nat, NEW d \in Int,
         NEW l \in Nat, l >= k, NEW a \in Nat, a >= k, Sums(f, w, l), Sums(g, v, a),
         NEW c \in Nat, c >= 1, Shifted(w, v, k, c, d)
  PROVE  g[k] = IF c <= k THEN f[k] + d ELSE f[k]
<1> DEFINE S == {i \in 0 .. k : g[i] = IF c <= i THEN f[i] + d ELSE f[i]}
<1>1. 0 \in S
  BY DEF Sums
<1>2. ASSUME NEW i \in 1 .. k, i - 1 \in S PROVE i \in S
  <2>1. i \in 1 .. l /\ i \in 1 .. a /\ i - 1 \in 0 .. l /\ i \in 0 .. k
    OBVIOUS
  <2>2. f[i] = f[i-1] + w[i] /\ g[i] = g[i-1] + v[i] /\ f[i-1] \in Int
    BY <2>1 DEF Sums
  <2>3. g[i-1] = IF c <= i - 1 THEN f[i-1] + d ELSE f[i-1]
    BY <1>2
  <2>4. v[i] = (IF i = c THEN w[i] + d ELSE w[i]) /\ w[i] \in Int
    BY DEF Shifted
  <2>5. g[i] = IF c <= i THEN f[i] + d ELSE f[i]
    <3>1. CASE c <= i - 1
      BY <2>1, <2>2, <2>3, <2>4, <3>1
    <3>2. CASE c = i
      BY <2>1, <2>2, <2>3, <2>4, <3>2
    <3>3. CASE c > i
      BY <2>1, <2>2, <2>3, <2>4, <3>3
    <3> QED BY <3>1, <3>2, <3>3
  <2> QED BY <2>1, <2>5
<1> HIDE DEF S
<1>3. \A i \in 0 .. k : i \in S
  BY <1>1, <1>2, StepByStep
<1>4. k \in S
  BY <1>3
<1> QED BY <1>4 DEF S

LEMMA TotalBumped ==
  ASSUME NEW n \in Nat, NEW w \in [1 .. n -> Int], NEW v \in [1 .. n -> Int], NEW c \in 1 .. n,
         NEW d \in Int, Shifted(w, v, n, c, d)
  PROVE  Total(v, n) = Total(w, n) + d /\ Total(w, n) \in Int
<1>1. PICK f : Sums(f, w, n) /\ Total(w, n) = f[n]
  BY TotalIs
<1>2. PICK g : Sums(g, v, n) /\ Total(v, n) = g[n]
  BY TotalIs
<1>3. n >= n /\ c \in Nat /\ c >= 1 /\ c <= n /\ n \in 0 .. n
  OBVIOUS
<1>4. g[n] = IF c <= n THEN f[n] + d ELSE f[n]
  BY <1>1, <1>2, <1>3, SumsAgree
<1> QED BY <1>1, <1>2, <1>3, <1>4 DEF Sums

LEMMA TotalAppended ==
  ASSUME NEW n \in Nat, NEW w \in [1 .. n -> Int], NEW v \in [1 .. (n + 1) -> Int],
         \A i \in 1 .. n : v[i] = w[i]
  PROVE  Total(v, n + 1) = Total(w, n) + v[n + 1] /\ Total(w, n) \in Int
<1>1. PICK f : Sums(f, w, n) /\ Total(w, n) = f[n]
  BY TotalIs
<1>2. PICK g : Sums(g, v, n + 1) /\ Total(v, n + 1) = g[n + 1]
  <2>1. n + 1 \in Nat
    OBVIOUS
  <2> QED BY <2>1, TotalIs
<1> DEFINE c == n + 1
           b == 0
<1>3. /\ n >= n /\ c >= n /\ c \in Nat /\ c >= 1 /\ ~(c <= n) /\ b \in Int
      /\ Shifted(w, v, n, c, b)
  BY DEF Shifted
<1>4. Sums(g, v, c)
  BY <1>2
<1>5. g[n] = f[n]
  <2> HIDE DEF c, b
  <2> QED BY <1>1, <1>3, <1>4, SumsAgree
<1>6. n + 1 \in 1 .. (n + 1) /\ (n + 1) - 1 = n /\ n \in 0 .. n
  OBVIOUS
<1>7. g[n + 1] = g[n] + v[n + 1]
  BY <1>2, <1>6 DEF Sums
<1> QED BY <1>1, <1>2, <1>5, <1>6, <1>7 DEF Sums

LEMMA TotalNone == ASSUME NEW w PROVE Total(w, 0) = 0
<1> DEFINE v == [i \in 1 .. 0 |-> 0]
           Is(u, x) == u = [i \in 0 .. 0 |-> IF i = 0 THEN 0 ELSE u[i-1] + x[i]]
           f == [i \in 0 .. 0 |-> 0]
<1>1. Is(f, w)
  OBVIOUS
<1>2. Is(CHOOSE u : Is(u, w), w)
  <2> HIDE DEF Is
  <2> QED BY <1>1
<1> DEFINE s == CHOOSE u : Is(u, w)
<1>3. s = [i \in 0 .. 0 |-> IF i = 0 THEN 0 ELSE s[i-1] + w[i]]
  BY <1>2
<1>4. Total(w, 0) = s[0]
  BY DEF Total
<1> HIDE DEF s
<1>5. s[0] = 0
  BY <1>3
<1> QED BY <1>4, <1>5

-----------------------------------------------------------------------------

FuncRec == [type : Sigs, imp : BOOLEAN, names : Nat, export : BOOLEAN, body : BOOLEAN,
            mod : BOOLEAN, code : BOOLEAN]
GlobRec == [imp : BOOLEAN, name : BOOLEAN]
ModuleRec == [at : {"none", "parsing", "parsed", "wild"}, expected : Nat, types : Seq(Sigs),
              funcs : Seq(FuncRec), imports : Nat, globals : Seq(GlobRec),
              memImport : BOOLEAN, memName : BOOLEAN, tabName : BOOLEAN, start : Nat, bodies : Nat]

FuncTotal(fs) == Total([i \in DOMAIN fs |-> FuncStrings(fs[i])], Len(fs))
GlobTotal(gs) == Total([i \in DOMAIN gs |-> GlobalStrings(gs[i])], Len(gs))

LEMMA StringsAre ==
  /\ \A f \in FuncRec : FuncStrings(f) \in Int
  /\ \A g \in GlobRec : GlobalStrings(g) \in Int
BY DEF FuncRec, GlobRec, FuncStrings, GlobalStrings

LEMMA ModuleStringsIs ==
  ASSUME NEW x
  PROVE  ModuleStrings(x) = FuncTotal(x.funcs) + GlobTotal(x.globals)
           + (IF x.memImport THEN 2 ELSE 0) + (IF x.memName THEN 1 ELSE 0)
           + (IF x.tabName THEN 1 ELSE 0)
BY DEF ModuleStrings, FuncTotal, GlobTotal

(* A row of a table changed, and a row added.                              *)
LEMMA FuncChanged ==
  ASSUME NEW fs \in Seq(FuncRec), NEW i \in 1 .. Len(fs), NEW f \in FuncRec,
         NEW gs, gs = [fs EXCEPT ![i] = f]
  PROVE  /\ gs \in Seq(FuncRec) /\ Len(gs) = Len(fs)
         /\ \A j \in 1 .. Len(fs) : gs[j] = IF j = i THEN f ELSE fs[j]
         /\ FuncTotal(gs) = FuncTotal(fs) + (FuncStrings(f) - FuncStrings(fs[i]))
         /\ FuncTotal(fs) \in Int
<1> DEFINE n == Len(fs)
           w == [j \in 1 .. n |-> FuncStrings(fs[j])]
           v == [j \in 1 .. n |-> FuncStrings(gs[j])]
           d == FuncStrings(f) - FuncStrings(fs[i])
<1>1. /\ n \in Nat /\ DOMAIN fs = 1 .. n /\ \A j \in 1 .. n : fs[j] \in FuncRec
  BY LenProperties, ElementOfSeq
<1>2. /\ gs \in Seq(FuncRec) /\ Len(gs) = n /\ DOMAIN gs = 1 .. n
      /\ \A j \in 1 .. n : gs[j] = IF j = i THEN f ELSE fs[j]
  BY <1>1
<1>3. FuncTotal(fs) = Total(w, n) /\ FuncTotal(gs) = Total(v, n)
  BY <1>1, <1>2 DEF FuncTotal
<1>4. \A j \in 1 .. n : gs[j] \in FuncRec
  BY <1>1, <1>2
<1>5. w \in [1 .. n -> Int] /\ v \in [1 .. n -> Int] /\ d \in Int
  BY <1>1, <1>4, StringsAre
<1>6. Shifted(w, v, n, i, d)
  BY <1>1, <1>2, <1>4, StringsAre DEF Shifted
<1> HIDE DEF w, v, d, n
<1>7. i \in 1 .. n
  BY DEF n
<1>8. Total(v, n) = Total(w, n) + d /\ Total(w, n) \in Int
  BY <1>1, <1>5, <1>6, <1>7, TotalBumped
<1> QED BY <1>2, <1>3, <1>8 DEF d, n

LEMMA FuncAdded ==
  ASSUME NEW fs \in Seq(FuncRec), NEW f \in FuncRec, NEW gs, gs = Append(fs, f)
  PROVE  /\ gs \in Seq(FuncRec) /\ Len(gs) = Len(fs) + 1
         /\ \A j \in 1 .. Len(gs) : gs[j] = IF j = Len(gs) THEN f ELSE fs[j]
         /\ FuncTotal(gs) = FuncTotal(fs) + FuncStrings(f)
         /\ FuncTotal(fs) \in Int
<1> DEFINE n == Len(fs)
           w == [j \in 1 .. n |-> FuncStrings(fs[j])]
           v == [j \in 1 .. (n + 1) |-> FuncStrings(gs[j])]
<1>1. /\ n \in Nat /\ DOMAIN fs = 1 .. n /\ \A j \in 1 .. n : fs[j] \in FuncRec
  BY LenProperties, ElementOfSeq
<1>2. /\ gs \in Seq(FuncRec) /\ Len(gs) = n + 1 /\ DOMAIN gs = 1 .. (n + 1)
      /\ \A j \in 1 .. n : gs[j] = fs[j]
      /\ gs[n + 1] = f
  BY <1>1, AppendProperties, LenProperties
<1>3. FuncTotal(fs) = Total(w, n) /\ FuncTotal(gs) = Total(v, n + 1)
  BY <1>1, <1>2 DEF FuncTotal
<1>4. \A j \in 1 .. (n + 1) : gs[j] = (IF j = n + 1 THEN f ELSE fs[j]) /\ gs[j] \in FuncRec
  BY <1>1, <1>2
<1>5. w \in [1 .. n -> Int] /\ v \in [1 .. (n + 1) -> Int]
  BY <1>1, <1>4, StringsAre
<1>6. (\A j \in 1 .. n : v[j] = w[j]) /\ v[n + 1] = FuncStrings(f)
  BY <1>1, <1>2
<1> HIDE DEF w, v, n
<1>8. Total(v, n + 1) = Total(w, n) + v[n + 1] /\ Total(w, n) \in Int
  BY <1>1, <1>5, <1>6, TotalAppended
<1> QED BY <1>2, <1>3, <1>4, <1>6, <1>8 DEF n

LEMMA GlobChanged ==
  ASSUME NEW fs \in Seq(GlobRec), NEW i \in 1 .. Len(fs), NEW f \in GlobRec,
         NEW gs, gs = [fs EXCEPT ![i] = f]
  PROVE  /\ gs \in Seq(GlobRec)
         /\ GlobTotal(gs) = GlobTotal(fs) + (GlobalStrings(f) - GlobalStrings(fs[i]))
         /\ GlobTotal(fs) \in Int
<1> DEFINE n == Len(fs)
           w == [j \in 1 .. n |-> GlobalStrings(fs[j])]
           v == [j \in 1 .. n |-> GlobalStrings(gs[j])]
           d == GlobalStrings(f) - GlobalStrings(fs[i])
<1>1. /\ n \in Nat /\ DOMAIN fs = 1 .. n /\ \A j \in 1 .. n : fs[j] \in GlobRec
  BY LenProperties, ElementOfSeq
<1>2. /\ gs \in Seq(GlobRec) /\ Len(gs) = n /\ DOMAIN gs = 1 .. n
      /\ \A j \in 1 .. n : gs[j] = IF j = i THEN f ELSE fs[j]
  BY <1>1
<1>3. GlobTotal(fs) = Total(w, n) /\ GlobTotal(gs) = Total(v, n)
  BY <1>1, <1>2 DEF GlobTotal
<1>4. \A j \in 1 .. n : gs[j] \in GlobRec
  BY <1>1, <1>2
<1>5. w \in [1 .. n -> Int] /\ v \in [1 .. n -> Int] /\ d \in Int
  BY <1>1, <1>4, StringsAre
<1>6. Shifted(w, v, n, i, d)
  BY <1>1, <1>2, <1>4, StringsAre DEF Shifted
<1> HIDE DEF w, v, d, n
<1>7. i \in 1 .. n
  BY DEF n
<1>8. Total(v, n) = Total(w, n) + d /\ Total(w, n) \in Int
  BY <1>1, <1>5, <1>6, <1>7, TotalBumped
<1> QED BY <1>2, <1>3, <1>8 DEF d, n

LEMMA GlobAdded ==
  ASSUME NEW fs \in Seq(GlobRec), NEW f \in GlobRec, NEW gs, gs = Append(fs, f)
  PROVE  /\ gs \in Seq(GlobRec)
         /\ GlobTotal(gs) = GlobTotal(fs) + GlobalStrings(f)
         /\ GlobTotal(fs) \in Int
<1> DEFINE n == Len(fs)
           w == [j \in 1 .. n |-> GlobalStrings(fs[j])]
           v == [j \in 1 .. (n + 1) |-> GlobalStrings(gs[j])]
<1>1. /\ n \in Nat /\ DOMAIN fs = 1 .. n /\ \A j \in 1 .. n : fs[j] \in GlobRec
  BY LenProperties, ElementOfSeq
<1>2. /\ gs \in Seq(GlobRec) /\ Len(gs) = n + 1 /\ DOMAIN gs = 1 .. (n + 1)
      /\ \A j \in 1 .. n : gs[j] = fs[j]
      /\ gs[n + 1] = f
  BY <1>1, AppendProperties, LenProperties
<1>3. GlobTotal(fs) = Total(w, n) /\ GlobTotal(gs) = Total(v, n + 1)
  BY <1>1, <1>2 DEF GlobTotal
<1>4. \A j \in 1 .. (n + 1) : gs[j] \in GlobRec
  BY <1>1, <1>2
<1>5. w \in [1 .. n -> Int] /\ v \in [1 .. (n + 1) -> Int]
  BY <1>1, <1>4, StringsAre
<1>6. (\A j \in 1 .. n : v[j] = w[j]) /\ v[n + 1] = GlobalStrings(f)
  BY <1>1, <1>2
<1> HIDE DEF w, v, n
<1>8. Total(v, n + 1) = Total(w, n) + v[n + 1] /\ Total(w, n) \in Int
  BY <1>1, <1>5, <1>6, TotalAppended
<1> QED BY <1>2, <1>3, <1>6, <1>8 DEF n

LEMMA TotalsAre ==
  /\ FuncTotal(<<>>) = 0 /\ GlobTotal(<<>>) = 0
  /\ \A fs \in Seq(FuncRec) : FuncTotal(fs) \in Int
  /\ \A gs \in Seq(GlobRec) : GlobTotal(gs) \in Int
<1>1. FuncTotal(<<>>) = 0 /\ GlobTotal(<<>>) = 0
  <2>1. Len(<<>>) = 0
    OBVIOUS
  <2> QED BY <2>1, TotalNone DEF FuncTotal, GlobTotal
<1>2. ASSUME NEW fs \in Seq(FuncRec) PROVE FuncTotal(fs) \in Int
  <2> DEFINE n == Len(fs)
             w == [j \in 1 .. n |-> FuncStrings(fs[j])]
  <2>1. /\ n \in Nat /\ DOMAIN fs = 1 .. n /\ w \in [1 .. n -> Int]
    BY LenProperties, ElementOfSeq, StringsAre
  <2>2. FuncTotal(fs) = Total(w, n) /\ n \in 0 .. n
    BY <2>1 DEF FuncTotal
  <2> HIDE DEF w, n
  <2>3. PICK f : Sums(f, w, n) /\ Total(w, n) = f[n]
    BY <2>1, TotalIs
  <2> QED BY <2>2, <2>3 DEF Sums
<1>3. ASSUME NEW fs \in Seq(GlobRec) PROVE GlobTotal(fs) \in Int
  <2> DEFINE n == Len(fs)
             w == [j \in 1 .. n |-> GlobalStrings(fs[j])]
  <2>1. /\ n \in Nat /\ DOMAIN fs = 1 .. n /\ w \in [1 .. n -> Int]
    BY LenProperties, ElementOfSeq, StringsAre
  <2>2. GlobTotal(fs) = Total(w, n) /\ n \in 0 .. n
    BY <2>1 DEF GlobTotal
  <2> HIDE DEF w, n
  <2>3. PICK f : Sums(f, w, n) /\ Total(w, n) = f[n]
    BY <2>1, TotalIs
  <2> QED BY <2>2, <2>3 DEF Sums
<1> QED BY <1>1, <1>2, <1>3

-----------------------------------------------------------------------------

OneEach(ts) == ts \in Seq(Sigs) /\ \A i, j \in 1 .. Len(ts) : ts[i] = ts[j] => i = j
Known(ts, of) == \A i \in 1 .. Len(of) : of[i] \in Range(ts)
Linked(fs, at) == \A i \in 1 .. Len(fs) :
  /\ (fs[i].body \/ fs[i].code) => fs[i].mod
  /\ at # "parsed" => ~fs[i].code

ParseInv ==
  /\ OneEach(types) /\ module \in ModuleRec /\ Known(types, module.types)
  /\ Linked(module.funcs, module.at)
  /\ module.at = "none" => module = Blank0
  /\ sec \in Int /\ (sec # -1 => module.at = "parsing")
  /\ live \in Int /\ left \in Int
  /\ module.at # "wild" => live = ModuleStrings(module) + left

(* A record of its fields' sets.                                            *)
LEMMA ModuleRecIs ==
  ASSUME NEW A, NEW E, NEW T, NEW F, NEW I, NEW G, NEW M, NEW N, NEW O, NEW S, NEW B,
         NEW a \in A, NEW e \in E, NEW t \in T, NEW f \in F, NEW i \in I, NEW g \in G,
         NEW p \in M, NEW q \in N, NEW y \in O, NEW s \in S, NEW b \in B
  PROVE  [at |-> a, expected |-> e, types |-> t, funcs |-> f, imports |-> i, globals |-> g,
          memImport |-> p, memName |-> q, tabName |-> y, start |-> s, bodies |-> b]
           \in [at : A, expected : E, types : T, funcs : F, imports : I, globals : G,
                memImport : M, memName : N, tabName : O, start : S, bodies : B]
OBVIOUS

LEMMA BlankIs ==
  ASSUME NEW a \in {"none", "parsing", "parsed", "wild"}, NEW x, x = [Blank0 EXCEPT !.at = a]
  PROVE  /\ x \in ModuleRec /\ x.at = a /\ x.funcs = <<>> /\ x.globals = <<>> /\ x.types = <<>>
         /\ ModuleStrings(x) = 0 /\ Linked(x.funcs, a) /\ \A ts : Known(ts, x.types)
         /\ Blank0 = [Blank0 EXCEPT !.at = "none"]
<1>1. /\ x \in ModuleRec /\ x.at = a /\ x.funcs = <<>> /\ x.globals = <<>> /\ x.types = <<>>
      /\ x.memImport = FALSE /\ x.memName = FALSE /\ x.tabName = FALSE
  <2>1. <<>> \in Seq(FuncRec) /\ <<>> \in Seq(GlobRec) /\ <<>> \in Seq(Sigs)
    BY EmptySeq
  <2> DEFINE e == <<>>
  <2>2. x = [at |-> a, expected |-> 1, types |-> e, funcs |-> e, imports |-> 0, globals |-> e,
             memImport |-> FALSE, memName |-> FALSE, tabName |-> FALSE, start |-> 0, bodies |-> 0]
    BY DEF Blank0
  <2>3. e \in Seq(FuncRec) /\ e \in Seq(GlobRec) /\ e \in Seq(Sigs)
    BY <2>1
  <2> HIDE DEF e
  <2>4. x \in ModuleRec
    <3> DEFINE S == Seq(Sigs)
               F == Seq(FuncRec)
               G == Seq(GlobRec)
               A == {"none", "parsing", "parsed", "wild"}
               o == 1
               z == 0
               no == FALSE
    <3>1. /\ a \in A /\ o \in Nat /\ z \in Nat /\ no \in BOOLEAN
          /\ e \in S /\ e \in F /\ e \in G
      BY <2>3
    <3>2. x = [at |-> a, expected |-> o, types |-> e, funcs |-> e, imports |-> z, globals |-> e,
               memImport |-> no, memName |-> no, tabName |-> no, start |-> z, bodies |-> z]
      BY <2>2
    <3>3. ModuleRec = [at : A, expected : Nat, types : S, funcs : F, imports : Nat, globals : G,
                       memImport : BOOLEAN, memName : BOOLEAN, tabName : BOOLEAN, start : Nat, bodies : Nat]
      BY DEF ModuleRec
    <3> HIDE DEF S, F, G, A, o, z, no
    <3>4. [at |-> a, expected |-> o, types |-> e, funcs |-> e, imports |-> z, globals |-> e,
           memImport |-> no, memName |-> no, tabName |-> no, start |-> z, bodies |-> z]
            \in [at : A, expected : Nat, types : S, funcs : F, imports : Nat, globals : G,
                 memImport : BOOLEAN, memName : BOOLEAN, tabName : BOOLEAN, start : Nat, bodies : Nat]
      BY <3>1, ModuleRecIs
    <3> QED BY <3>2, <3>3, <3>4
  <2> QED BY <2>2, <2>4 DEF e
<1>2. ModuleStrings(x) = 0
  <2>1. ModuleStrings(x) = FuncTotal(x.funcs) + GlobTotal(x.globals)
          + (IF x.memImport THEN 2 ELSE 0) + (IF x.memName THEN 1 ELSE 0)
          + (IF x.tabName THEN 1 ELSE 0)
    BY ModuleStringsIs
  <2>2. FuncTotal(x.funcs) = 0 /\ GlobTotal(x.globals) = 0
    BY <1>1, TotalsAre
  <2> QED BY <1>1, <2>1, <2>2
<1>3. Len(<<>>) = 0
  OBVIOUS
<1>4. Linked(x.funcs, a) /\ \A ts : Known(ts, x.types)
  BY <1>1, <1>3 DEF Linked, Known
<1>5. Blank0 = [Blank0 EXCEPT !.at = "none"]
  BY DEF Blank0
<1> QED BY <1>1, <1>2, <1>4, <1>5

(* The strings of a module are counted.                                    *)
LEMMA ModuleStringsInt ==
  ASSUME NEW x \in ModuleRec
  PROVE  ModuleStrings(x) \in Int
<1>1. x.funcs \in Seq(FuncRec) /\ x.globals \in Seq(GlobRec)
  BY DEF ModuleRec
<1>2. FuncTotal(x.funcs) \in Int /\ GlobTotal(x.globals) \in Int
  BY <1>1, TotalsAre
<1> QED BY <1>2, ModuleStringsIs

(* Items that leave the types alone: the strings that they read are in the *)
(* module, or nobody's.                                                    *)
LEMMA ItemKeeps ==
  ASSUME ParseInv, module.at \notin {"none", "wild"}, module' \in ModuleRec,
         module'.at \notin {"none", "wild"}, module'.types = module.types, types' = types,
         Linked(module'.funcs, module'.at),
         sec' \in Int, sec' # -1 => module'.at = "parsing", left' \in Int,
         live' = live + (ModuleStrings(module') - ModuleStrings(module)) + (left' - left)
  PROVE  ParseInv'
<1>1. ModuleStrings(module) \in Int /\ ModuleStrings(module') \in Int
  BY ModuleStringsInt DEF ParseInv
<1>2. live = ModuleStrings(module) + left /\ live \in Int /\ left \in Int
  BY DEF ParseInv
<1>3. live' = ModuleStrings(module') + left' /\ live' \in Int
  BY <1>1, <1>2
<1>4. (module.at = "none" => module = Blank0)'
  OBVIOUS
<1> QED BY <1>3, <1>4 DEF ParseInv

(* An error frees the module.                                              *)
LEMMA FreeKeeps ==
  ASSUME ParseInv, module.at # "wild", module' = Blank0, types' = types, sec' = -1,
         left' \in Int, live' = live - ModuleStrings(module) + (left' - left)
  PROVE  ParseInv'
<1>1. ModuleStrings(module) \in Int
  BY ModuleStringsInt DEF ParseInv
<1>2. live = ModuleStrings(module) + left /\ live \in Int /\ left \in Int
  BY DEF ParseInv
<1>3. /\ Blank0 \in ModuleRec /\ Blank0.at = "none" /\ ModuleStrings(Blank0) = 0
      /\ Linked(Blank0.funcs, "none") /\ Known(types, Blank0.types)
  <2> DEFINE x == [Blank0 EXCEPT !.at = "none"]
  <2>1. Blank0 = x
    BY DEF Blank0
  <2>2. /\ x \in ModuleRec /\ x.at = "none" /\ ModuleStrings(x) = 0
        /\ Linked(x.funcs, "none") /\ Known(types, x.types)
    <3> HIDE DEF x
    <3> QED BY BlankIs DEF x
  <2> QED BY <2>1, <2>2
<1>4. live' = ModuleStrings(module') + left' /\ live' \in Int
  BY <1>1, <1>2, <1>3
<1>5. /\ module' \in ModuleRec /\ module'.at = "none" /\ Known(types', module'.types)
      /\ Linked(module'.funcs, module'.at)
  BY <1>3
<1>6. OneEach(types')
  BY DEF ParseInv
<1> QED BY <1>4, <1>5, <1>6 DEF ParseInv

LEMMA WildKeeps == ASSUME ParseInv, Wild PROVE ParseInv'
<1>1. module' = [Blank0 EXCEPT !.at = "wild"] /\ sec' = -1 /\ UNCHANGED <<types, live, left>>
  BY DEF Wild
<1>2. /\ module' \in ModuleRec /\ module'.at = "wild" /\ Linked(module'.funcs, "wild")
      /\ Known(types, module'.types)
  BY <1>1, BlankIs
<1> QED BY <1>1, <1>2 DEF ParseInv

(* A changed row of the functions.                                         *)
LEMMA RowKeeps ==
  ASSUME ParseInv, NEW i \in DOMAIN module.funcs, NEW f \in FuncRec,
         module.at \notin {"none", "wild"}, NEW b \in Nat,
         module' = [module EXCEPT !.funcs[i] = f, !.bodies = b],
         (f.body \/ f.code) => f.mod, module.at # "parsed" => ~f.code,
         UNCHANGED <<types, sec, left>>,
         live' = live + (FuncStrings(f) - FuncStrings(module.funcs[i]))
  PROVE  ParseInv'
<1> DEFINE fs == module.funcs
           gs == [fs EXCEPT ![i] = f]
<1>1. /\ module \in ModuleRec /\ fs \in Seq(FuncRec) /\ module.globals \in Seq(GlobRec)
      /\ Linked(fs, module.at)
  BY DEF ParseInv, ModuleRec
<1>2. i \in 1 .. Len(fs)
  BY <1>1, LenProperties
<1>3. /\ gs \in Seq(FuncRec) /\ Len(gs) = Len(fs)
      /\ \A j \in 1 .. Len(fs) : gs[j] = IF j = i THEN f ELSE fs[j]
      /\ FuncTotal(gs) = FuncTotal(fs) + (FuncStrings(f) - FuncStrings(fs[i]))
      /\ FuncTotal(fs) \in Int
  <2> HIDE DEF gs, fs
  <2> QED BY <1>1, <1>2, FuncChanged DEF gs
<1>4. /\ module'.funcs = gs /\ module'.at = module.at /\ module'.types = module.types
      /\ module'.globals = module.globals /\ module'.memImport = module.memImport
      /\ module'.memName = module.memName /\ module'.tabName = module.tabName
  BY <1>1 DEF ModuleRec
<1>5. module' \in ModuleRec
  <2> HIDE DEF gs
  <2>1. module' = [module EXCEPT !.funcs = gs, !.bodies = b]
    BY <1>1 DEF ModuleRec, gs
  <2> QED BY <1>1, <1>3, <2>1 DEF ModuleRec
<1>6. GlobTotal(module.globals) \in Int /\ FuncStrings(f) \in Int /\ FuncStrings(fs[i]) \in Int
  BY <1>1, <1>2, TotalsAre, StringsAre, ElementOfSeq
<1> HIDE DEF gs
<1>7. ModuleStrings(module') - ModuleStrings(module) = FuncStrings(f) - FuncStrings(fs[i])
  <2> DEFINE k == (IF module.memImport THEN 2 ELSE 0) + (IF module.memName THEN 1 ELSE 0)
                  + (IF module.tabName THEN 1 ELSE 0)
  <2>1. k \in Int
    OBVIOUS
  <2>2. ModuleStrings(module) = FuncTotal(fs) + GlobTotal(module.globals) + k
    <3>1. ModuleStrings(module) = FuncTotal(fs) + GlobTotal(module.globals)
            + (IF module.memImport THEN 2 ELSE 0) + (IF module.memName THEN 1 ELSE 0)
            + (IF module.tabName THEN 1 ELSE 0)
      BY ModuleStringsIs
    <3>2. FuncTotal(fs) \in Int /\ GlobTotal(module.globals) \in Int
      BY <1>3, <1>6
    <3> HIDE DEF fs
    <3> QED BY <3>1, <3>2
  <2>3. ModuleStrings(module') = FuncTotal(gs) + GlobTotal(module.globals) + k
    <3>1. ModuleStrings(module') = FuncTotal(module'.funcs) + GlobTotal(module'.globals)
            + (IF module'.memImport THEN 2 ELSE 0) + (IF module'.memName THEN 1 ELSE 0)
            + (IF module'.tabName THEN 1 ELSE 0)
      BY ModuleStringsIs
    <3>2. FuncTotal(gs) \in Int /\ GlobTotal(module.globals) \in Int
      BY <1>3, <1>6, TotalsAre
    <3>3. ModuleStrings(module') = FuncTotal(gs) + GlobTotal(module.globals)
            + (IF module.memImport THEN 2 ELSE 0) + (IF module.memName THEN 1 ELSE 0)
            + (IF module.tabName THEN 1 ELSE 0)
      BY <1>4, <3>1
    <3> QED BY <3>2, <3>3
  <2> HIDE DEF k, fs
  <2> QED BY <1>3, <1>6, <2>1, <2>2, <2>3
<1>8. Linked(module'.funcs, module'.at)
  BY <1>1, <1>3, <1>4 DEF Linked
<1>9. live \in Int /\ left \in Int /\ left' = left /\ sec \in Int
      /\ (sec' # -1 => module'.at = "parsing")
  BY <1>4 DEF ParseInv
<1>10. live' = live + (ModuleStrings(module') - ModuleStrings(module)) + (left' - left)
  BY <1>6, <1>7, <1>9
<1> QED BY <1>4, <1>5, <1>8, <1>9, <1>10, ItemKeeps

MemStrings(x) == (IF x.memImport THEN 2 ELSE 0) + (IF x.memName THEN 1 ELSE 0)
                 + (IF x.tabName THEN 1 ELSE 0)

LEMMA MemStringsAre ==
  ASSUME NEW x \in ModuleRec
  PROVE  /\ MemStrings(x) \in Int /\ FuncTotal(x.funcs) \in Int /\ GlobTotal(x.globals) \in Int
         /\ ModuleStrings(x) = FuncTotal(x.funcs) + GlobTotal(x.globals) + MemStrings(x)
<1>1. x.funcs \in Seq(FuncRec) /\ x.globals \in Seq(GlobRec)
  BY DEF ModuleRec
<1>2. FuncTotal(x.funcs) \in Int /\ GlobTotal(x.globals) \in Int
  BY <1>1, TotalsAre
<1>3. MemStrings(x) \in Int
  BY DEF MemStrings
<1>4. ModuleStrings(x) = FuncTotal(x.funcs) + GlobTotal(x.globals)
        + (IF x.memImport THEN 2 ELSE 0) + (IF x.memName THEN 1 ELSE 0)
        + (IF x.tabName THEN 1 ELSE 0)
  BY ModuleStringsIs
<1> QED BY <1>2, <1>3, <1>4 DEF MemStrings

(* Items that touch neither table.                                         *)
LEMMA PlainKeeps ==
  ASSUME ParseInv, module.at \notin {"none", "wild"}, module' \in ModuleRec,
         module'.at \notin {"none", "wild"}, module'.types = module.types, types' = types,
         module'.funcs = module.funcs, module'.globals = module.globals,
         Linked(module'.funcs, module'.at),
         sec' \in Int, sec' # -1 => module'.at = "parsing", left' \in Int,
         live' = live + (MemStrings(module') - MemStrings(module)) + (left' - left)
  PROVE  ParseInv'
<1> DEFINE n == FuncTotal(module.funcs)
           g == GlobTotal(module.globals)
<1>1. /\ MemStrings(module) \in Int /\ n \in Int /\ g \in Int /\ live \in Int /\ left \in Int
      /\ ModuleStrings(module) = n + g + MemStrings(module)
  BY MemStringsAre DEF ParseInv
<1>2. /\ MemStrings(module') \in Int
      /\ ModuleStrings(module') = n + g + MemStrings(module')
  <2>1. /\ MemStrings(module') \in Int
        /\ ModuleStrings(module')
             = FuncTotal(module'.funcs) + GlobTotal(module'.globals) + MemStrings(module')
    BY MemStringsAre
  <2> QED BY <2>1
<1> HIDE DEF n, g
<1>3. ModuleStrings(module') - ModuleStrings(module) = MemStrings(module') - MemStrings(module)
  BY <1>1, <1>2
<1> QED BY <1>3, ItemKeeps

LEMMA ParseBeginKeeps == ASSUME ParseInv, ParseBegin PROVE ParseInv'
<1>1. /\ module = Blank0 /\ module.at = "none" /\ sec = -1 /\ live = ModuleStrings(module) + left
      /\ live \in Int /\ left \in Int /\ OneEach(types)
  BY DEF ParseInv, ParseBegin
<1>2. module' = [Blank0 EXCEPT !.at = "parsing"] /\ UNCHANGED <<types, sec, live, left>>
  BY DEF ParseBegin
<1>3. ModuleStrings(module) = 0
  <2> DEFINE x == [Blank0 EXCEPT !.at = "none"]
  <2>1. Blank0 = x
    BY DEF Blank0
  <2>2. ModuleStrings(x) = 0
    <3> HIDE DEF x
    <3> QED BY BlankIs DEF x
  <2> QED BY <1>1, <2>1, <2>2
<1>4. /\ module' \in ModuleRec /\ module'.at = "parsing" /\ ModuleStrings(module') = 0
      /\ Linked(module'.funcs, "parsing") /\ Known(types, module'.types)
  BY <1>2, BlankIs
<1>5. live' = ModuleStrings(module') + left'
  BY <1>1, <1>2, <1>3, <1>4
<1> QED BY <1>1, <1>2, <1>4, <1>5 DEF ParseInv

LEMMA FoundIs ==
  ASSUME NEW id, module \in ModuleRec
  PROVE  Found(id) \in Nat
<1> DEFINE places == {i \in module.expected .. 13 : SectionsOrder[i] = id}
<1>1. module.expected \in Nat
  BY DEF ModuleRec
<1>2. places \in SUBSET Nat
  BY <1>1
<1>3. Found(id) = IF places = {} \/ module.expected > 12 THEN 0 ELSE Min(places)
  BY DEF Found
<1> HIDE DEF places
<1>4. places # {} => Min(places) \in places
  BY <1>2, LeastElement
<1>5. CASE places = {} \/ module.expected > 12
  BY <1>3, <1>5
<1>6. CASE ~(places = {} \/ module.expected > 12)
  <2>1. Found(id) = Min(places) /\ Min(places) \in places
    BY <1>3, <1>4, <1>6
  <2> QED BY <1>2, <2>1
<1> QED BY <1>5, <1>6

LEMMA OpenKeeps == ASSUME ParseInv, OpenSection PROVE ParseInv'
<1>1. /\ module \in ModuleRec /\ Linked(module.funcs, module.at) /\ module.at = "parsing"
      /\ live \in Int /\ left \in Int
  BY DEF ParseInv, OpenSection
<1>2. UNCHANGED <<types, live, left>>
  BY DEF OpenSection
<1>3. PICK e \in Nat : sec' \in Int /\ module' = [module EXCEPT !.expected = e]
  <2>1. PICK id \in 0 .. 12 :
          IF id = Section.custom
          THEN sec' = id /\ UNCHANGED module
          ELSE /\ Found(id) > 0
               /\ sec' = id
               /\ module' = [module EXCEPT !.expected = Found(id) + 1]
    BY DEF OpenSection
  <2>2. module.expected \in Nat /\ module = [module EXCEPT !.expected = module.expected]
    BY <1>1 DEF ModuleRec
  <2>3. Found(id) + 1 \in Nat
    BY <1>1, FoundIs
  <2>4. CASE id = Section.custom
    BY <2>1, <2>2, <2>4
  <2>5. CASE id # Section.custom
    BY <2>1, <2>3, <2>5
  <2> QED BY <2>4, <2>5
<1>4. module' \in ModuleRec
  BY <1>1, <1>3 DEF ModuleRec
<1>5. /\ module'.at = module.at /\ module'.types = module.types /\ module'.funcs = module.funcs
      /\ module'.globals = module.globals /\ module'.memImport = module.memImport
      /\ module'.memName = module.memName /\ module'.tabName = module.tabName
  BY <1>1, <1>3 DEF ModuleRec
<1>6. live' = live + (MemStrings(module') - MemStrings(module)) + (left' - left)
  BY <1>1, <1>2, <1>5 DEF MemStrings
<1> QED BY <1>1, <1>2, <1>3, <1>4, <1>5, <1>6, PlainKeeps

LEMMA CloseKeeps == ASSUME ParseInv, CloseSection PROVE ParseInv'
BY DEF ParseInv, CloseSection

LEMMA EndKeeps == ASSUME ParseInv, ParseEnd PROVE ParseInv'
<1>1. /\ module \in ModuleRec /\ Linked(module.funcs, module.at) /\ module.at = "parsing"
      /\ live \in Int /\ left \in Int /\ sec = -1
  BY DEF ParseInv, ParseEnd
<1>2. /\ module' = [module EXCEPT !.at = "parsed", !.expected = 1, !.bodies = 0]
      /\ UNCHANGED <<types, sec, live, left>>
  BY DEF ParseEnd
<1>3. module' \in ModuleRec
  BY <1>1, <1>2 DEF ModuleRec
<1>4. /\ module'.at = "parsed" /\ module'.types = module.types /\ module'.funcs = module.funcs
      /\ module'.globals = module.globals /\ module'.memImport = module.memImport
      /\ module'.memName = module.memName /\ module'.tabName = module.tabName
  BY <1>1, <1>2 DEF ModuleRec
<1>5. Linked(module'.funcs, module'.at)
  BY <1>1, <1>4 DEF Linked
<1>6. live' = live + (MemStrings(module') - MemStrings(module)) + (left' - left)
  BY <1>1, <1>2, <1>4 DEF MemStrings
<1> QED BY <1>1, <1>2, <1>3, <1>4, <1>5, <1>6, PlainKeeps

LEMMA ImportMemoryKeeps == ASSUME ParseInv, ImportMemory PROVE ParseInv'
<1>1. /\ module \in ModuleRec /\ Linked(module.funcs, module.at) /\ module.at = "parsing"
      /\ live \in Int /\ left \in Int /\ sec \in Int
  BY DEF ParseInv, ImportMemory, Section
<1>2. /\ module' = [module EXCEPT !.memImport = TRUE] /\ UNCHANGED <<types, sec>>
      /\ live' = live + 2 /\ left' = IF module.memImport THEN left + 2 ELSE left
  BY DEF ImportMemory
<1>3. module' \in ModuleRec
  BY <1>1, <1>2 DEF ModuleRec
<1>4. /\ module'.at = module.at /\ module'.types = module.types /\ module'.funcs = module.funcs
      /\ module'.globals = module.globals /\ module'.memImport = TRUE
      /\ module'.memName = module.memName /\ module'.tabName = module.tabName
  BY <1>1, <1>2 DEF ModuleRec
<1>5. left' \in Int
  BY <1>1, <1>2
<1>6. live' = live + (MemStrings(module') - MemStrings(module)) + (left' - left)
  <2>1. CASE module.memImport
    BY <1>1, <1>2, <1>4, <2>1 DEF MemStrings
  <2>2. CASE ~module.memImport
    BY <1>1, <1>2, <1>4, <2>2 DEF MemStrings
  <2> QED BY <2>1, <2>2
<1> QED BY <1>1, <1>2, <1>3, <1>4, <1>5, <1>6, PlainKeeps

LEMMA ExportMemoryKeeps == ASSUME ParseInv, ExportMemory PROVE ParseInv'
<1>1. /\ module \in ModuleRec /\ Linked(module.funcs, module.at) /\ module.at = "parsing"
      /\ live \in Int /\ left \in Int /\ sec \in Int
  BY DEF ParseInv, ExportMemory, Section
<1>2. /\ module' = [module EXCEPT !.memName = TRUE] /\ UNCHANGED <<types, sec, left>>
      /\ live' = IF module.memName THEN live ELSE live + 1
  BY DEF ExportMemory
<1>3. module' \in ModuleRec
  BY <1>1, <1>2 DEF ModuleRec
<1>4. /\ module'.at = module.at /\ module'.types = module.types /\ module'.funcs = module.funcs
      /\ module'.globals = module.globals /\ module'.memImport = module.memImport
      /\ module'.memName = TRUE /\ module'.tabName = module.tabName
  BY <1>1, <1>2 DEF ModuleRec
<1>6. live' = live + (MemStrings(module') - MemStrings(module)) + (left' - left)
  <2>1. CASE module.memName
    BY <1>1, <1>2, <1>4, <2>1 DEF MemStrings
  <2>2. CASE ~module.memName
    BY <1>1, <1>2, <1>4, <2>2 DEF MemStrings
  <2> QED BY <2>1, <2>2
<1> QED BY <1>1, <1>2, <1>3, <1>4, <1>6, PlainKeeps

LEMMA ExportTableKeeps == ASSUME ParseInv, ExportTable PROVE ParseInv'
<1>1. /\ module \in ModuleRec /\ Linked(module.funcs, module.at) /\ module.at = "parsing"
      /\ live \in Int /\ left \in Int /\ sec \in Int
  BY DEF ParseInv, ExportTable, Section
<1>2. /\ module' = [module EXCEPT !.tabName = TRUE] /\ UNCHANGED <<types, sec, left>>
      /\ live' = IF module.tabName THEN live ELSE live + 1
  BY DEF ExportTable
<1>3. module' \in ModuleRec
  BY <1>1, <1>2 DEF ModuleRec
<1>4. /\ module'.at = module.at /\ module'.types = module.types /\ module'.funcs = module.funcs
      /\ module'.globals = module.globals /\ module'.memImport = module.memImport
      /\ module'.tabName = TRUE /\ module'.memName = module.memName
  BY <1>1, <1>2 DEF ModuleRec
<1>6. live' = live + (MemStrings(module') - MemStrings(module)) + (left' - left)
  <2>1. CASE module.tabName
    BY <1>1, <1>2, <1>4, <2>1 DEF MemStrings
  <2>2. CASE ~module.tabName
    BY <1>1, <1>2, <1>4, <2>2 DEF MemStrings
  <2> QED BY <2>1, <2>2
<1> QED BY <1>1, <1>2, <1>3, <1>4, <1>6, PlainKeeps

LEMMA StartKeeps == ASSUME ParseInv, StartItem PROVE ParseInv'
<1>1. /\ module \in ModuleRec /\ Linked(module.funcs, module.at) /\ module.at = "parsing"
      /\ live \in Int /\ left \in Int /\ sec \in Int /\ module.funcs \in Seq(FuncRec)
  BY DEF ParseInv, StartItem, Section, ModuleRec
<1>2. PICK i \in DOMAIN module.funcs : module' = [module EXCEPT !.start = i]
  BY DEF StartItem
<1>3. i \in Nat
  BY <1>1, LenProperties
<1>4. UNCHANGED <<types, sec, live, left>>
  BY DEF StartItem
<1>5. module' \in ModuleRec
  BY <1>1, <1>2, <1>3 DEF ModuleRec
<1>6. /\ module'.at = module.at /\ module'.types = module.types /\ module'.funcs = module.funcs
      /\ module'.globals = module.globals /\ module'.memImport = module.memImport
      /\ module'.memName = module.memName /\ module'.tabName = module.tabName
  BY <1>1, <1>2 DEF ModuleRec
<1>7. live' = live + (MemStrings(module') - MemStrings(module)) + (left' - left)
  BY <1>1, <1>4, <1>6 DEF MemStrings
<1> QED BY <1>1, <1>4, <1>5, <1>6, <1>7, PlainKeeps

LEMMA FailsKeeps == ASSUME ParseInv, ParseFails PROVE ParseInv'
<1>1. /\ module.at # "wild" /\ left \in Int /\ live \in Int /\ ModuleStrings(module) \in Int
  BY ModuleStringsInt DEF ParseInv, ParseFails
<1>2. /\ module' = Blank0 /\ types' = types /\ sec' = -1 /\ left' = left
      /\ live' = live - ModuleStrings(module)
  BY DEF ParseFails
<1>3. live' = live - ModuleStrings(module) + (left' - left)
  BY <1>1, <1>2
<1> QED BY <1>1, <1>2, <1>3, FreeKeeps

LEMMA FreeModuleKeeps == ASSUME ParseInv, FreeModule PROVE ParseInv'
<1>1. /\ module.at # "wild" /\ left \in Int /\ live \in Int /\ ModuleStrings(module) \in Int
      /\ sec = -1
  BY ModuleStringsInt DEF ParseInv, FreeModule
<1>2. /\ module' = Blank0 /\ types' = types /\ sec' = sec /\ left' = left
      /\ live' = live - ModuleStrings(module)
  BY DEF FreeModule
<1>3. live' = live - ModuleStrings(module) + (left' - left)
  BY <1>1, <1>2
<1> QED BY <1>1, <1>2, <1>3, FreeKeeps

LEMMA CustomKeeps == ASSUME ParseInv, CustomFails PROVE ParseInv'
<1>1. /\ module.at # "wild" /\ left \in Int /\ live \in Int /\ ModuleStrings(module) \in Int
  BY ModuleStringsInt DEF ParseInv, CustomFails, Section
<1>2. /\ module' = Blank0 /\ types' = types /\ sec' = -1 /\ left' = left + 1
      /\ live' = live - ModuleStrings(module) + 1
  BY DEF CustomFails
<1>3. live' = live - ModuleStrings(module) + (left' - left) /\ left' \in Int
  BY <1>1, <1>2
<1> QED BY <1>1, <1>2, <1>3, FreeKeeps

(* A row more in the functions or in the globals.                          *)
LEMMA AddFunctionKeeps ==
  ASSUME ParseInv, NEW imp \in BOOLEAN, module.at = "parsing", AddFunction(imp)
  PROVE  ParseInv'
<1> DEFINE fs == module.funcs
<1>1. /\ module \in ModuleRec /\ fs \in Seq(FuncRec) /\ module.types \in Seq(Sigs)
      /\ Linked(fs, module.at) /\ live \in Int /\ left \in Int /\ sec \in Int
      /\ module.imports \in Nat
  BY DEF ParseInv, ModuleRec
<1>2. PICK i \in DOMAIN module.types :
        module' = [module EXCEPT !.funcs = Append(@, NewFunc(module.types[i], imp)),
                                 !.imports = IF imp THEN @ + 1 ELSE @]
  BY DEF AddFunction
<1>3. /\ live' = (IF imp THEN live + 2 ELSE live) /\ UNCHANGED <<types, sec, left>>
  BY DEF AddFunction
<1> DEFINE f == NewFunc(module.types[i], imp)
           gs == Append(fs, f)
           c == IF imp THEN module.imports + 1 ELSE module.imports
<1>4. module.types[i] \in Sigs
  BY <1>1, LenProperties, ElementOfSeq
<1>5. /\ f \in FuncRec /\ f.body = FALSE /\ f.code = FALSE
      /\ FuncStrings(f) = IF imp THEN 2 ELSE 0
  BY <1>4 DEF NewFunc, FuncRec, FuncStrings
<1>6. module' = [module EXCEPT !.funcs = gs, !.imports = c] /\ c \in Nat
  BY <1>1, <1>2
<1> HIDE DEF f, c
<1>7. /\ gs \in Seq(FuncRec) /\ Len(gs) = Len(fs) + 1
      /\ \A j \in 1 .. Len(gs) : gs[j] = IF j = Len(gs) THEN f ELSE fs[j]
      /\ FuncTotal(gs) = FuncTotal(fs) + FuncStrings(f)
      /\ FuncTotal(fs) \in Int
  <2> HIDE DEF gs, fs
  <2> QED BY <1>1, <1>5, FuncAdded DEF gs
<1> HIDE DEF gs
<1>8. module' \in ModuleRec
  BY <1>1, <1>6, <1>7 DEF ModuleRec
<1>9. /\ module'.funcs = gs /\ module'.at = module.at /\ module'.types = module.types
      /\ module'.globals = module.globals /\ MemStrings(module') = MemStrings(module)
  BY <1>1, <1>6 DEF ModuleRec, MemStrings
<1>10. Linked(gs, module.at)
  <2> SUFFICES ASSUME NEW j \in 1 .. Len(gs)
               PROVE  /\ (gs[j].body \/ gs[j].code) => gs[j].mod
                      /\ module.at # "parsed" => ~gs[j].code
    BY DEF Linked
  <2>1. CASE j = Len(gs)
    BY <1>5, <1>7, <2>1
  <2>2. CASE j # Len(gs)
    <3>1. j \in 1 .. Len(fs) /\ gs[j] = fs[j]
      BY <1>1, <1>7, <2>2, LenProperties
    <3> QED BY <1>1, <3>1 DEF Linked
  <2> QED BY <2>1, <2>2
<1>11. ModuleStrings(module') - ModuleStrings(module) = IF imp THEN 2 ELSE 0
  <2>1. /\ MemStrings(module) \in Int /\ GlobTotal(module.globals) \in Int
        /\ ModuleStrings(module) = FuncTotal(fs) + GlobTotal(module.globals) + MemStrings(module)
    BY <1>1, MemStringsAre
  <2>2. ModuleStrings(module') = FuncTotal(gs) + GlobTotal(module.globals) + MemStrings(module)
    <3>1. ModuleStrings(module')
            = FuncTotal(module'.funcs) + GlobTotal(module'.globals) + MemStrings(module')
      BY <1>8, MemStringsAre
    <3> QED BY <1>9, <3>1
  <2> HIDE DEF fs
  <2> QED BY <1>5, <1>7, <2>1, <2>2
<1>12. live' = live + (ModuleStrings(module') - ModuleStrings(module)) + (left' - left)
  BY <1>1, <1>3, <1>11
<1> QED BY <1>1, <1>3, <1>8, <1>9, <1>10, <1>12, ItemKeeps

(* A table of globals that is another one.                                 *)
LEMMA GlobalsKeep ==
  ASSUME ParseInv, module.at = "parsing", NEW gs \in Seq(GlobRec), NEW d \in Int,
         GlobTotal(gs) = GlobTotal(module.globals) + d,
         module' = [module EXCEPT !.globals = gs], live' = live + d,
         UNCHANGED <<types, sec, left>>
  PROVE  ParseInv'
<1>1. /\ module \in ModuleRec /\ Linked(module.funcs, module.at)
      /\ live \in Int /\ left \in Int /\ sec \in Int
  BY DEF ParseInv
<1>2. module' \in ModuleRec
  BY <1>1 DEF ModuleRec
<1>3. /\ module'.globals = gs /\ module'.at = module.at /\ module'.types = module.types
      /\ module'.funcs = module.funcs /\ MemStrings(module') = MemStrings(module)
  BY <1>1 DEF ModuleRec, MemStrings
<1> DEFINE n == FuncTotal(module.funcs)
           g == GlobTotal(module.globals)
<1>4. /\ MemStrings(module) \in Int /\ n \in Int /\ g \in Int
      /\ ModuleStrings(module) = n + g + MemStrings(module)
  BY <1>1, MemStringsAre
<1>5. ModuleStrings(module') = n + GlobTotal(gs) + MemStrings(module)
  <2>1. ModuleStrings(module')
          = FuncTotal(module'.funcs) + GlobTotal(module'.globals) + MemStrings(module')
    BY <1>2, MemStringsAre
  <2> QED BY <1>3, <2>1
<1>6. GlobTotal(gs) = g + d
  OBVIOUS
<1> HIDE DEF n, g
<1>7. ModuleStrings(module') - ModuleStrings(module) = d
  BY <1>4, <1>5, <1>6
<1>8. live' = live + (ModuleStrings(module') - ModuleStrings(module)) + (left' - left)
  BY <1>1, <1>7
<1> QED BY <1>1, <1>2, <1>3, <1>8, ItemKeeps

LEMMA AddGlobalKeeps ==
  ASSUME ParseInv, NEW imp \in BOOLEAN, module.at = "parsing", AddGlobal(imp)
  PROVE  ParseInv'
<1>1. CASE Wild
  BY <1>1, WildKeeps
<1>2. CASE ~Wild
  <2>1. /\ module' = [module EXCEPT !.globals = Append(@, [imp |-> imp, name |-> FALSE])]
        /\ live' = (IF imp THEN live + 2 ELSE live)
        /\ UNCHANGED <<types, sec, left>>
    BY <1>2 DEF AddGlobal
  <2>2. module \in ModuleRec /\ module.globals \in Seq(GlobRec) /\ live \in Int
    BY DEF ParseInv, ModuleRec
  <2> DEFINE f == [imp |-> imp, name |-> FALSE]
             gs == Append(module.globals, f)
             d == IF imp THEN 2 ELSE 0
  <2>3. f \in GlobRec /\ GlobalStrings(f) = d /\ d \in Int
    BY DEF GlobRec, GlobalStrings
  <2>4. module' = [module EXCEPT !.globals = gs] /\ live' = live + d
    BY <2>1, <2>2
  <2> HIDE DEF f, d
  <2>5. gs \in Seq(GlobRec) /\ GlobTotal(gs) = GlobTotal(module.globals) + GlobalStrings(f)
    <3> HIDE DEF gs
    <3> QED BY <2>2, <2>3, GlobAdded DEF gs
  <2> HIDE DEF gs
  <2> QED BY <2>1, <2>3, <2>4, <2>5, GlobalsKeep
<1> QED BY <1>1, <1>2

LEMMA ExportGlobalKeeps == ASSUME ParseInv, ExportGlobal PROVE ParseInv'
<1>1. /\ module.at = "parsing" /\ module \in ModuleRec /\ module.globals \in Seq(GlobRec)
      /\ live \in Int
  BY DEF ParseInv, ModuleRec, ExportGlobal, Section
<1>2. PICK i \in DOMAIN module.globals :
        /\ module' = [module EXCEPT !.globals[i].name = TRUE]
        /\ live' = IF module.globals[i].name THEN live ELSE live + 1
  BY DEF ExportGlobal
<1> DEFINE g == module.globals[i]
           f == [g EXCEPT !.name = TRUE]
           gs == [module.globals EXCEPT ![i] = f]
           d == IF g.name THEN 0 ELSE 1
<1>3. i \in 1 .. Len(module.globals) /\ g \in GlobRec
  BY <1>1, LenProperties, ElementOfSeq
<1>4. /\ f \in GlobRec /\ GlobalStrings(f) - GlobalStrings(g) = d /\ d \in Int
  <2>1. f \in GlobRec
    BY <1>3 DEF GlobRec
  <2>2. f.imp = g.imp /\ f.name = TRUE /\ g.imp \in BOOLEAN /\ g.name \in BOOLEAN
    BY <1>3 DEF GlobRec
  <2> HIDE DEF f, g
  <2>3. GlobalStrings(f) - GlobalStrings(g) = d
    BY <2>2 DEF GlobalStrings
  <2> QED BY <2>1, <2>3
<1>5. module' = [module EXCEPT !.globals = gs] /\ live' = live + d
  BY <1>1, <1>2 DEF ModuleRec
<1> HIDE DEF f, d
<1>6. /\ gs \in Seq(GlobRec)
      /\ GlobTotal(gs) = GlobTotal(module.globals) + (GlobalStrings(f) - GlobalStrings(g))
  <2> HIDE DEF gs
  <2> QED BY <1>1, <1>3, <1>4, GlobChanged DEF gs
<1>7. UNCHANGED <<types, sec, left>>
  BY DEF ExportGlobal
<1> HIDE DEF gs, g
<1> QED BY <1>1, <1>4, <1>5, <1>6, <1>7, GlobalsKeep

LEMMA ExportFunctionKeeps == ASSUME ParseInv, ExportFunction PROVE ParseInv'
<1>1. /\ module.at = "parsing" /\ module \in ModuleRec /\ module.funcs \in Seq(FuncRec)
      /\ live \in Int /\ Linked(module.funcs, module.at) /\ module.bodies \in Nat
  BY DEF ParseInv, ModuleRec, ExportFunction, Section
<1>2. PICK i \in DOMAIN module.funcs :
        module' = [module EXCEPT !.funcs[i].names = @ + 1, !.funcs[i].export = TRUE]
  BY DEF ExportFunction
<1> DEFINE g == module.funcs[i]
           f == [g EXCEPT !.names = @ + 1, !.export = TRUE]
<1>3. i \in 1 .. Len(module.funcs) /\ g \in FuncRec
  BY <1>1, LenProperties, ElementOfSeq
<1>4. /\ f \in FuncRec /\ FuncStrings(f) - FuncStrings(g) = 1 /\ f.body = g.body
      /\ f.code = g.code /\ f.mod = g.mod
  <2>1. f \in FuncRec
    <3> DEFINE h == g.names + 1
    <3>1. g.names \in Nat
      BY <1>3 DEF FuncRec
    <3>2. h \in Nat
      BY <3>1
    <3>3. f = [g EXCEPT !.names = h, !.export = TRUE]
      BY <1>3
    <3> HIDE DEF f, g, h
    <3> QED BY <1>3, <3>2, <3>3 DEF FuncRec
  <2>2. /\ f.imp = g.imp /\ f.names = g.names + 1
        /\ f.body = g.body /\ f.code = g.code /\ f.mod = g.mod
    BY <1>3 DEF FuncRec
  <2>3. g.names \in Nat /\ g.imp \in BOOLEAN
    BY <1>3 DEF FuncRec
  <2> HIDE DEF f, g
  <2>4. FuncStrings(f) - FuncStrings(g) = 1
    BY <2>2, <2>3 DEF FuncStrings
  <2> QED BY <2>1, <2>2, <2>4
<1>5. module' = [module EXCEPT !.funcs[i] = f, !.bodies = module.bodies]
  BY <1>1, <1>2, <1>3 DEF ModuleRec
<1>6. ((f.body \/ f.code) => f.mod) /\ (module.at # "parsed" => ~f.code)
  BY <1>1, <1>3, <1>4 DEF Linked
<1>7. UNCHANGED <<types, sec, left>> /\ live' = live + 1
  BY DEF ExportFunction
<1> HIDE DEF f
<1> QED BY <1>1, <1>4, <1>5, <1>6, <1>7, RowKeeps

LEMMA NameKeeps == ASSUME ParseInv, NameItem PROVE ParseInv'
<1>1. /\ module.at = "parsing" /\ module \in ModuleRec /\ module.funcs \in Seq(FuncRec)
      /\ live \in Int /\ Linked(module.funcs, module.at) /\ module.bodies \in Nat
  BY DEF ParseInv, ModuleRec, NameItem, Section
<1>2. PICK i \in DOMAIN module.funcs :
        /\ module.funcs[i].names = 0
        /\ module' = [module EXCEPT !.funcs[i].names = 1]
        /\ live' = live + 1
  BY DEF NameItem
<1> DEFINE g == module.funcs[i]
           f == [g EXCEPT !.names = 1]
<1>3. i \in 1 .. Len(module.funcs) /\ g \in FuncRec
  BY <1>1, LenProperties, ElementOfSeq
<1>4. /\ f \in FuncRec /\ FuncStrings(f) - FuncStrings(g) = 1 /\ f.body = g.body
      /\ f.code = g.code /\ f.mod = g.mod
  BY <1>2, <1>3 DEF FuncRec, FuncStrings
<1>5. module' = [module EXCEPT !.funcs[i] = f, !.bodies = module.bodies]
  BY <1>1, <1>2, <1>3 DEF ModuleRec
<1>6. ((f.body \/ f.code) => f.mod) /\ (module.at # "parsed" => ~f.code)
  BY <1>1, <1>3, <1>4 DEF Linked
<1>7. UNCHANGED <<types, sec, left>>
  BY DEF NameItem
<1> HIDE DEF f
<1> QED BY <1>1, <1>2, <1>4, <1>5, <1>6, <1>7, RowKeeps

LEMMA CodeKeeps == ASSUME ParseInv, CodeItem PROVE ParseInv'
<1>1. /\ module.at = "parsing" /\ module \in ModuleRec /\ module.funcs \in Seq(FuncRec)
      /\ live \in Int /\ Linked(module.funcs, module.at) /\ module.bodies \in Nat
      /\ module.imports \in Nat /\ DOMAIN module.funcs = 1 .. Len(module.funcs)
      /\ Len(module.funcs) \in Nat
  BY LenProperties DEF ParseInv, ModuleRec, CodeItem, Section
<1> DEFINE i == module.imports + module.bodies + 1
<1>2. PICK some \in BOOLEAN :
        module' = [module EXCEPT !.bodies = @ + 1,
                                 !.funcs[i].body = some, !.funcs[i].mod = some]
  BY DEF CodeItem
<1>3. i \in DOMAIN module.funcs
  BY <1>1 DEF CodeItem
<1> HIDE DEF i
<1> DEFINE g == module.funcs[i]
           f == [g EXCEPT !.body = some, !.mod = some]
           b == module.bodies + 1
<1>4. i \in 1 .. Len(module.funcs) /\ g \in FuncRec
  BY <1>1, <1>3, ElementOfSeq
<1>5. /\ f \in FuncRec /\ FuncStrings(f) - FuncStrings(g) = 0 /\ f.body = some
      /\ f.code = g.code /\ f.mod = some
  <2>1. f \in FuncRec
    BY <1>4 DEF FuncRec
  <2>2. /\ f.imp = g.imp /\ f.names = g.names
        /\ f.body = some /\ f.code = g.code /\ f.mod = some
    BY <1>4 DEF FuncRec
  <2>3. g.names \in Nat /\ g.imp \in BOOLEAN
    BY <1>4 DEF FuncRec
  <2> HIDE DEF f, g
  <2>4. FuncStrings(f) - FuncStrings(g) = 0
    BY <2>2, <2>3 DEF FuncStrings
  <2> QED BY <2>1, <2>2, <2>4
<1>6. module' = [module EXCEPT !.funcs[i] = f, !.bodies = b] /\ b \in Nat
  <2>1. module' = [module EXCEPT !.bodies = @ + 1, !.funcs[i] = f]
    BY <1>1, <1>2, <1>3 DEF ModuleRec
  <2>2. b \in Nat
    BY <1>1
  <2> HIDE DEF f
  <2>3. module' = [module EXCEPT !.funcs[i] = f, !.bodies = b]
    BY <1>1, <1>3, <2>1 DEF ModuleRec
  <2> QED BY <2>2, <2>3
<1>7. ((f.body \/ f.code) => f.mod) /\ (module.at # "parsed" => ~f.code)
  BY <1>1, <1>4, <1>5 DEF Linked
<1>8. UNCHANGED <<types, sec, left>> /\ live' = live + (FuncStrings(f) - FuncStrings(g))
  BY <1>1, <1>5 DEF CodeItem
<1> HIDE DEF f, b
<1> QED BY <1>1, <1>3, <1>5, <1>6, <1>7, <1>8, RowKeeps

LEMMA ParseLinkKeeps == ASSUME ParseInv, LinkImport PROVE ParseInv'
<1>1. /\ module.at = "parsed" /\ module \in ModuleRec /\ module.funcs \in Seq(FuncRec)
      /\ live \in Int /\ module.bodies \in Nat
  BY DEF ParseInv, ModuleRec, LinkImport
<1>2. PICK i \in DOMAIN module.funcs :
        module' = [module EXCEPT !.funcs[i].mod = TRUE, !.funcs[i].code = TRUE]
  BY DEF LinkImport
<1> DEFINE g == module.funcs[i]
           f == [g EXCEPT !.mod = TRUE, !.code = TRUE]
<1>3. i \in 1 .. Len(module.funcs) /\ g \in FuncRec
  BY <1>1, LenProperties, ElementOfSeq
<1>4. f \in FuncRec /\ FuncStrings(f) - FuncStrings(g) = 0 /\ f.mod = TRUE
  <2>1. f \in FuncRec
    BY <1>3 DEF FuncRec
  <2>2. /\ f.imp = g.imp /\ f.names = g.names
        /\ f.mod = TRUE
    BY <1>3 DEF FuncRec
  <2>3. g.names \in Nat /\ g.imp \in BOOLEAN
    BY <1>3 DEF FuncRec
  <2> HIDE DEF f, g
  <2>4. FuncStrings(f) - FuncStrings(g) = 0
    BY <2>2, <2>3 DEF FuncStrings
  <2> QED BY <2>1, <2>2, <2>4
<1>5. module' = [module EXCEPT !.funcs[i] = f, !.bodies = module.bodies]
  BY <1>1, <1>2, <1>3 DEF ModuleRec
<1>6. UNCHANGED <<types, sec, left>> /\ live' = live + (FuncStrings(f) - FuncStrings(g))
  BY <1>1, <1>4 DEF LinkImport
<1> HIDE DEF f
<1> QED BY <1>1, <1>4, <1>5, <1>6, RowKeeps

LEMMA ParseFindKeeps == ASSUME ParseInv, FindFunction PROVE ParseInv'
<1>1. /\ module.at = "parsed" /\ module \in ModuleRec /\ module.funcs \in Seq(FuncRec)
      /\ live \in Int /\ module.bodies \in Nat /\ Linked(module.funcs, module.at)
  BY DEF ParseInv, ModuleRec, FindFunction
<1>2. PICK i \in DOMAIN module.funcs :
        /\ module.funcs[i].body
        /\ module' = [module EXCEPT !.funcs[i].code = TRUE]
  BY DEF FindFunction
<1> DEFINE g == module.funcs[i]
           f == [g EXCEPT !.code = TRUE]
<1>3. i \in 1 .. Len(module.funcs) /\ g \in FuncRec
  BY <1>1, LenProperties, ElementOfSeq
<1>4. f \in FuncRec /\ FuncStrings(f) - FuncStrings(g) = 0 /\ f.mod = g.mod
  <2>1. f \in FuncRec
    BY <1>3 DEF FuncRec
  <2>2. /\ f.imp = g.imp /\ f.names = g.names
        /\ f.mod = g.mod
    BY <1>3 DEF FuncRec
  <2>3. g.names \in Nat /\ g.imp \in BOOLEAN
    BY <1>3 DEF FuncRec
  <2> HIDE DEF f, g
  <2>4. FuncStrings(f) - FuncStrings(g) = 0
    BY <2>2, <2>3 DEF FuncStrings
  <2> QED BY <2>1, <2>2, <2>4
<1>5. module' = [module EXCEPT !.funcs[i] = f, !.bodies = module.bodies]
  BY <1>1, <1>2, <1>3 DEF ModuleRec
<1>6. f.mod
  BY <1>1, <1>2, <1>3, <1>4 DEF Linked
<1>7. UNCHANGED <<types, sec, left>> /\ live' = live + (FuncStrings(f) - FuncStrings(g))
  BY <1>1, <1>4 DEF FindFunction
<1> HIDE DEF f
<1> QED BY <1>1, <1>4, <1>5, <1>6, <1>7, RowKeeps

(* A type read: it is in the environment's list, once.                     *)
LEMMA AddFuncTypeIs ==
  ASSUME OneEach(types), NEW t \in Sigs
  PROVE  /\ OneEach(AddFuncType(t)) /\ t \in Range(AddFuncType(t))
         /\ Range(types) \subseteq Range(AddFuncType(t))
<1>1. types \in Seq(Sigs) /\ Len(types) \in Nat /\ DOMAIN types = 1 .. Len(types)
  BY LenProperties DEF OneEach
<1>2. CASE t \in Range(types)
  BY <1>2 DEF AddFuncType
<1>3. CASE t \notin Range(types)
  <2> DEFINE ts == <<t>> \o types
             n == Len(types)
  <2>1. /\ ts \in Seq(Sigs) /\ Len(ts) = n + 1 /\ DOMAIN ts = 1 .. (n + 1) /\ ts[1] = t
        /\ \A i \in 2 .. (n + 1) : ts[i] = types[i-1]
    <3>1. <<t>> \in Seq(Sigs) /\ Len(<<t>>) = 1 /\ <<t>>[1] = t
      OBVIOUS
    <3>2. /\ ts \in Seq(Sigs) /\ Len(ts) = 1 + n
          /\ \A i \in 1 .. (1 + n) : ts[i] = IF i <= 1 THEN <<t>>[i] ELSE types[i-1]
      BY <1>1, <3>1, ConcatProperties
    <3> HIDE DEF ts
    <3>3. DOMAIN ts = 1 .. Len(ts)
      BY <3>2, LenProperties
    <3> QED BY <1>1, <3>1, <3>2, <3>3
  <2>2. AddFuncType(t) = ts
    BY <1>3 DEF AddFuncType
  <2> HIDE DEF ts
  <2>3. \A i \in 1 .. n : types[i] # t
    BY <1>1, <1>3 DEF Range
  <2>4. ASSUME NEW i \in 1 .. (n + 1), NEW j \in 1 .. (n + 1), ts[i] = ts[j] PROVE i = j
    <3>1. i # 1 => i \in 2 .. (n + 1) /\ i - 1 \in 1 .. n
      BY <1>1
    <3>2. j # 1 => j \in 2 .. (n + 1) /\ j - 1 \in 1 .. n
      BY <1>1
    <3>3. i # 1 => ts[i] = types[i-1] /\ ts[i] # t
      BY <2>1, <2>3, <3>1
    <3>4. j # 1 => ts[j] = types[j-1] /\ ts[j] # t
      BY <2>1, <2>3, <3>2
    <3>5. CASE i = 1
      BY <2>1, <2>4, <3>4, <3>5
    <3>6. CASE j = 1
      BY <2>1, <2>4, <3>3, <3>6
    <3>7. CASE i # 1 /\ j # 1
      <4>1. types[i-1] = types[j-1]
        BY <2>4, <3>3, <3>4, <3>7
      <4>2. i - 1 = j - 1
        BY <3>1, <3>2, <3>7, <4>1 DEF OneEach
      <4> QED BY <4>2
    <3> QED BY <3>5, <3>6, <3>7
  <2>5. OneEach(ts)
    BY <2>1, <2>4 DEF OneEach
  <2>6. t \in Range(ts)
    <3>1. 1 \in DOMAIN ts
      BY <1>1, <2>1
    <3> QED BY <2>1, <3>1 DEF Range
  <2>7. ASSUME NEW x \in Range(types) PROVE x \in Range(ts)
    <3>1. PICK i \in 1 .. n : x = types[i]
      BY <1>1, <2>7 DEF Range
    <3>2. i + 1 \in 2 .. (n + 1) /\ i + 1 \in DOMAIN ts /\ (i + 1) - 1 = i
      BY <1>1, <2>1
    <3>3. ts[i + 1] = x
      BY <2>1, <3>1, <3>2
    <3> QED BY <3>2, <3>3 DEF Range
  <2> QED BY <2>2, <2>5, <2>6, <2>7
<1> QED BY <1>2, <1>3

LEMMA TypeKeeps == ASSUME ParseInv, TypeItem PROVE ParseInv'
<1>1. /\ module.at = "parsing" /\ module \in ModuleRec /\ module.types \in Seq(Sigs)
      /\ Linked(module.funcs, module.at) /\ OneEach(types) /\ Known(types, module.types)
      /\ sec \in Int /\ live \in Int /\ left \in Int /\ live = ModuleStrings(module) + left
  BY DEF ParseInv, ModuleRec, TypeItem, Section
<1>2. PICK t \in Sigs : /\ types' = AddFuncType(t)
                        /\ module' = [module EXCEPT !.types = Append(@, t)]
  BY DEF TypeItem
<1>3. UNCHANGED <<sec, live, left>>
  BY DEF TypeItem
<1> DEFINE ts == Append(module.types, t)
           n == Len(module.types)
<1>4. /\ ts \in Seq(Sigs) /\ n \in Nat /\ Len(ts) = n + 1 /\ ts[n + 1] = t
      /\ \A i \in 1 .. n : ts[i] = module.types[i]
  BY <1>1, AppendProperties, LenProperties
<1>5. module' = [module EXCEPT !.types = ts]
  BY <1>1, <1>2
<1> HIDE DEF ts
<1>6. module' \in ModuleRec
  BY <1>1, <1>4, <1>5 DEF ModuleRec
<1>7. /\ module'.types = ts /\ module'.at = module.at /\ module'.funcs = module.funcs
      /\ module'.globals = module.globals /\ MemStrings(module') = MemStrings(module)
  BY <1>1, <1>5 DEF ModuleRec, MemStrings
<1>8. /\ OneEach(types') /\ t \in Range(types') /\ Range(types) \subseteq Range(types')
  BY <1>1, <1>2, AddFuncTypeIs
<1>9. Known(types', module'.types)
  <2> SUFFICES ASSUME NEW i \in 1 .. Len(ts) PROVE ts[i] \in Range(types')
    BY <1>7 DEF Known
  <2>1. CASE i = n + 1
    BY <1>4, <1>8, <2>1
  <2>2. CASE i # n + 1
    <3>1. i \in 1 .. n
      BY <1>4, <2>2
    <3>2. ts[i] = module.types[i] /\ module.types[i] \in Range(types)
      BY <1>1, <1>4, <3>1 DEF Known
    <3> QED BY <1>8, <3>2
  <2> QED BY <2>1, <2>2
<1>10. ModuleStrings(module') = ModuleStrings(module)
  <2>1. /\ ModuleStrings(module')
             = FuncTotal(module'.funcs) + GlobTotal(module'.globals) + MemStrings(module')
        /\ ModuleStrings(module)
             = FuncTotal(module.funcs) + GlobTotal(module.globals) + MemStrings(module)
    BY <1>1, <1>6, MemStringsAre
  <2> QED BY <1>7, <2>1
<1> QED BY <1>1, <1>3, <1>6, <1>7, <1>8, <1>9, <1>10 DEF ParseInv

LEMMA ParseInvInit == ParseInit => ParseInv
<1> SUFFICES ASSUME ParseInit PROVE ParseInv
  OBVIOUS
<1>1. types = <<>> /\ module = Blank0 /\ sec = -1 /\ live = 0 /\ left = 0
  BY DEF ParseInit
<1> DEFINE x == [Blank0 EXCEPT !.at = "none"]
<1>2. Blank0 = x
  BY DEF Blank0
<1>3. /\ x \in ModuleRec /\ x.at = "none" /\ ModuleStrings(x) = 0
      /\ Linked(x.funcs, "none") /\ Known(types, x.types)
  <2> HIDE DEF x
  <2> QED BY BlankIs DEF x
<1>4. OneEach(types)
  <2>1. types \in Seq(Sigs) /\ Len(types) = 0
    BY <1>1
  <2> QED BY <2>1 DEF OneEach
<1> HIDE DEF x
<1> QED BY <1>1, <1>2, <1>3, <1>4 DEF ParseInv

LEMMA ParseInvNext == ParseInv /\ [ParseNext]_parseVars => ParseInv'
<1> SUFFICES ASSUME ParseInv, [ParseNext]_parseVars PROVE ParseInv'
  OBVIOUS
<1>1. CASE UNCHANGED parseVars
  BY <1>1 DEF parseVars, ParseInv
<1>2. CASE ParseBegin
  BY <1>2, ParseBeginKeeps
<1>3. CASE OpenSection
  BY <1>3, OpenKeeps
<1>4. CASE CloseSection
  BY <1>4, CloseKeeps
<1>5. CASE ParseEnd
  BY <1>5, EndKeeps
<1>6. CASE ParseFails
  BY <1>6, FailsKeeps
<1>7. CASE TypeItem
  BY <1>7, TypeKeeps
<1>8. CASE PreallocFails
  BY <1>8, WildKeeps DEF PreallocFails
<1>9. CASE FunctionItem
  <2>1. sec = Section.function /\ AddFunction(FALSE)
    BY <1>9 DEF FunctionItem
  <2>2. module.at = "parsing"
    BY <2>1 DEF ParseInv, Section
  <2> QED BY <2>1, <2>2, AddFunctionKeeps
<1>10. CASE ImportFunction
  <2>1. sec = Section.import /\ AddFunction(TRUE)
    BY <1>10 DEF ImportFunction
  <2>2. module.at = "parsing"
    BY <2>1 DEF ParseInv, Section
  <2> QED BY <2>1, <2>2, AddFunctionKeeps
<1>22. CASE GlobalItem
  <2>1. sec = Section.global /\ AddGlobal(FALSE)
    BY <1>22 DEF GlobalItem
  <2>2. module.at = "parsing"
    BY <2>1 DEF ParseInv, Section
  <2> QED BY <2>1, <2>2, AddGlobalKeeps
<1>23. CASE ImportGlobal
  <2>1. sec = Section.import /\ AddGlobal(TRUE)
    BY <1>23 DEF ImportGlobal
  <2>2. module.at = "parsing"
    BY <2>1 DEF ParseInv, Section
  <2> QED BY <2>1, <2>2, AddGlobalKeeps
<1>11. CASE ImportMemory
  BY <1>11, ImportMemoryKeeps
<1>12. CASE ExportFunction
  BY <1>12, ExportFunctionKeeps
<1>13. CASE ExportGlobal
  BY <1>13, ExportGlobalKeeps
<1>14. CASE ExportMemory
  BY <1>14, ExportMemoryKeeps
<1>24. CASE ExportTable
  BY <1>24, ExportTableKeeps
<1>15. CASE StartItem
  BY <1>15, StartKeeps
<1>16. CASE CodeItem
  BY <1>16, CodeKeeps
<1>17. CASE NameItem
  BY <1>17, NameKeeps
<1>18. CASE CustomFails
  BY <1>18, CustomKeeps
<1>19. CASE LinkImport
  BY <1>19, ParseLinkKeeps
<1>20. CASE FindFunction
  BY <1>20, ParseFindKeeps
<1>21. CASE FreeModule
  BY <1>21, FreeModuleKeeps
<1> QED BY <1>1, <1>2, <1>3, <1>4, <1>5, <1>6, <1>7, <1>8, <1>9, <1>10, <1>11, <1>12, <1>13,
           <1>14, <1>15, <1>16, <1>17, <1>18, <1>19, <1>20, <1>21, <1>22, <1>23, <1>24 DEF ParseNext

LEMMA ParseInvWhole == ParseInv => ModuleWhole
<1> SUFFICES ASSUME ParseInv PROVE ModuleWhole
  OBVIOUS
<1>1. /\ OneEach(types) /\ module \in ModuleRec /\ Known(types, module.types)
      /\ Linked(module.funcs, module.at) /\ types \in Seq(Sigs)
      /\ module.types \in Seq(Sigs) /\ module.funcs \in Seq(FuncRec)
  BY DEF ParseInv, OneEach, ModuleRec
<1>2. StringsOwned
  BY DEF StringsOwned, ParseInv
<1>3. Len(types) = Cardinality(Range(types))
  <2> DEFINE n == Len(types)
             S == Range(types)
  <2>1. n \in Nat /\ DOMAIN types = 1 .. n /\ types \in [1 .. n -> Sigs]
    BY <1>1, LenProperties, ElementOfSeq
  <2>2. types \in Bijection(1 .. n, S)
    <3>1. types \in [1 .. n -> S] /\ \A y \in S : \E i \in 1 .. n : types[i] = y
      BY <2>1 DEF Range
    <3>2. \A i, j \in 1 .. n : types[i] = types[j] => i = j
      BY <1>1 DEF OneEach
    <3> HIDE DEF S
    <3> QED BY <3>1, <3>2 DEF Bijection, Injection, Surjection, IsInjective
  <2>3. ExistsBijection(1 .. n, S)
    BY <2>2 DEF ExistsBijection
  <2> HIDE DEF S, n
  <2>4. Cardinality(S) = n
    BY <2>1, <2>3, FS_CountingElements
  <2> QED BY <2>4 DEF S, n
<1>4. Range(module.types) \subseteq Range(types)
  <2>1. DOMAIN module.types = 1 .. Len(module.types)
    BY <1>1, LenProperties
  <2> QED BY <1>1, <2>1 DEF Known, Range
<1>5. CallableKnown
  <2>1. DOMAIN module.funcs = 1 .. Len(module.funcs)
    BY <1>1, LenProperties
  <2> QED BY <1>1, <2>1 DEF CallableKnown, Linked
<1> QED BY <1>2, <1>3, <1>4, <1>5 DEF ModuleWhole, TypesUnique

(* The strings that m3_ParseModule and its helpers read into the heap are  *)
(* always those of the module and those known to be lost, the types of the *)
(* environment stay unique and cover the module's, and a function that has *)
(* code knows its module: after every sequence of sections, items, errors  *)
(* and modules, however many functions, globals and names there are.       *)
THEOREM ModuleStaysWhole == ParseSpec => []ModuleWhole
<1>1. ParseInit => ParseInv
  BY ParseInvInit
<1>2. ParseInv /\ [ParseNext]_parseVars => ParseInv'
  BY ParseInvNext
<1>3. ParseInv => ModuleWhole
  BY ParseInvWhole
<1> QED BY <1>1, <1>2, <1>3, PTL DEF ParseSpec

-----------------------------------------------------------------------------
(*                    The code pages of the WASM runtime                   *)

(* A sequence that lists a set, each element once.                         *)
Lists(q, S) ==
  /\ q \in Seq(S)
  /\ \A x \in S : \E i \in 1 .. Len(q) : q[i] = x
  /\ \A i, j \in 1 .. Len(q) : q[i] = q[j] => i = j

LEMMA ListsIs ==
  ASSUME NEW q, NEW S, Lists(q, S)
  PROVE  /\ q \in Seq(S) /\ Len(q) \in Nat /\ DOMAIN q = 1 .. Len(q) /\ Range(q) = S
         /\ \A i \in 1 .. Len(q) : q[i] \in S
         /\ IsFiniteSet(S) /\ Cardinality(S) = Len(q)
<1> DEFINE n == Len(q)
<1>1. q \in Seq(S) /\ n \in Nat /\ DOMAIN q = 1 .. n /\ \A i \in 1 .. n : q[i] \in S
  BY LenProperties, ElementOfSeq DEF Lists
<1>2. Range(q) = S
  BY <1>1 DEF Lists, Range
<1>3. q \in Bijection(1 .. n, S)
  <2>1. q \in [1 .. n -> S] /\ \A y \in S : \E i \in 1 .. n : q[i] = y
    BY <1>1 DEF Lists
  <2>2. \A i, j \in 1 .. n : q[i] = q[j] => i = j
    BY DEF Lists
  <2> QED BY <2>1, <2>2 DEF Bijection, Injection, Surjection, IsInjective
<1>4. ExistsBijection(1 .. n, S)
  BY <1>3 DEF ExistsBijection
<1> HIDE DEF n
<1>5. IsFiniteSet(S) /\ Cardinality(S) = n
  BY <1>1, <1>4, FS_CountingElements, FS_NatBijection
<1> QED BY <1>1, <1>2, <1>5 DEF n

LEMMA ListsNone == Lists(<<>>, {})
BY DEF Lists

LEMMA ListsConcat ==
  ASSUME NEW q, NEW S, Lists(q, S), NEW r, NEW T, Lists(r, T), S \cap T = {}
  PROVE  Lists(q \o r, S \cup T) /\ Len(q \o r) = Len(q) + Len(r)
<1> DEFINE U == S \cup T
           m == Len(q)
           n == Len(r)
           c == q \o r
<1>1. /\ q \in Seq(S) /\ m \in Nat /\ \A i \in 1 .. m : q[i] \in S
      /\ r \in Seq(T) /\ n \in Nat /\ \A i \in 1 .. n : r[i] \in T
  BY ListsIs
<1>2. q \in Seq(U) /\ r \in Seq(U)
  BY <1>1, ElementOfSeq, SeqDef
<1>3. /\ c \in Seq(U) /\ Len(c) = m + n
      /\ \A i \in 1 .. (m + n) : c[i] = IF i <= m THEN q[i] ELSE r[i - m]
  <2> HIDE DEF U
  <2> QED BY <1>2, ConcatProperties
<1> HIDE DEF c
<1>4. ASSUME NEW x \in U PROVE \E i \in 1 .. Len(c) : c[i] = x
  <2>1. CASE x \in S
    <3>1. PICK i \in 1 .. m : q[i] = x
      BY <2>1 DEF Lists
    <3>2. i \in 1 .. (m + n) /\ i <= m
      BY <1>1
    <3> QED BY <1>3, <3>1, <3>2
  <2>2. CASE x \in T
    <3>1. PICK i \in 1 .. n : r[i] = x
      BY <2>2 DEF Lists
    <3>2. i + m \in 1 .. (m + n) /\ ~(i + m <= m) /\ (i + m) - m = i
      BY <1>1
    <3> QED BY <1>3, <3>1, <3>2
  <2> QED BY <2>1, <2>2
<1>5. ASSUME NEW i \in 1 .. Len(c), NEW j \in 1 .. Len(c), c[i] = c[j] PROVE i = j
  <2>1. i \in 1 .. (m + n) /\ j \in 1 .. (m + n)
    BY <1>3
  <2>2. i <= m => i \in 1 .. m /\ c[i] = q[i] /\ c[i] \in S
    BY <1>1, <1>3, <2>1
  <2>3. j <= m => j \in 1 .. m /\ c[j] = q[j] /\ c[j] \in S
    BY <1>1, <1>3, <2>1
  <2>4. ~(i <= m) => i - m \in 1 .. n /\ c[i] = r[i - m] /\ c[i] \in T
    BY <1>1, <1>3, <2>1
  <2>5. ~(j <= m) => j - m \in 1 .. n /\ c[j] = r[j - m] /\ c[j] \in T
    BY <1>1, <1>3, <2>1
  <2>6. CASE i <= m /\ j <= m
    BY <1>5, <2>2, <2>3, <2>6 DEF Lists
  <2>7. CASE ~(i <= m) /\ ~(j <= m)
    <3>1. i - m = j - m
      BY <1>5, <2>4, <2>5, <2>7 DEF Lists
    <3> QED BY <1>1, <2>1, <3>1
  <2>8. CASE (i <= m) # (j <= m)
    BY <1>5, <2>2, <2>3, <2>4, <2>5, <2>8
  <2> QED BY <2>6, <2>7, <2>8
<1> QED BY <1>3, <1>4, <1>5 DEF Lists, c

LEMMA ListsPush ==
  ASSUME NEW q, NEW S, Lists(q, S), NEW p, p \notin S
  PROVE  Lists(<<p>> \o q, S \cup {p}) /\ Len(<<p>> \o q) = Len(q) + 1
<1> DEFINE h == <<p>>
           P == {p}
<1>1. Lists(h, P) /\ Len(h) = 1
  BY DEF Lists
<1>2. P \cap S = {}
  OBVIOUS
<1>3. P \cup S = S \cup {p}
  OBVIOUS
<1> HIDE DEF h, P
<1>4. Lists(h \o q, P \cup S) /\ Len(h \o q) = Len(h) + Len(q)
  BY <1>1, <1>2, ListsConcat
<1>5. Len(q) \in Nat
  BY ListsIs
<1>6. Len(h) + Len(q) = Len(q) + 1
  BY <1>1, <1>5
<1>7. Lists(h \o q, S \cup {p}) /\ Len(h \o q) = Len(q) + 1
  BY <1>3, <1>4, <1>6
<1> QED BY <1>7 DEF h

LEMMA ListsRemove ==
  ASSUME NEW q, NEW S, Lists(q, S), NEW k \in 1 .. Len(q)
  PROVE  Lists(RemoveAt(q, k), S \ {q[k]}) /\ Len(RemoveAt(q, k)) = Len(q) - 1 /\ q[k] \in S
<1> DEFINE n == Len(q)
           c == RemoveAt(q, k)
           a == SubSeq(q, 1, k - 1)
           b == SubSeq(q, k + 1, n)
           T == S \ {q[k]}
<1>1. /\ q \in Seq(S) /\ n \in Nat /\ \A i \in 1 .. n : q[i] \in S
      /\ \A i, j \in 1 .. n : q[i] = q[j] => i = j
  BY ListsIs DEF Lists
<1>2. /\ a \in Seq(T) /\ Len(a) = k - 1 /\ \A i \in 1 .. (k - 1) : a[i] = q[i]
  <2> DEFINE e == k - 1
             o == 1
  <2>1. \A i \in o .. e : q[i] \in T
    BY <1>1
  <2>2. o \in Int /\ e \in Int /\ (o <= e => e - o + 1 = k - 1) /\ (~(o <= e) => k - 1 = 0)
        /\ e - o + 1 = k - 1
    OBVIOUS
  <2>3. a = SubSeq(q, o, e)
    OBVIOUS
  <2> HIDE DEF o, e, T
  <2>4. /\ SubSeq(q, o, e) \in Seq(T) /\ Len(SubSeq(q, o, e)) = IF o <= e THEN e - o + 1 ELSE 0
        /\ \A i \in 1 .. e - o + 1 : SubSeq(q, o, e)[i] = q[o + i - 1]
    BY <2>1, <2>2, SubSeqProperties
  <2>5. \A i \in 1 .. (k - 1) : o + i - 1 = i
    BY DEF o
  <2> QED BY <2>2, <2>3, <2>4, <2>5
<1>3. /\ b \in Seq(T) /\ Len(b) = n - k /\ \A i \in 1 .. (n - k) : b[i] = q[k + i]
  <2> DEFINE o == k + 1
  <2>1. \A i \in o .. n : q[i] \in T
    BY <1>1
  <2>2. o \in Int /\ n \in Int /\ (o <= n => n - o + 1 = n - k) /\ (~(o <= n) => n - k = 0)
        /\ n - o + 1 = n - k
    BY <1>1
  <2>3. b = SubSeq(q, o, n)
    OBVIOUS
  <2>5. \A i \in 1 .. (n - k) : o + i - 1 = k + i
    BY <1>1
  <2> HIDE DEF o, T, n
  <2>4. /\ SubSeq(q, o, n) \in Seq(T) /\ Len(SubSeq(q, o, n)) = IF o <= n THEN n - o + 1 ELSE 0
        /\ \A i \in 1 .. n - o + 1 : SubSeq(q, o, n)[i] = q[o + i - 1]
    BY <2>1, <2>2, SubSeqProperties
  <2> QED BY <2>2, <2>3, <2>4, <2>5
<1>4. c = a \o b
  BY DEF RemoveAt
<1>5. k \in Nat /\ k >= 1 /\ k <= n
  OBVIOUS
<1> HIDE DEF a, b, T, c, n
<1>6. /\ c \in Seq(T) /\ Len(c) = n - 1
      /\ \A i \in 1 .. (n - 1) : c[i] = IF i <= k - 1 THEN q[i] ELSE q[i + 1]
  <2>1. /\ a \o b \in Seq(T) /\ Len(a \o b) = Len(a) + Len(b)
        /\ \A i \in 1 .. Len(a) + Len(b) : (a \o b)[i] = IF i <= Len(a) THEN a[i] ELSE b[i - Len(a)]
    BY <1>2, <1>3, ConcatProperties
  <2>2. Len(a) + Len(b) = n - 1
    BY <1>1, <1>2, <1>3, <1>5
  <2>3. ASSUME NEW i \in 1 .. (n - 1) PROVE c[i] = IF i <= k - 1 THEN q[i] ELSE q[i + 1]
    <3>1. CASE i <= k - 1
      <4>1. i \in 1 .. (k - 1)
        BY <1>1, <1>5, <3>1
      <4> QED BY <1>2, <1>4, <2>1, <2>2, <3>1, <4>1
    <3>2. CASE ~(i <= k - 1)
      <4>1. i - (k - 1) \in 1 .. (n - k) /\ k + (i - (k - 1)) = i + 1
        BY <1>1, <1>5, <3>2
      <4>2. b[i - (k - 1)] = q[i + 1]
        BY <1>3, <4>1
      <4> QED BY <1>2, <1>4, <2>1, <2>2, <3>2, <4>2
    <3> QED BY <3>1, <3>2
  <2> QED BY <1>4, <2>1, <2>2, <2>3
<1>7. ASSUME NEW x \in T PROVE \E i \in 1 .. Len(c) : c[i] = x
  <2>1. x \in S /\ x # q[k]
    BY DEF T
  <2>2. PICK i \in 1 .. n : q[i] = x
    BY <2>1 DEF Lists, n
  <2>3. i # k
    BY <2>1, <2>2
  <2>4. CASE i < k
    <3>1. i \in 1 .. (n - 1) /\ i <= k - 1
      BY <1>1, <1>5, <2>4
    <3> QED BY <1>6, <2>2, <3>1
  <2>5. CASE i > k
    <3>1. i - 1 \in 1 .. (n - 1) /\ ~(i - 1 <= k - 1) /\ (i - 1) + 1 = i
      BY <1>1, <1>5, <2>5
    <3> QED BY <1>6, <2>2, <3>1
  <2> QED BY <1>5, <2>3, <2>4, <2>5
<1>8. ASSUME NEW i \in 1 .. Len(c), NEW j \in 1 .. Len(c), c[i] = c[j] PROVE i = j
  <2> DEFINE I == IF i <= k - 1 THEN i ELSE i + 1
             J == IF j <= k - 1 THEN j ELSE j + 1
  <2>1. I \in 1 .. n /\ J \in 1 .. n /\ i \in 1 .. (n - 1) /\ j \in 1 .. (n - 1)
    BY <1>1, <1>5, <1>6
  <2>2. c[i] = q[I] /\ c[j] = q[J]
    BY <1>6, <2>1
  <2>3. I = J
    BY <1>1, <1>8, <2>1, <2>2
  <2> QED BY <1>1, <1>5, <2>1, <2>3
<1>9. q[k] \in S
  BY <1>1, <1>5
<1> QED BY <1>6, <1>7, <1>8, <1>9 DEF Lists, T, c, n

-----------------------------------------------------------------------------

RTs == {"main", "tmp"}
Codes == Funcs \cup {"expr"}
PageRec == [line : Nat, code : SUBSET Codes]
RtRec == [open : Seq(Pages), full : Seq(Pages), num : Int, active : Int]
StoreRec == [page : [Pages -> PageRec], made : Nat, lost : SUBSET Pages,
             released : Seq(Pages), rt : [RTs -> RtRec]]

(* Where a page is.                                                        *)
AtEnv == <<"released", "env">>
AtOpen(r) == <<"open", r>>
AtFull(r) == <<"full", r>>
AtComp == <<"held", "comp">>
AtNone == <<"lost", "none">>
Spots == {AtEnv, AtComp, AtNone} \cup {AtOpen(r) : r \in RTs} \cup {AtFull(r) : r \in RTs}
In(home, x) == {p \in DOMAIN home : home[p] = x}

(* The lists of the store are what the ledger home says, and no page is    *)
(* written past its end.                                                   *)
RtPlaced(rt, home, r) ==
  /\ Lists(rt.open, In(home, AtOpen(r))) /\ Lists(rt.full, In(home, AtFull(r)))
  /\ rt.num = Len(rt.open) + Len(rt.full) + rt.active
LinesFit(s) == \A p \in Pages : s.page[p].line <= PageLines /\ (p > s.made => s.page[p].line = 0)
Placed(s, home) ==
  /\ s \in StoreRec /\ s.made <= NPages /\ home \in [1 .. s.made -> Spots]
  /\ Lists(s.released, In(home, AtEnv)) /\ s.lost = In(home, AtNone)
  /\ \A r \in RTs : RtPlaced(s.rt[r], home, r)
  /\ LinesFit(s)

LEMMA SpotsDiffer ==
  /\ AtEnv \in Spots /\ AtComp \in Spots /\ AtNone \in Spots
  /\ AtEnv # AtComp /\ AtEnv # AtNone /\ AtComp # AtNone
  /\ \A r \in RTs : /\ AtOpen(r) \in Spots /\ AtFull(r) \in Spots
                    /\ AtOpen(r) # AtEnv /\ AtOpen(r) # AtComp /\ AtOpen(r) # AtNone
                    /\ AtFull(r) # AtEnv /\ AtFull(r) # AtComp /\ AtFull(r) # AtNone
  /\ \A r, q \in RTs : /\ AtOpen(r) # AtFull(q) /\ (AtOpen(r) = AtOpen(q) => r = q)
                       /\ (AtFull(r) = AtFull(q) => r = q)
<1>1. /\ AtEnv \in Spots /\ AtComp \in Spots /\ AtNone \in Spots
      /\ \A r \in RTs : AtOpen(r) \in Spots /\ AtFull(r) \in Spots
  BY DEF Spots
<1>2. /\ AtEnv # AtComp /\ AtEnv # AtNone /\ AtComp # AtNone
  BY DEF AtEnv, AtComp, AtNone
<1>3. \A r \in RTs : /\ AtOpen(r) # AtEnv /\ AtOpen(r) # AtComp /\ AtOpen(r) # AtNone
                     /\ AtFull(r) # AtEnv /\ AtFull(r) # AtComp /\ AtFull(r) # AtNone
  BY DEF AtEnv, AtComp, AtNone, AtOpen, AtFull
<1>4. \A r, q \in RTs : /\ AtOpen(r) # AtFull(q) /\ (AtOpen(r) = AtOpen(q) => r = q)
                        /\ (AtFull(r) = AtFull(q) => r = q)
  BY DEF AtOpen, AtFull
<1> QED BY <1>1, <1>2, <1>3, <1>4

(* A page in another place, perhaps a new one.                             *)
PutAt(home, m, p, x) == [q \in 1 .. m |-> IF q = p THEN x ELSE home[q]]

PutSays(home, n, m, p, x) ==
  /\ PutAt(home, m, p, x) \in [1 .. m -> Spots] /\ PutAt(home, m, p, x)[p] = x
  /\ \A q \in 1 .. n : q # p => PutAt(home, m, p, x)[q] = home[q]
  /\ In(PutAt(home, m, p, x), x) = In(home, x) \cup {p}
  /\ \A y : y # x => In(PutAt(home, m, p, x), y) = In(home, y) \ {p}

LEMMA PutIs ==
  ASSUME NEW n \in Nat, NEW m \in Nat, NEW home \in [1 .. n -> Spots], NEW p \in 1 .. m,
         m = n \/ (m = n + 1 /\ p = m), NEW x \in Spots
  PROVE  PutSays(home, n, m, p, x)
<1> DEFINE h == PutAt(home, m, p, x)
<1>1. \A q \in 1 .. m : q # p => q \in 1 .. n
  OBVIOUS
<1>2. h \in [1 .. m -> Spots] /\ h[p] = x /\ DOMAIN h = 1 .. m
  BY <1>1 DEF PutAt
<1>3. \A q \in 1 .. n : q \in 1 .. m /\ (q # p => h[q] = home[q])
  BY DEF PutAt
<1> HIDE DEF h
<1>4. DOMAIN home = 1 .. n
  OBVIOUS
<1>5. In(h, x) = In(home, x) \cup {p}
  BY <1>1, <1>2, <1>3, <1>4 DEF In
<1>6. ASSUME NEW y, y # x PROVE In(h, y) = In(home, y) \ {p}
  BY <1>1, <1>2, <1>3, <1>4, <1>6 DEF In
<1> QED BY <1>2, <1>3, <1>5, <1>6 DEF h, PutSays

(* What the operations on the store do to its fields.                      *)
LEMMA EmitIs ==
  ASSUME NEW s \in StoreRec, NEW p \in Pages, NEW f \in Codes, NEW n \in Nat
  PROVE  LET t == EmitWords(s, p, f, n) IN
         /\ t \in StoreRec /\ t.made = s.made /\ t.lost = s.lost /\ t.released = s.released
         /\ t.rt = s.rt
         /\ t.page[p].line = s.page[p].line + n /\ t.page[p].code = s.page[p].code \cup {f}
         /\ \A q \in Pages : q # p => t.page[q] = s.page[q]
<1> DEFINE g == [line |-> s.page[p].line + n, code |-> s.page[p].code \cup {f}]
           pg == [s.page EXCEPT ![p] = g]
           t == EmitWords(s, p, f, n)
<1>1. /\ s.page \in [Pages -> PageRec] /\ s.page[p] \in PageRec
  BY DEF StoreRec
<1>2. s.page[p].line \in Nat /\ s.page[p].code \in SUBSET Codes
  BY <1>1 DEF PageRec
<1>3. g \in PageRec
  BY <1>2 DEF PageRec
<1>4. t = [s EXCEPT !.page = pg]
  BY <1>1 DEF EmitWords, StoreRec
<1>5. /\ pg \in [Pages -> PageRec] /\ pg[p] = g /\ \A q \in Pages : q # p => pg[q] = s.page[q]
  BY <1>1, <1>3
<1> HIDE DEF g, t
<1>6. /\ t \in StoreRec /\ t.page = pg /\ t.made = s.made /\ t.lost = s.lost
      /\ t.released = s.released /\ t.rt = s.rt
  <2> HIDE DEF pg
  <2> QED BY <1>4, <1>5 DEF StoreRec
<1> QED BY <1>5, <1>6 DEF g, t

LEMMA ReleaseIs ==
  ASSUME NEW s \in StoreRec, NEW r \in RTs, NEW p \in Pages
  PROVE  LET t == Release(s, r, p) IN
         /\ t \in StoreRec /\ t.made = s.made /\ t.lost = s.lost /\ t.released = s.released
         /\ t.page = s.page
         /\ \A q \in RTs : q # r => t.rt[q] = s.rt[q]
         /\ t.rt[r].num = s.rt[r].num /\ t.rt[r].active = s.rt[r].active - 1
         /\ \/ t.rt[r].open = s.rt[r].open /\ t.rt[r].full = <<p>> \o s.rt[r].full
            \/ t.rt[r].full = s.rt[r].full /\ t.rt[r].open = <<p>> \o s.rt[r].open
<1> DEFINE t == Release(s, r, p)
           u == s.rt[r]
           fl == <<p>> \o u.full
           op == <<p>> \o u.open
           a == u.active - 1
           v == IF NumFreeLines(s, p) < Threshold THEN [u EXCEPT !.full = fl, !.active = a]
                ELSE [u EXCEPT !.open = op, !.active = a]
           rts == [s.rt EXCEPT ![r] = v]
<1>1. s.rt \in [RTs -> RtRec] /\ u \in RtRec
  BY DEF StoreRec
<1>2. fl \in Seq(Pages) /\ op \in Seq(Pages) /\ a \in Int
  <2>1. u.full \in Seq(Pages) /\ u.open \in Seq(Pages) /\ u.active \in Int
    BY <1>1 DEF RtRec
  <2>2. <<p>> \in Seq(Pages)
    OBVIOUS
  <2> QED BY <2>1, <2>2, ConcatProperties
<1>3. p # 0
  BY DEF Pages
<1>4. t = [s EXCEPT !.rt = rts]
  <2>1. CASE NumFreeLines(s, p) < Threshold
    BY <1>1, <1>3, <2>1 DEF Release, StoreRec, RtRec
  <2>2. CASE ~(NumFreeLines(s, p) < Threshold)
    BY <1>1, <1>3, <2>2 DEF Release, StoreRec, RtRec
  <2> QED BY <2>1, <2>2
<1> HIDE DEF t, fl, op, a
<1>5. /\ v \in RtRec /\ v.num = u.num /\ v.active = a
      /\ \/ v.open = u.open /\ v.full = fl
         \/ v.full = u.full /\ v.open = op
  <2>1. CASE NumFreeLines(s, p) < Threshold
    BY <1>1, <1>2, <2>1 DEF RtRec
  <2>2. CASE ~(NumFreeLines(s, p) < Threshold)
    BY <1>1, <1>2, <2>2 DEF RtRec
  <2> QED BY <2>1, <2>2
<1> HIDE DEF v
<1>6. /\ rts \in [RTs -> RtRec] /\ rts[r] = v /\ \A q \in RTs : q # r => rts[q] = s.rt[q]
  BY <1>1, <1>5
<1> HIDE DEF rts
<1>7. /\ t \in StoreRec /\ t.rt = rts /\ t.made = s.made /\ t.lost = s.lost
      /\ t.released = s.released /\ t.page = s.page
  BY <1>4, <1>6 DEF StoreRec
<1> QED BY <1>5, <1>6, <1>7 DEF t, fl, op, a

LEMMA GiveBackIs ==
  ASSUME NEW s \in StoreRec, NEW list \in Seq(Pages)
  PROVE  LET t == GiveBack(s, list) IN
         /\ t \in StoreRec /\ t.made = s.made /\ t.lost = s.lost /\ t.rt = s.rt
         /\ t.released = list \o s.released
         /\ \A q \in Pages : IF q \in Range(list) THEN t.page[q] = [line |-> 0, code |-> {}]
                             ELSE t.page[q] = s.page[q]
<1> DEFINE t == GiveBack(s, list)
           l == list \o s.released
           b == [line |-> 0, code |-> {}]
           pg == [p \in Pages |-> IF p \in Range(list) THEN b ELSE s.page[p]]
<1>1. s.page \in [Pages -> PageRec] /\ s.released \in Seq(Pages)
  BY DEF StoreRec
<1>2. l \in Seq(Pages)
  BY <1>1, ConcatProperties
<1>3. b \in PageRec
  BY DEF PageRec
<1>4. t = [s EXCEPT !.released = l, !.page = pg]
  BY DEF GiveBack
<1> HIDE DEF t, l, b
<1>5. pg \in [Pages -> PageRec]
      /\ \A q \in Pages : IF q \in Range(list) THEN pg[q] = b ELSE pg[q] = s.page[q]
  BY <1>1, <1>3
<1> HIDE DEF pg
<1>6. /\ t \in StoreRec /\ t.made = s.made /\ t.lost = s.lost /\ t.rt = s.rt
      /\ t.released = l /\ t.page = pg
  BY <1>2, <1>4, <1>5 DEF StoreRec
<1> QED BY <1>5, <1>6 DEF t, l, b

LEMMA RuntimeReleaseIs ==
  ASSUME NEW s \in StoreRec, NEW r \in RTs
  PROVE  LET t == RuntimeRelease(s, r) IN
         /\ t \in StoreRec /\ t.made = s.made /\ t.lost = s.lost
         /\ t.rt[r] = Fresh /\ \A q \in RTs : q # r => t.rt[q] = s.rt[q]
         /\ t.released = s.rt[r].full \o (s.rt[r].open \o s.released)
         /\ \A q \in Pages :
              IF q \in Range(s.rt[r].open) \/ q \in Range(s.rt[r].full)
              THEN t.page[q] = [line |-> 0, code |-> {}]
              ELSE t.page[q] = s.page[q]
<1> DEFINE t == RuntimeRelease(s, r)
           v == GiveBack(s, s.rt[r].open)
           w == GiveBack(v, s.rt[r].full)
           rts == [w.rt EXCEPT ![r] = Fresh]
<1>1. s.rt \in [RTs -> RtRec] /\ s.rt[r].open \in Seq(Pages) /\ s.rt[r].full \in Seq(Pages)
  BY DEF StoreRec, RtRec
<1>2. /\ v \in StoreRec /\ v.made = s.made /\ v.lost = s.lost /\ v.rt = s.rt
      /\ v.released = s.rt[r].open \o s.released
      /\ \A q \in Pages : IF q \in Range(s.rt[r].open) THEN v.page[q] = [line |-> 0, code |-> {}]
                          ELSE v.page[q] = s.page[q]
  BY <1>1, GiveBackIs
<1>3. t = [w EXCEPT !.rt[r] = Fresh]
  BY DEF RuntimeRelease
<1> HIDE DEF v, t
<1>4. /\ w \in StoreRec /\ w.made = v.made /\ w.lost = v.lost /\ w.rt = v.rt
      /\ w.released = s.rt[r].full \o v.released
      /\ \A q \in Pages : IF q \in Range(s.rt[r].full) THEN w.page[q] = [line |-> 0, code |-> {}]
                          ELSE w.page[q] = v.page[q]
  BY <1>1, <1>2, GiveBackIs
<1> HIDE DEF w
<1>5. t = [w EXCEPT !.rt = rts]
  BY <1>3, <1>4 DEF StoreRec
<1>6. Fresh \in RtRec
  BY DEF Fresh, RtRec
<1>7. /\ rts \in [RTs -> RtRec] /\ rts[r] = Fresh /\ \A q \in RTs : q # r => rts[q] = s.rt[q]
  BY <1>1, <1>2, <1>4, <1>6
<1> HIDE DEF rts
<1>8. /\ t \in StoreRec /\ t.made = w.made /\ t.lost = w.lost /\ t.released = w.released
      /\ t.page = w.page /\ t.rt = rts
  BY <1>4, <1>5, <1>7 DEF StoreRec
<1>9. \A q \in Pages :
         IF q \in Range(s.rt[r].open) \/ q \in Range(s.rt[r].full)
         THEN t.page[q] = [line |-> 0, code |-> {}]
         ELSE t.page[q] = s.page[q]
  BY <1>2, <1>4, <1>8
<1> QED BY <1>2, <1>4, <1>7, <1>8, <1>9 DEF t

-----------------------------------------------------------------------------

(* What the ledger says of a store.                                        *)
LEMMA PlacedIs ==
  ASSUME NEW s, NEW home, Placed(s, home)
  PROVE  /\ s \in StoreRec /\ s.made \in Nat /\ s.made <= NPages /\ NPages \in Nat
         /\ 1 .. s.made \subseteq Pages /\ home \in [1 .. s.made -> Spots]
         /\ DOMAIN home = 1 .. s.made
         /\ s.page \in [Pages -> PageRec] /\ s.lost \in SUBSET Pages
         /\ s.released \in Seq(Pages) /\ s.rt \in [RTs -> RtRec]
         /\ \A r \in RTs : /\ s.rt[r].open \in Seq(Pages) /\ s.rt[r].full \in Seq(Pages)
                           /\ s.rt[r].num \in Int /\ s.rt[r].active \in Int
         /\ \A p \in Pages : s.page[p].line \in Nat /\ s.page[p].code \in SUBSET Codes
<1>1. s \in StoreRec /\ s.made <= NPages /\ home \in [1 .. s.made -> Spots]
  BY DEF Placed
<1>2. NPages \in Nat
  BY WasmRuntimeAssumption
<1>3. /\ s.made \in Nat /\ s.page \in [Pages -> PageRec] /\ s.lost \in SUBSET Pages
      /\ s.released \in Seq(Pages) /\ s.rt \in [RTs -> RtRec]
  BY <1>1 DEF StoreRec
<1>4. \A r \in RTs : /\ s.rt[r].open \in Seq(Pages) /\ s.rt[r].full \in Seq(Pages)
                     /\ s.rt[r].num \in Int /\ s.rt[r].active \in Int
  BY <1>3 DEF RtRec
<1>5. \A p \in Pages : s.page[p].line \in Nat /\ s.page[p].code \in SUBSET Codes
  BY <1>3 DEF PageRec
<1>6. 1 .. s.made \subseteq Pages
  BY <1>1, <1>2, <1>3 DEF Pages
<1> QED BY <1>1, <1>2, <1>3, <1>4, <1>5, <1>6

(* A page that leaves one place for another.                               *)
MovedSays(home, m, p, x, h) ==
  /\ h \in [1 .. m -> Spots] /\ h[p] = x
  /\ \A q \in 1 .. m : q # p => h[q] = home[q]
  /\ In(h, x) = In(home, x) \cup {p} /\ p \notin In(home, x)
  /\ In(h, home[p]) = In(home, home[p]) \ {p}
  /\ \A y : (y # x /\ y # home[p]) => In(h, y) = In(home, y)

LEMMA MovedIs ==
  ASSUME NEW m \in Nat, NEW home \in [1 .. m -> Spots], NEW p \in 1 .. m,
         NEW x \in Spots, home[p] # x
  PROVE  MovedSays(home, m, p, x, PutAt(home, m, p, x))
<1> DEFINE h == PutAt(home, m, p, x)
<1>1. /\ h \in [1 .. m -> Spots] /\ h[p] = x
      /\ \A q \in 1 .. m : q # p => h[q] = home[q]
      /\ In(h, x) = In(home, x) \cup {p}
      /\ \A y : y # x => In(h, y) = In(home, y) \ {p}
  <2>1. PutSays(home, m, m, p, x)
    BY PutIs
  <2> QED BY <2>1 DEF PutSays
<1> HIDE DEF h
<1>2. \A y : y # home[p] => p \notin In(home, y)
  BY DEF In
<1> QED BY <1>1, <1>2 DEF h, MovedSays

Took(s, home, r, n, t, p, h) ==
  /\ Placed(t, h) /\ t.page = s.page /\ p \in 1 .. t.made /\ h[p] = AtComp /\ s.made <= t.made
  /\ NumFreeLines(t, p) >= n
  /\ p \in 1 .. s.made => home[p] \in {AtOpen(r), AtEnv}
  /\ \A q \in 1 .. s.made : q # p => h[q] = home[q]
  /\ \A q \in 1 .. t.made : q # p => q \in 1 .. s.made
  /\ t.rt[r].active = s.rt[r].active + 1
  /\ \A q \in RTs : q # r => t.rt[q] = s.rt[q]

(* The two fields that an acquisition changes in a runtime.                *)
RtOpened(s, r, l) == [s EXCEPT !.rt[r].open = l, !.rt[r].active = @ + 1]

LEMMA RtOpenIs ==
  ASSUME NEW s \in StoreRec, NEW r \in RTs, NEW l \in Seq(Pages)
  PROVE  LET t == RtOpened(s, r, l) IN
         /\ t \in StoreRec /\ t.made = s.made /\ t.lost = s.lost /\ t.released = s.released
         /\ t.page = s.page /\ \A q \in RTs : q # r => t.rt[q] = s.rt[q]
         /\ t.rt[r].open = l /\ t.rt[r].full = s.rt[r].full /\ t.rt[r].num = s.rt[r].num
         /\ t.rt[r].active = s.rt[r].active + 1
<1> DEFINE t == RtOpened(s, r, l)
           u == s.rt[r]
           a == u.active + 1
           v == [u EXCEPT !.open = l, !.active = a]
           rts == [s.rt EXCEPT ![r] = v]
<1>1. s.rt \in [RTs -> RtRec] /\ u \in RtRec
  BY DEF StoreRec
<1>2. a \in Int
  BY <1>1 DEF RtRec
<1>3. t = [s EXCEPT !.rt = rts]
  BY <1>1 DEF StoreRec, RtRec, RtOpened
<1> HIDE DEF a, t
<1>4. v \in RtRec /\ v.open = l /\ v.active = a /\ v.full = u.full /\ v.num = u.num
  BY <1>1, <1>2 DEF RtRec
<1> HIDE DEF v
<1>5. rts \in [RTs -> RtRec] /\ rts[r] = v /\ \A q \in RTs : q # r => rts[q] = s.rt[q]
  BY <1>1, <1>4
<1> HIDE DEF rts
<1>6. /\ t \in StoreRec /\ t.rt = rts /\ t.made = s.made /\ t.lost = s.lost
      /\ t.released = s.released /\ t.page = s.page
  BY <1>3, <1>5 DEF StoreRec
<1> QED BY <1>4, <1>5, <1>6 DEF a, t

LEMMA CountedIs ==
  ASSUME NEW s \in StoreRec, NEW r \in RTs, NEW p
  PROVE  LET t == Counted(s, r, p) IN
         /\ t \in StoreRec /\ t.made = s.made /\ t.lost = s.lost /\ t.released = s.released
         /\ t.page = s.page /\ \A q \in RTs : q # r => t.rt[q] = s.rt[q]
         /\ t.rt[r].open = s.rt[r].open /\ t.rt[r].full = s.rt[r].full
         /\ t.rt[r].num = s.rt[r].num + 1 /\ t.rt[r].active = s.rt[r].active + 1
<1> DEFINE t == Counted(s, r, p)
           u == s.rt[r]
           a == u.active + 1
           b == u.num + 1
           v == [u EXCEPT !.num = b, !.active = a]
           rts == [s.rt EXCEPT ![r] = v]
<1>1. s.rt \in [RTs -> RtRec] /\ u \in RtRec
  BY DEF StoreRec
<1>2. a \in Int /\ b \in Int
  BY <1>1 DEF RtRec
<1>3. t = [s EXCEPT !.rt = rts]
  BY <1>1 DEF StoreRec, RtRec, Counted
<1> HIDE DEF a, b, t
<1>4. v \in RtRec /\ v.open = u.open /\ v.active = a /\ v.full = u.full /\ v.num = b
  BY <1>1, <1>2 DEF RtRec
<1> HIDE DEF v
<1>5. rts \in [RTs -> RtRec] /\ rts[r] = v /\ \A q \in RTs : q # r => rts[q] = s.rt[q]
  BY <1>1, <1>4
<1> HIDE DEF rts
<1>6. /\ t \in StoreRec /\ t.rt = rts /\ t.made = s.made /\ t.lost = s.lost
      /\ t.released = s.released /\ t.page = s.page
  BY <1>3, <1>5 DEF StoreRec
<1> QED BY <1>4, <1>5, <1>6 DEF a, b, t

LEMMA OfCapacityIs ==
  ASSUME NEW s, NEW l \in Seq(Pages), NEW n
  PROVE  /\ OfCapacity(s, l, n) \in Nat
         /\ OfCapacity(s, l, n) > 0 => /\ OfCapacity(s, l, n) \in 1 .. Len(l)
                                       /\ NumFreeLines(s, l[OfCapacity(s, l, n)]) >= n
<1> DEFINE I == {i \in 1 .. Len(l) : NumFreeLines(s, l[i]) >= n}
<1>1. OfCapacity(s, l, n) = IF I # {} THEN Min(I) ELSE 0
  BY DEF OfCapacity, SelectInSeq
<1>2. I \in SUBSET Nat
  OBVIOUS
<1>3. I # {} => Min(I) \in I
  <2> HIDE DEF I
  <2> QED BY <1>2, LeastElement
<1>4. CASE I = {}
  BY <1>1, <1>4
<1>5. CASE I # {}
  <2> DEFINE k == Min(I)
  <2>1. OfCapacity(s, l, n) = k /\ k \in I
    BY <1>1, <1>3, <1>5
  <2> HIDE DEF k
  <2> QED BY <2>1
<1> QED BY <1>4, <1>5

LEMMA TakenFromOpen ==
  ASSUME NEW s, NEW home, Placed(s, home), NEW r \in RTs, NEW n \in Nat,
         NEW i \in 1 .. Len(s.rt[r].open), NumFreeLines(s, s.rt[r].open[i]) >= n,
         NEW t, t = [s EXCEPT !.rt[r].open = RemoveAt(@, i), !.rt[r].active = @ + 1]
  PROVE  \E h : Took(s, home, r, n, t, s.rt[r].open[i], h)
<1> DEFINE q == s.rt[r].open
           p == q[i]
           l == RemoveAt(q, i)
           m == s.made
           h == PutAt(home, m, p, AtComp)
<1>1. /\ s \in StoreRec /\ m \in Nat /\ home \in [1 .. m -> Spots] /\ DOMAIN home = 1 .. m
      /\ \A z \in RTs : s.rt[z].num \in Int /\ s.rt[z].active \in Int
      /\ m <= NPages /\ 1 .. m \subseteq Pages /\ q \in Seq(Pages)
  BY PlacedIs
<1>2. /\ Lists(q, In(home, AtOpen(r))) /\ Lists(s.rt[r].full, In(home, AtFull(r)))
      /\ s.rt[r].num = Len(q) + Len(s.rt[r].full) + s.rt[r].active
  BY DEF Placed, RtPlaced
<1>3. Lists(l, In(home, AtOpen(r)) \ {p}) /\ Len(l) = Len(q) - 1 /\ p \in In(home, AtOpen(r))
  <2> HIDE DEF q
  <2> QED BY <1>2, ListsRemove DEF q
<1>4. p \in 1 .. m /\ home[p] = AtOpen(r)
  BY <1>1, <1>3 DEF In
<1>5. l \in Seq(Pages)
  <2>1. In(home, AtOpen(r)) \ {p} \subseteq Pages
    BY <1>1 DEF In
  <2> DEFINE S == In(home, AtOpen(r)) \ {p}
  <2>2. l \in Seq(S)
    BY <1>3 DEF Lists
  <2> HIDE DEF S, l
  <2> QED BY <2>1, <2>2, SeqDef DEF S
<1>6. t = RtOpened(s, r, l)
  BY <1>1 DEF StoreRec, RtRec, RtOpened
<1> HIDE DEF l
<1>7. /\ t \in StoreRec /\ t.made = m /\ t.lost = s.lost /\ t.released = s.released
      /\ t.page = s.page /\ \A z \in RTs : z # r => t.rt[z] = s.rt[z]
      /\ t.rt[r].open = l /\ t.rt[r].full = s.rt[r].full /\ t.rt[r].num = s.rt[r].num
      /\ t.rt[r].active = s.rt[r].active + 1
  <2> DEFINE u == RtOpened(s, r, l)
  <2>1. /\ u \in StoreRec /\ u.made = s.made /\ u.lost = s.lost /\ u.released = s.released
        /\ u.page = s.page /\ \A z \in RTs : z # r => u.rt[z] = s.rt[z]
        /\ u.rt[r].open = l /\ u.rt[r].full = s.rt[r].full /\ u.rt[r].num = s.rt[r].num
        /\ u.rt[r].active = s.rt[r].active + 1
    BY <1>1, <1>5, RtOpenIs
  <2>2. t = u
    BY <1>6
  <2> HIDE DEF u
  <2> QED BY <2>1, <2>2
<1>8. MovedSays(home, m, p, AtComp, h)
  <2>1. home[p] # AtComp /\ AtComp \in Spots
    BY <1>4, SpotsDiffer
  <2> HIDE DEF p, m
  <2> QED BY <1>1, <1>4, <2>1, MovedIs
<1> HIDE DEF h, p, m
<1>9. /\ h \in [1 .. m -> Spots] /\ h[p] = AtComp /\ \A z \in 1 .. m : z # p => h[z] = home[z]
      /\ In(h, AtOpen(r)) = In(home, AtOpen(r)) \ {p}
      /\ \A y : (y # AtComp /\ y # AtOpen(r)) => In(h, y) = In(home, y)
  BY <1>4, <1>8 DEF MovedSays
<1>10. Placed(t, h)
  <2>1. Lists(t.released, In(h, AtEnv)) /\ t.lost = In(h, AtNone)
    <3>1. In(h, AtEnv) = In(home, AtEnv) /\ In(h, AtNone) = In(home, AtNone)
      BY <1>9, SpotsDiffer
    <3> QED BY <1>7, <3>1 DEF Placed
  <2>2. RtPlaced(t.rt[r], h, r)
    <3>1. In(h, AtFull(r)) = In(home, AtFull(r))
      BY <1>9, SpotsDiffer
    <3>2. Len(q) \in Nat /\ Len(s.rt[r].full) \in Nat
      BY <1>2, ListsIs
    <3>3. t.rt[r].num = Len(l) + Len(s.rt[r].full) + t.rt[r].active
      <4>1. s.rt[r].num = (Len(q) - 1) + Len(s.rt[r].full) + (s.rt[r].active + 1)
        <5> DEFINE nn == s.rt[r].num
                   xx == Len(q)
                   yy == Len(s.rt[r].full)
                   aa == s.rt[r].active
        <5>1. nn \in Int /\ xx \in Nat /\ yy \in Nat /\ aa \in Int /\ nn = xx + yy + aa
          BY <1>1, <1>2, <3>2
        <5> HIDE DEF nn, xx, yy, aa
        <5>2. nn = (xx - 1) + yy + (aa + 1)
          BY <5>1
        <5> QED BY <5>2 DEF nn, xx, yy, aa
      <4> QED BY <1>3, <1>7, <4>1
    <3> QED BY <1>2, <1>3, <1>7, <1>9, <3>1, <3>3 DEF RtPlaced
  <2>3. ASSUME NEW z \in RTs, z # r PROVE RtPlaced(t.rt[z], h, z)
    <3>1. In(h, AtFull(z)) = In(home, AtFull(z)) /\ In(h, AtOpen(z)) = In(home, AtOpen(z))
      BY <1>9, <2>3, SpotsDiffer
    <3>2. RtPlaced(s.rt[z], home, z) /\ t.rt[z] = s.rt[z]
      BY <1>7, <2>3 DEF Placed
    <3> QED BY <3>1, <3>2 DEF RtPlaced
  <2>4. LinesFit(t)
    BY <1>7 DEF Placed, LinesFit, m
  <2>5. \A z \in RTs : RtPlaced(t.rt[z], h, z)
    BY <2>2, <2>3
  <2> QED BY <1>1, <1>7, <1>9, <2>1, <2>4, <2>5 DEF Placed
<1>11. NumFreeLines(t, p) >= n
  BY <1>7 DEF NumFreeLines, p
<1>12. s.made = m
  BY DEF m
<1>13. Took(s, home, r, n, t, p, h)
  <2>1. /\ p \in 1 .. t.made /\ s.made <= t.made
        /\ p \in 1 .. s.made => home[p] \in {AtOpen(r), AtEnv}
    BY <1>1, <1>4, <1>7, <1>12
  <2>2. /\ \A z \in 1 .. s.made : z # p => h[z] = home[z]
        /\ \A z \in 1 .. t.made : z # p => z \in 1 .. s.made
    BY <1>7, <1>9, <1>12
  <2> QED BY <1>7, <1>9, <1>10, <1>11, <2>1, <2>2 DEF Took
<1> QED BY <1>13 DEF p

LEMMA TakenFromEnv ==
  ASSUME NEW s, NEW home, Placed(s, home), NEW r \in RTs, NEW n \in Nat,
         NEW i \in 1 .. Len(s.released), NumFreeLines(s, s.released[i]) >= n,
         NEW t, t = [Counted(s, r, s.released[i]) EXCEPT !.released = RemoveAt(@, i)]
  PROVE  \E h : Took(s, home, r, n, t, s.released[i], h)
<1> DEFINE q == s.released
           p == q[i]
           l == RemoveAt(q, i)
           m == s.made
           h == PutAt(home, m, p, AtComp)
           w == Counted(s, r, p)
<1>1. /\ s \in StoreRec /\ m \in Nat /\ home \in [1 .. m -> Spots] /\ DOMAIN home = 1 .. m
      /\ \A z \in RTs : s.rt[z].num \in Int /\ s.rt[z].active \in Int
      /\ m <= NPages /\ 1 .. m \subseteq Pages /\ q \in Seq(Pages)
  BY PlacedIs
<1>2. /\ Lists(q, In(home, AtEnv))
      /\ Lists(s.rt[r].open, In(home, AtOpen(r))) /\ Lists(s.rt[r].full, In(home, AtFull(r)))
      /\ s.rt[r].num = Len(s.rt[r].open) + Len(s.rt[r].full) + s.rt[r].active
  BY DEF Placed, RtPlaced
<1>3. Lists(l, In(home, AtEnv) \ {p}) /\ p \in In(home, AtEnv)
  <2> HIDE DEF q
  <2> QED BY <1>2, ListsRemove DEF q
<1>4. p \in 1 .. m /\ home[p] = AtEnv
  BY <1>1, <1>3 DEF In
<1>5. l \in Seq(Pages)
  <2>1. In(home, AtEnv) \ {p} \subseteq Pages
    BY <1>1 DEF In
  <2> DEFINE S == In(home, AtEnv) \ {p}
  <2>2. l \in Seq(S)
    BY <1>3 DEF Lists
  <2> HIDE DEF S, l
  <2> QED BY <2>1, <2>2, SeqDef DEF S
<1>6. /\ w \in StoreRec /\ w.made = m /\ w.lost = s.lost /\ w.released = s.released
      /\ w.page = s.page /\ \A z \in RTs : z # r => w.rt[z] = s.rt[z]
      /\ w.rt[r].open = s.rt[r].open /\ w.rt[r].full = s.rt[r].full
      /\ w.rt[r].num = s.rt[r].num + 1 /\ w.rt[r].active = s.rt[r].active + 1
  BY <1>1, CountedIs
<1> HIDE DEF w
<1>7. t = [w EXCEPT !.released = l]
  BY <1>6 DEF StoreRec, w
<1> HIDE DEF l
<1>8. /\ t \in StoreRec /\ t.made = m /\ t.lost = s.lost /\ t.released = l
      /\ t.page = s.page /\ t.rt = w.rt
  BY <1>5, <1>6, <1>7 DEF StoreRec
<1>9. MovedSays(home, m, p, AtComp, h)
  <2>1. home[p] # AtComp /\ AtComp \in Spots
    BY <1>4, SpotsDiffer
  <2> HIDE DEF p, m
  <2> QED BY <1>1, <1>4, <2>1, MovedIs
<1> HIDE DEF h, p, m
<1>10. /\ h \in [1 .. m -> Spots] /\ h[p] = AtComp /\ \A z \in 1 .. m : z # p => h[z] = home[z]
       /\ In(h, AtEnv) = In(home, AtEnv) \ {p}
       /\ \A y : (y # AtComp /\ y # AtEnv) => In(h, y) = In(home, y)
  BY <1>4, <1>9 DEF MovedSays
<1>11. Placed(t, h)
  <2>1. Lists(t.released, In(h, AtEnv)) /\ t.lost = In(h, AtNone)
    <3>1. In(h, AtNone) = In(home, AtNone)
      BY <1>10, SpotsDiffer
    <3> QED BY <1>3, <1>8, <1>10, <3>1 DEF Placed
  <2>2. RtPlaced(t.rt[r], h, r)
    <3>1. In(h, AtFull(r)) = In(home, AtFull(r)) /\ In(h, AtOpen(r)) = In(home, AtOpen(r))
      BY <1>10, SpotsDiffer
    <3>2. Len(s.rt[r].open) \in Nat /\ Len(s.rt[r].full) \in Nat
      BY <1>2, ListsIs
    <3>3. w.rt[r].num = Len(s.rt[r].open) + Len(s.rt[r].full) + w.rt[r].active
      <4>1. s.rt[r].num + 1 = Len(s.rt[r].open) + Len(s.rt[r].full) + (s.rt[r].active + 1)
        <5> DEFINE nn == s.rt[r].num
                   xx == Len(s.rt[r].open)
                   yy == Len(s.rt[r].full)
                   aa == s.rt[r].active
        <5>1. nn \in Int /\ xx \in Nat /\ yy \in Nat /\ aa \in Int /\ nn = xx + yy + aa
          BY <1>1, <1>2, <3>2
        <5> HIDE DEF nn, xx, yy, aa
        <5>2. nn + 1 = xx + yy + (aa + 1)
          BY <5>1
        <5> QED BY <5>2 DEF nn, xx, yy, aa
      <4> QED BY <1>6, <4>1
    <3> QED BY <1>2, <1>6, <1>8, <3>1, <3>3 DEF RtPlaced
  <2>3. ASSUME NEW z \in RTs, z # r PROVE RtPlaced(t.rt[z], h, z)
    <3>1. In(h, AtFull(z)) = In(home, AtFull(z)) /\ In(h, AtOpen(z)) = In(home, AtOpen(z))
      BY <1>10, <2>3, SpotsDiffer
    <3>2. RtPlaced(s.rt[z], home, z) /\ t.rt[z] = s.rt[z]
      BY <1>6, <1>8, <2>3 DEF Placed
    <3> QED BY <3>1, <3>2 DEF RtPlaced
  <2>4. LinesFit(t)
    BY <1>8 DEF Placed, LinesFit, m
  <2>5. \A z \in RTs : RtPlaced(t.rt[z], h, z)
    BY <2>2, <2>3
  <2> QED BY <1>1, <1>8, <1>10, <2>1, <2>4, <2>5 DEF Placed
<1>12. NumFreeLines(t, p) >= n
  BY <1>8 DEF NumFreeLines, p
<1>13. s.made = m
  BY DEF m
<1>14. t.rt[r].active = s.rt[r].active + 1 /\ \A z \in RTs : z # r => t.rt[z] = s.rt[z]
  BY <1>6, <1>8
<1>15. Took(s, home, r, n, t, p, h)
  BY <1>1, <1>4, <1>8, <1>10, <1>11, <1>12, <1>13, <1>14 DEF Took
<1> QED BY <1>15 DEF p

LEMMA TakenNew ==
  ASSUME NEW s, NEW home, Placed(s, home), NEW r \in RTs, NEW n \in Nat, n <= PageLines,
         s.made < NPages, NEW k, k = s.made + 1,
         NEW t, t = [Counted(s, r, k) EXCEPT !.made = k]
  PROVE  \E h : Took(s, home, r, n, t, k, h)
<1> DEFINE m == s.made
           h == PutAt(home, k, k, AtComp)
           w == Counted(s, r, k)
<1>1. /\ s \in StoreRec /\ m \in Nat /\ home \in [1 .. m -> Spots] /\ DOMAIN home = 1 .. m
      /\ \A z \in RTs : s.rt[z].num \in Int /\ s.rt[z].active \in Int
      /\ m <= NPages /\ 1 .. m \subseteq Pages /\ NPages \in Nat
  BY PlacedIs
<1>2. /\ Lists(s.rt[r].open, In(home, AtOpen(r))) /\ Lists(s.rt[r].full, In(home, AtFull(r)))
      /\ s.rt[r].num = Len(s.rt[r].open) + Len(s.rt[r].full) + s.rt[r].active
  BY DEF Placed, RtPlaced
<1>3. /\ k \in Nat /\ k \in 1 .. k /\ k \notin 1 .. m /\ k <= NPages /\ k \in Pages
      /\ m <= k /\ \A q \in 1 .. k : q # k => q \in 1 .. m
  BY <1>1 DEF Pages
<1>4. /\ w \in StoreRec /\ w.made = m /\ w.lost = s.lost /\ w.released = s.released
      /\ w.page = s.page /\ \A z \in RTs : z # r => w.rt[z] = s.rt[z]
      /\ w.rt[r].open = s.rt[r].open /\ w.rt[r].full = s.rt[r].full
      /\ w.rt[r].num = s.rt[r].num + 1 /\ w.rt[r].active = s.rt[r].active + 1
  BY <1>1, CountedIs
<1>5. t = [w EXCEPT !.made = k]
  OBVIOUS
<1> HIDE DEF w
<1>6. /\ t \in StoreRec /\ t.made = k /\ t.lost = s.lost /\ t.released = s.released
      /\ t.page = s.page /\ t.rt = w.rt
  BY <1>3, <1>4, <1>5 DEF StoreRec
<1>7. PutSays(home, m, k, k, AtComp)
  <2>1. (k = m \/ (k = m + 1 /\ k = k)) /\ AtComp \in Spots
    BY SpotsDiffer
  <2> HIDE DEF m
  <2> QED BY <1>1, <1>3, <2>1, PutIs
<1> HIDE DEF h, m
<1>8. /\ h \in [1 .. k -> Spots] /\ h[k] = AtComp /\ \A z \in 1 .. m : z # k => h[z] = home[z]
      /\ \A y : y # AtComp => In(h, y) = In(home, y)
  <2>1. \A y : k \notin In(home, y)
    BY <1>1, <1>3 DEF In
  <2>2. /\ h \in [1 .. k -> Spots] /\ h[k] = AtComp
        /\ \A z \in 1 .. m : z # k => h[z] = home[z]
        /\ \A y : y # AtComp => In(h, y) = In(home, y) \ {k}
    BY <1>7 DEF PutSays, h
  <2>3. ASSUME NEW y, y # AtComp PROVE In(h, y) = In(home, y)
    BY <2>1, <2>2, <2>3
  <2> QED BY <2>2, <2>3
<1>9. Placed(t, h)
  <2>1. Lists(t.released, In(h, AtEnv)) /\ t.lost = In(h, AtNone)
    <3>1. In(h, AtNone) = In(home, AtNone) /\ In(h, AtEnv) = In(home, AtEnv)
      BY <1>8, SpotsDiffer
    <3> QED BY <1>6, <3>1 DEF Placed
  <2>2. RtPlaced(t.rt[r], h, r)
    <3>1. In(h, AtFull(r)) = In(home, AtFull(r)) /\ In(h, AtOpen(r)) = In(home, AtOpen(r))
      BY <1>8, SpotsDiffer
    <3>2. Len(s.rt[r].open) \in Nat /\ Len(s.rt[r].full) \in Nat
      BY <1>2, ListsIs
    <3>3. w.rt[r].num = Len(s.rt[r].open) + Len(s.rt[r].full) + w.rt[r].active
      <4>1. s.rt[r].num + 1 = Len(s.rt[r].open) + Len(s.rt[r].full) + (s.rt[r].active + 1)
        <5> DEFINE nn == s.rt[r].num
                   xx == Len(s.rt[r].open)
                   yy == Len(s.rt[r].full)
                   aa == s.rt[r].active
        <5>1. nn \in Int /\ xx \in Nat /\ yy \in Nat /\ aa \in Int /\ nn = xx + yy + aa
          BY <1>1, <1>2, <3>2
        <5> HIDE DEF nn, xx, yy, aa
        <5>2. nn + 1 = xx + yy + (aa + 1)
          BY <5>1
        <5> QED BY <5>2 DEF nn, xx, yy, aa
      <4> QED BY <1>4, <4>1
    <3> QED BY <1>2, <1>4, <1>6, <3>1, <3>3 DEF RtPlaced
  <2>3. ASSUME NEW z \in RTs, z # r PROVE RtPlaced(t.rt[z], h, z)
    <3>1. In(h, AtFull(z)) = In(home, AtFull(z)) /\ In(h, AtOpen(z)) = In(home, AtOpen(z))
      BY <1>8, <2>3, SpotsDiffer
    <3>2. RtPlaced(s.rt[z], home, z) /\ t.rt[z] = s.rt[z]
      BY <1>4, <1>6, <2>3 DEF Placed
    <3> QED BY <3>1, <3>2 DEF RtPlaced
  <2>4. LinesFit(t)
    <3>1. LinesFit(s) /\ \A p \in Pages : p > k => p > s.made
      BY <1>1, <1>3 DEF Placed, Pages, m
    <3> QED BY <1>6, <3>1 DEF LinesFit
  <2>5. \A z \in RTs : RtPlaced(t.rt[z], h, z)
    BY <2>2, <2>3
  <2> QED BY <1>3, <1>6, <1>8, <2>1, <2>4, <2>5 DEF Placed
<1>10. NumFreeLines(t, k) >= n
  <2>1. s.page[k].line = 0
    <3>1. k > s.made
      BY <1>1, <1>3 DEF m
    <3> QED BY <1>3, <3>1 DEF Placed, LinesFit
  <2>2. PageLines \in Nat
    BY WasmRuntimeAssumption
  <2> QED BY <1>6, <2>1, <2>2 DEF NumFreeLines
<1>11. s.made = m
  BY DEF m
<1>12. t.rt[r].active = s.rt[r].active + 1 /\ \A z \in RTs : z # r => t.rt[z] = s.rt[z]
  BY <1>4, <1>6
<1>13. Took(s, home, r, n, t, k, h)
  BY <1>1, <1>3, <1>6, <1>8, <1>9, <1>10, <1>11, <1>12 DEF Took
<1> QED BY <1>13

(* AcquireCodePageWithCapacity gives a page with room for n lines, or none.*)
LEMMA AcquireTakes ==
  ASSUME NEW s, NEW home, Placed(s, home), NEW r \in RTs, NEW n \in Nat, n <= PageLines,
         NEW ok
  PROVE  \/ Acquire(s, r, n, ok).p = 0 /\ Acquire(s, r, n, ok).s = s
         \/ /\ Acquire(s, r, n, ok).p \in Pages
            /\ \E h : Took(s, home, r, n, Acquire(s, r, n, ok).s, Acquire(s, r, n, ok).p, h)
<1> DEFINE i == OfCapacity(s, s.rt[r].open, n)
           j == OfCapacity(s, s.released, n)
           k == NewCodePage(s, ok)
           a == Acquire(s, r, n, ok)
<1>1. /\ s.rt[r].open \in Seq(Pages) /\ s.released \in Seq(Pages) /\ s.made \in Nat
      /\ NPages \in Nat
  BY PlacedIs
<1>2. /\ i \in Nat /\ j \in Nat
      /\ i > 0 => i \in 1 .. Len(s.rt[r].open) /\ NumFreeLines(s, s.rt[r].open[i]) >= n
      /\ j > 0 => j \in 1 .. Len(s.released) /\ NumFreeLines(s, s.released[j]) >= n
  BY <1>1, OfCapacityIs
<1>3. k = 0 \/ (k = s.made + 1 /\ s.made < NPages)
  BY DEF NewCodePage
<1>4. a = IF i > 0 THEN [p |-> s.rt[r].open[i],
                         s |-> [s EXCEPT !.rt[r].open = RemoveAt(@, i), !.rt[r].active = @ + 1]]
          ELSE IF j > 0 THEN [p |-> s.released[j],
                              s |-> [Counted(s, r, s.released[j]) EXCEPT !.released = RemoveAt(@, j)]]
          ELSE IF k > 0 THEN [p |-> k, s |-> [Counted(s, r, k) EXCEPT !.made = k]]
          ELSE [p |-> 0, s |-> s]
  BY DEF Acquire
<1> HIDE DEF i, j, k, a
<1> SUFFICES \/ a.p = 0 /\ a.s = s
             \/ a.p \in Pages /\ \E h : Took(s, home, r, n, a.s, a.p, h)
  BY DEF a
<1>5. CASE i > 0
  <2>1. /\ a.p = s.rt[r].open[i]
        /\ a.s = [s EXCEPT !.rt[r].open = RemoveAt(@, i), !.rt[r].active = @ + 1]
    BY <1>4, <1>5
  <2>2. a.p \in Pages
    BY <1>1, <1>2, <1>5, <2>1, ElementOfSeq
  <2>3. \E h : Took(s, home, r, n, a.s, s.rt[r].open[i], h)
    BY <1>2, <1>5, <2>1, TakenFromOpen
  <2> QED BY <2>1, <2>2, <2>3
<1>6. CASE ~(i > 0) /\ j > 0
  <2>1. /\ a.p = s.released[j]
        /\ a.s = [Counted(s, r, s.released[j]) EXCEPT !.released = RemoveAt(@, j)]
    BY <1>4, <1>6
  <2>2. a.p \in Pages
    BY <1>1, <1>2, <1>6, <2>1, ElementOfSeq
  <2>3. \E h : Took(s, home, r, n, a.s, s.released[j], h)
    BY <1>2, <1>6, <2>1, TakenFromEnv
  <2> QED BY <2>1, <2>2, <2>3
<1>7. CASE ~(i > 0) /\ ~(j > 0) /\ k > 0
  <2>1. a.p = k /\ a.s = [Counted(s, r, k) EXCEPT !.made = k]
    BY <1>4, <1>7
  <2>2. k = s.made + 1 /\ s.made < NPages
    BY <1>3, <1>7
  <2>3. k \in Pages
    BY <1>1, <2>2 DEF Pages
  <2>4. \E h : Took(s, home, r, n, a.s, k, h)
    BY <2>1, <2>2, TakenNew
  <2> QED BY <2>1, <2>3, <2>4
<1>8. CASE ~(i > 0) /\ ~(j > 0) /\ ~(k > 0)
  BY <1>4, <1>8
<1> QED BY <1>5, <1>6, <1>7, <1>8

(* ReleaseCodePage puts a page into a list of its runtime.                 *)
Gave(s, home, r, t, p, h) ==
  /\ Placed(t, h) /\ t.page = s.page /\ t.made = s.made
  /\ h[p] \in {AtOpen(r), AtFull(r)}
  /\ \A q \in 1 .. s.made : q # p => h[q] = home[q]
  /\ t.rt[r].active = s.rt[r].active - 1
  /\ \A q \in RTs : q # r => t.rt[q] = s.rt[q]

Pushed(q, home, x, y, p) == Lists(q, IF x = y THEN In(home, y) \cup {p} ELSE In(home, y))

LEMMA ReleaseGives ==
  ASSUME NEW s, NEW home, Placed(s, home), NEW r \in RTs, NEW p \in 1 .. s.made,
         home[p] = AtComp
  PROVE  \E h : Gave(s, home, r, Release(s, r, p), p, h)
<1> DEFINE t == Release(s, r, p)
           m == s.made
           op == s.rt[r].open
           fl == s.rt[r].full
           nn == s.rt[r].num
           aa == s.rt[r].active
           Some == \E h : Gave(s, home, r, t, p, h)
           po == <<p>> \o op
           pf == <<p>> \o fl
<1>1. /\ s \in StoreRec /\ m \in Nat /\ home \in [1 .. m -> Spots] /\ DOMAIN home = 1 .. m
      /\ nn \in Int /\ aa \in Int /\ m <= NPages /\ p \in Pages
  BY PlacedIs
<1>2. /\ Lists(op, In(home, AtOpen(r))) /\ Lists(fl, In(home, AtFull(r)))
      /\ nn = Len(op) + Len(fl) + aa
  BY DEF Placed, RtPlaced
<1>3. Len(op) \in Nat /\ Len(fl) \in Nat
  BY <1>2, ListsIs
<1>4. /\ t \in StoreRec /\ t.made = s.made /\ t.lost = s.lost /\ t.released = s.released
      /\ t.page = s.page
      /\ \A q \in RTs : q # r => t.rt[q] = s.rt[q]
      /\ t.rt[r].num = nn /\ t.rt[r].active = aa - 1
      /\ \/ t.rt[r].open = op /\ t.rt[r].full = <<p>> \o fl
         \/ t.rt[r].full = fl /\ t.rt[r].open = <<p>> \o op
  BY <1>1, ReleaseIs
<1>5. p \notin In(home, AtOpen(r)) /\ p \notin In(home, AtFull(r))
  BY SpotsDiffer DEF In
<1>6. /\ Lists(<<p>> \o op, In(home, AtOpen(r)) \cup {p}) /\ Len(<<p>> \o op) = Len(op) + 1
      /\ Lists(<<p>> \o fl, In(home, AtFull(r)) \cup {p}) /\ Len(<<p>> \o fl) = Len(fl) + 1
  <2> HIDE DEF op, fl
  <2> QED BY <1>2, <1>5, ListsPush
<1>7. /\ nn = (Len(op) + 1) + Len(fl) + (aa - 1) /\ nn = Len(op) + (Len(fl) + 1) + (aa - 1)
  <2> DEFINE xx == Len(op)
             yy == Len(fl)
  <2>1. nn \in Int /\ xx \in Nat /\ yy \in Nat /\ aa \in Int /\ nn = xx + yy + aa
    BY <1>1, <1>2, <1>3
  <2> HIDE DEF nn, xx, yy, aa
  <2>2. nn = (xx + 1) + yy + (aa - 1) /\ nn = xx + (yy + 1) + (aa - 1)
    BY <2>1
  <2> QED BY <2>2 DEF xx, yy
<1>12. \/ t.rt[r].open = op /\ t.rt[r].full = pf
       \/ t.rt[r].full = fl /\ t.rt[r].open = po
  BY <1>4
<1> SUFFICES Some
  OBVIOUS
<1> HIDE DEF t, nn, aa, po, pf, Some
<1>8. ASSUME NEW x \in {AtOpen(r), AtFull(r)},
             Pushed(t.rt[r].open, home, x, AtOpen(r), p),
             Pushed(t.rt[r].full, home, x, AtFull(r), p),
             t.rt[r].num = Len(t.rt[r].open) + Len(t.rt[r].full) + t.rt[r].active
      PROVE  Some
  <2> DEFINE h == PutAt(home, m, p, x)
  <2>1. x \in Spots /\ x # AtComp /\ x # AtEnv /\ x # AtNone
    BY SpotsDiffer
  <2>2. MovedSays(home, m, p, x, h)
    <3>1. home[p] # x /\ p \in 1 .. m
      BY <2>1
    <3> HIDE DEF m
    <3> QED BY <1>1, <2>1, <3>1, MovedIs
  <2> HIDE DEF h
  <2>3. /\ h \in [1 .. m -> Spots] /\ h[p] = x /\ \A q \in 1 .. m : q # p => h[q] = home[q]
        /\ In(h, x) = In(home, x) \cup {p}
        /\ \A y : (y # x /\ y # AtComp) => In(h, y) = In(home, y)
    BY <2>2 DEF MovedSays
  <2>4. In(h, AtEnv) = In(home, AtEnv) /\ In(h, AtNone) = In(home, AtNone)
    BY <2>1, <2>3, SpotsDiffer
  <2>5. /\ In(h, AtOpen(r)) = IF x = AtOpen(r) THEN In(home, AtOpen(r)) \cup {p}
                              ELSE In(home, AtOpen(r))
        /\ In(h, AtFull(r)) = IF x = AtFull(r) THEN In(home, AtFull(r)) \cup {p}
                              ELSE In(home, AtFull(r))
    BY <2>3, SpotsDiffer
  <2>6. RtPlaced(t.rt[r], h, r)
    BY <1>8, <2>5 DEF RtPlaced, Pushed
  <2>7. ASSUME NEW z \in RTs, z # r PROVE RtPlaced(t.rt[z], h, z)
    <3>1. In(h, AtFull(z)) = In(home, AtFull(z)) /\ In(h, AtOpen(z)) = In(home, AtOpen(z))
      BY <2>3, <2>7, SpotsDiffer
    <3>2. RtPlaced(s.rt[z], home, z) /\ t.rt[z] = s.rt[z]
      BY <1>4, <2>7 DEF Placed
    <3> QED BY <3>1, <3>2 DEF RtPlaced
  <2>8. \A z \in RTs : RtPlaced(t.rt[z], h, z)
    BY <2>6, <2>7
  <2>9. LinesFit(t)
    BY <1>4 DEF Placed, LinesFit
  <2>10. Lists(t.released, In(h, AtEnv)) /\ t.lost = In(h, AtNone)
    BY <1>4, <2>4 DEF Placed
  <2>11. Placed(t, h)
    BY <1>1, <1>4, <2>3, <2>8, <2>9, <2>10 DEF Placed
  <2>12. Gave(s, home, r, t, p, h)
    BY <1>4, <2>3, <2>11 DEF Gave, aa
  <2> QED BY <2>12 DEF Some
<1>9. CASE t.rt[r].open = op /\ t.rt[r].full = pf
  <2> DEFINE x == AtFull(r)
  <2>1. x # AtOpen(r) /\ x = AtFull(r) /\ x \in {AtOpen(r), AtFull(r)}
    BY SpotsDiffer
  <2> HIDE DEF x
  <2>2. Pushed(t.rt[r].open, home, x, AtOpen(r), p) /\ Pushed(t.rt[r].full, home, x, AtFull(r), p)
    BY <1>2, <1>6, <1>9, <2>1 DEF Pushed, po, pf
  <2>3. t.rt[r].num = Len(t.rt[r].open) + Len(t.rt[r].full) + t.rt[r].active
    BY <1>4, <1>6, <1>7, <1>9 DEF pf
  <2> QED BY <1>8, <2>1, <2>2, <2>3
<1>10. CASE t.rt[r].full = fl /\ t.rt[r].open = po
  <2> DEFINE x == AtOpen(r)
  <2>1. x # AtFull(r) /\ x = AtOpen(r) /\ x \in {AtOpen(r), AtFull(r)}
    BY SpotsDiffer
  <2> HIDE DEF x
  <2>2. Pushed(t.rt[r].open, home, x, AtOpen(r), p) /\ Pushed(t.rt[r].full, home, x, AtFull(r), p)
    BY <1>2, <1>6, <1>10, <2>1 DEF Pushed, po, pf
  <2>3. t.rt[r].num = Len(t.rt[r].open) + Len(t.rt[r].full) + t.rt[r].active
    BY <1>4, <1>6, <1>7, <1>10 DEF po
  <2> QED BY <1>8, <2>1, <2>2, <2>3
<1> QED BY <1>9, <1>10, <1>12

(* Words emitted on a page with room for them.                             *)
LEMMA EmitPlaced ==
  ASSUME NEW s, NEW home, Placed(s, home), NEW p \in 1 .. s.made, NEW f \in Codes,
         NEW n \in Nat, NumFreeLines(s, p) >= n
  PROVE  /\ Placed(EmitWords(s, p, f, n), home)
         /\ NumFreeLines(EmitWords(s, p, f, n), p) = NumFreeLines(s, p) - n
         /\ f \in EmitWords(s, p, f, n).page[p].code
         /\ s.page[p].code \subseteq EmitWords(s, p, f, n).page[p].code
         /\ \A q \in Pages : q # p => EmitWords(s, p, f, n).page[q] = s.page[q]
         /\ EmitWords(s, p, f, n).rt = s.rt /\ EmitWords(s, p, f, n).made = s.made
<1> DEFINE t == EmitWords(s, p, f, n)
<1>1. /\ s \in StoreRec /\ p \in Pages /\ s.page[p].line \in Nat /\ s.made \in Nat
  BY PlacedIs
<1>2. /\ t \in StoreRec /\ t.made = s.made /\ t.lost = s.lost /\ t.released = s.released
      /\ t.rt = s.rt
      /\ t.page[p].line = s.page[p].line + n /\ t.page[p].code = s.page[p].code \cup {f}
      /\ \A q \in Pages : q # p => t.page[q] = s.page[q]
  BY <1>1, EmitIs
<1>3. PageLines \in Nat
  BY WasmRuntimeAssumption
<1> HIDE DEF t
<1>4. NumFreeLines(t, p) = NumFreeLines(s, p) - n /\ t.page[p].line <= PageLines
  BY <1>1, <1>2, <1>3 DEF NumFreeLines
<1>5. LinesFit(t)
  <2> SUFFICES ASSUME NEW q \in Pages
               PROVE  t.page[q].line <= PageLines /\ (q > t.made => t.page[q].line = 0)
    BY DEF LinesFit
  <2>1. CASE q = p
    BY <1>1, <1>2, <1>4, <2>1
  <2>2. CASE q # p
    BY <1>2, <2>2 DEF Placed, LinesFit
  <2> QED BY <2>1, <2>2
<1>6. Placed(t, home)
  BY <1>2, <1>5 DEF Placed
<1> QED BY <1>2, <1>4, <1>6 DEF t

(* Runtime_Release: every page of the runtime's lists is the environment's.*)
Reset(s, home, r, t, h) ==
  /\ Placed(t, h) /\ t.made = s.made /\ t.rt[r] = Fresh
  /\ \A q \in RTs : q # r => t.rt[q] = s.rt[q]
  /\ \A q \in 1 .. s.made : IF home[q] \in {AtOpen(r), AtFull(r)} THEN h[q] = AtEnv
                            ELSE h[q] = home[q] /\ t.page[q] = s.page[q]

LEMMA RuntimeReleaseResets ==
  ASSUME NEW s, NEW home, Placed(s, home), NEW r \in RTs
  PROVE  \E h : Reset(s, home, r, RuntimeRelease(s, r), h)
<1> DEFINE t == RuntimeRelease(s, r)
           m == s.made
           op == s.rt[r].open
           fl == s.rt[r].full
           O == In(home, AtOpen(r))
           F == In(home, AtFull(r))
           E == In(home, AtEnv)
           h == [q \in 1 .. m |-> IF home[q] \in {AtOpen(r), AtFull(r)} THEN AtEnv ELSE home[q]]
<1>1. /\ s \in StoreRec /\ m \in Nat /\ home \in [1 .. m -> Spots] /\ DOMAIN home = 1 .. m
      /\ m <= NPages /\ 1 .. m \subseteq Pages
  BY PlacedIs
<1>2. Lists(op, O) /\ Lists(fl, F) /\ Lists(s.released, E)
  BY DEF Placed, RtPlaced
<1>3. /\ t \in StoreRec /\ t.made = m /\ t.lost = s.lost
      /\ t.rt[r] = Fresh /\ \A q \in RTs : q # r => t.rt[q] = s.rt[q]
      /\ t.released = fl \o (op \o s.released)
      /\ \A q \in Pages : IF q \in Range(op) \/ q \in Range(fl)
                          THEN t.page[q] = [line |-> 0, code |-> {}] ELSE t.page[q] = s.page[q]
  BY <1>1, RuntimeReleaseIs
<1>4. Range(op) = O /\ Range(fl) = F
  <2> HIDE DEF op, fl, O, F
  <2> QED BY <1>2, ListsIs
<1>5. /\ h \in [1 .. m -> Spots]
      /\ \A q \in 1 .. m : IF home[q] \in {AtOpen(r), AtFull(r)} THEN h[q] = AtEnv
                           ELSE h[q] = home[q]
  BY <1>1, SpotsDiffer
<1> HIDE DEF h, t
<1>6. DOMAIN h = 1 .. m
  BY <1>5
<1>7. /\ In(h, AtEnv) = F \cup (O \cup E) /\ In(h, AtOpen(r)) = {} /\ In(h, AtFull(r)) = {}
  BY <1>1, <1>5, <1>6, SpotsDiffer DEF In
<1>8. ASSUME NEW y, y # AtEnv, y # AtOpen(r), y # AtFull(r) PROVE In(h, y) = In(home, y)
  BY <1>1, <1>5, <1>6, <1>8 DEF In
<1>9. Lists(t.released, In(h, AtEnv))
  <2>1. O \cap E = {} /\ F \cap (O \cup E) = {}
    BY SpotsDiffer DEF In
  <2> HIDE DEF O, E, F, op, fl
  <2>2. Lists(op \o s.released, O \cup E)
    BY <1>2, <2>1, ListsConcat
  <2>3. Lists(fl \o (op \o s.released), F \cup (O \cup E))
    BY <1>2, <2>1, <2>2, ListsConcat
  <2> QED BY <1>3, <1>7, <2>3
<1>10. t.lost = In(h, AtNone)
  <2>1. In(h, AtNone) = In(home, AtNone)
    BY <1>8, SpotsDiffer
  <2> QED BY <1>3, <2>1 DEF Placed
<1>11. RtPlaced(t.rt[r], h, r)
  <2>1. /\ Fresh.open = <<>> /\ Fresh.full = <<>> /\ Fresh.num = 0 /\ Fresh.active = 0
        /\ Len(<<>>) = 0
    BY DEF Fresh
  <2>2. Len(Fresh.open) + Len(Fresh.full) + Fresh.active = Fresh.num
    BY <2>1
  <2> QED BY <1>3, <1>7, <2>1, <2>2, ListsNone DEF RtPlaced
<1>12. ASSUME NEW z \in RTs, z # r PROVE RtPlaced(t.rt[z], h, z)
  <2>1. /\ AtOpen(z) # AtEnv /\ AtOpen(z) # AtOpen(r) /\ AtOpen(z) # AtFull(r)
        /\ AtFull(z) # AtEnv /\ AtFull(z) # AtOpen(r) /\ AtFull(z) # AtFull(r)
    BY <1>12, SpotsDiffer
  <2>2. In(h, AtFull(z)) = In(home, AtFull(z)) /\ In(h, AtOpen(z)) = In(home, AtOpen(z))
    BY <1>8, <2>1
  <2>3. RtPlaced(s.rt[z], home, z) /\ t.rt[z] = s.rt[z]
    BY <1>3, <1>12 DEF Placed
  <2> QED BY <2>2, <2>3 DEF RtPlaced
<1>13. \A z \in RTs : RtPlaced(t.rt[z], h, z)
  BY <1>11, <1>12
<1>14. LinesFit(t)
  <2>1. PageLines \in Nat /\ LinesFit(s)
    BY WasmRuntimeAssumption DEF Placed
  <2> SUFFICES ASSUME NEW q \in Pages
               PROVE  t.page[q].line <= PageLines /\ (q > t.made => t.page[q].line = 0)
    BY DEF LinesFit
  <2>2. CASE q \in Range(op) \/ q \in Range(fl)
    <3>1. t.page[q].line = 0
      BY <1>3, <2>2
    <3> QED BY <2>1, <3>1
  <2>3. CASE ~(q \in Range(op) \/ q \in Range(fl))
    <3>1. t.page[q] = s.page[q]
      BY <1>3, <2>3
    <3> QED BY <1>3, <2>1, <3>1 DEF LinesFit
  <2> QED BY <2>2, <2>3
<1>15. Placed(t, h)
  BY <1>1, <1>3, <1>5, <1>9, <1>10, <1>13, <1>14 DEF Placed
<1>16. ASSUME NEW q \in 1 .. m, home[q] \notin {AtOpen(r), AtFull(r)}
       PROVE  t.page[q] = s.page[q]
  <2>1. q \in Pages /\ q \notin O /\ q \notin F
    BY <1>1, <1>16 DEF In
  <2> QED BY <1>3, <1>4, <2>1
<1>17. Reset(s, home, r, t, h)
  BY <1>3, <1>5, <1>15, <1>16 DEF Reset
<1> QED BY <1>17 DEF t

(* The scopes that a compilation is in, and the pages they will come back to. *)
ScopeRec == [kind : {"else", "table"}, page : 0 .. NPages, left : Int]
OpRec == [fn : Codes, rt : RTs, page : Pages, on : SUBSET Pages, outer : Seq(ScopeRec), ops : Int]
SavedIn(q) == {i \in 1 .. Len(q) : q[i].page # 0}
PagesIn(q) == {q[i].page : i \in SavedIn(q)}
Scoped(q) ==
  /\ q \in Seq(ScopeRec)
  /\ \A i \in 1 .. Len(q) : /\ q[i].kind = "else" => q[i].page # 0
                            /\ q[i].kind = "table" => /\ i = Len(q) /\ q[i].left >= 0
                                                      /\ q[i].page # 0 => q[i].left >= 1
Apart(p, q) ==
  /\ p \notin PagesIn(q)
  /\ \A i, j \in SavedIn(q) : q[i].page = q[j].page => i = j
TableRoom(s, p, q) ==
  \A i \in 1 .. Len(q) :
    q[i].kind = "table" => NumFreeLines(s, IF q[i].page = 0 THEN p ELSE q[i].page) >= q[i].left + 2
AllSaved(q) == \A i \in 1 .. Len(q) : q[i].page # 0

(* The places a page of runtime r can be in while its code is wanted: also *)
(* nowhere, if an error left it behind and the driver goes on.             *)
Of(r) == {AtOpen(r), AtFull(r), AtComp, AtNone}

(* Code of f on the pages on.                                              *)
CodeOn(s, home, f, r, on) ==
  \A x \in on : x \in 1 .. s.made /\ f \in s.page[x].code /\ home[x] \in Of(r)

(* Nothing that runtime r has is taken from it or erased.                  *)
Grew(s, home, r, t, h) ==
  /\ s.made <= t.made
  /\ \A x \in 1 .. s.made : home[x] \in Of(r) => /\ h[x] \in Of(r)
                                                 /\ s.page[x].code \subseteq t.page[x].code

Roomy(s, home) == \A x \in In(home, AtComp) : NumFreeLines(s, x) >= 2

(* What a runtime counts as active beyond the pages that are held, when gn *)
(* pages of the agent's runtime have been lost.                            *)
Spare(gn, z) == IF z = "main" THEN gn ELSE 0
Alone(gn, s, r) == \A z \in RTs : z # r => s.rt[z].active = Spare(gn, z)

(* A compilation of f for runtime r that writes to page p, with scopes q.  *)
Work(gn, s, home, f, r, p, on, q) ==
  /\ Placed(s, home) /\ f \in Codes /\ r \in RTs /\ p \in Pages
  /\ Scoped(q) /\ Apart(p, q) /\ In(home, AtComp) = {p} \cup PagesIn(q)
  /\ Roomy(s, home) /\ TableRoom(s, p, q)
  /\ gn \in Nat /\ s.rt[r].active = Spare(gn, r) + (1 + Cardinality(SavedIn(q)))
  /\ Alone(gn, s, r) /\ CodeOn(s, home, f, r, on)

LEMMA CodeOnGrows ==
  ASSUME NEW s, NEW home, NEW f, NEW r, NEW on, CodeOn(s, home, f, r, on), s.made \in Nat,
         NEW t, NEW h, Grew(s, home, r, t, h), t.made \in Nat
  PROVE  CodeOn(t, h, f, r, on)
BY DEF CodeOn, Grew

LEMMA GrewTwice ==
  ASSUME NEW s, NEW home, NEW r, NEW t, NEW h, Grew(s, home, r, t, h),
         NEW u, NEW g, Grew(t, h, r, u, g), s.made \in Nat, t.made \in Nat, u.made \in Nat
  PROVE  Grew(s, home, r, u, g)
BY DEF Grew

LEMMA GrewNot ==
  ASSUME NEW s, NEW home, Placed(s, home), NEW r
  PROVE  Grew(s, home, r, s, home)
<1>1. s.made \in Nat
  BY PlacedIs
<1> QED BY <1>1 DEF Grew

(* A page taken: it is held now, and was not before.                       *)
LEMMA TookIs ==
  ASSUME NEW s, NEW home, Placed(s, home), NEW r \in RTs, NEW n, NEW t, NEW k, NEW h,
         Took(s, home, r, n, t, k, h)
  PROVE  /\ Placed(t, h) /\ t.page = s.page /\ k \in Pages /\ k \notin In(home, AtComp)
         /\ In(h, AtComp) = In(home, AtComp) \cup {k} /\ NumFreeLines(t, k) >= n
         /\ t.rt[r].active = s.rt[r].active + 1
         /\ \A z \in RTs : z # r => t.rt[z] = s.rt[z]
         /\ Grew(s, home, r, t, h)
<1>1. /\ s.made \in Nat /\ DOMAIN home = 1 .. s.made /\ home \in [1 .. s.made -> Spots]
  BY PlacedIs
<1>2. /\ Placed(t, h) /\ t.page = s.page /\ k \in 1 .. t.made /\ h[k] = AtComp
      /\ s.made <= t.made /\ NumFreeLines(t, k) >= n
      /\ k \in 1 .. s.made => home[k] \in {AtOpen(r), AtEnv}
      /\ \A q \in 1 .. s.made : q # k => h[q] = home[q]
      /\ \A q \in 1 .. t.made : q # k => q \in 1 .. s.made
      /\ t.rt[r].active = s.rt[r].active + 1
      /\ \A q \in RTs : q # r => t.rt[q] = s.rt[q]
  BY DEF Took
<1>3. /\ t.made \in Nat /\ DOMAIN h = 1 .. t.made /\ 1 .. t.made \subseteq Pages
  BY <1>2, PlacedIs
<1>4. \A x \in 1 .. s.made : x \in 1 .. t.made
  BY <1>1, <1>2, <1>3
<1>5. k \notin In(home, AtComp)
  BY <1>1, <1>2, SpotsDiffer DEF In
<1>6. In(h, AtComp) = In(home, AtComp) \cup {k}
  BY <1>1, <1>2, <1>3, <1>4 DEF In
<1>7. Grew(s, home, r, t, h)
  BY <1>2 DEF Grew, Of
<1> QED BY <1>2, <1>3, <1>5, <1>6, <1>7

(* A page that was held is given back.                                     *)
GivenUp(s, home, r, t, p, h) ==
  /\ Placed(t, h) /\ t.page = s.page
  /\ In(h, AtComp) = In(home, AtComp) \ {p}
  /\ t.rt[r].active = s.rt[r].active - 1
  /\ \A z \in RTs : z # r => t.rt[z] = s.rt[z]
  /\ Grew(s, home, r, t, h)

LEMMA GaveIs ==
  ASSUME NEW s, NEW home, Placed(s, home), NEW r \in RTs, NEW t, NEW p \in 1 .. s.made,
         NEW h, Gave(s, home, r, t, p, h)
  PROVE  GivenUp(s, home, r, t, p, h)
<1>1. /\ s.made \in Nat /\ DOMAIN home = 1 .. s.made /\ home \in [1 .. s.made -> Spots]
  BY PlacedIs
<1>2. /\ Placed(t, h) /\ t.page = s.page /\ t.made = s.made
      /\ h[p] \in {AtOpen(r), AtFull(r)}
      /\ \A q \in 1 .. s.made : q # p => h[q] = home[q]
      /\ t.rt[r].active = s.rt[r].active - 1
      /\ \A q \in RTs : q # r => t.rt[q] = s.rt[q]
  BY DEF Gave
<1>3. DOMAIN h = 1 .. s.made
  BY <1>2, PlacedIs
<1>4. h[p] # AtComp
  BY <1>2, SpotsDiffer
<1>5. In(h, AtComp) = In(home, AtComp) \ {p}
  BY <1>1, <1>2, <1>3, <1>4 DEF In
<1>6. Grew(s, home, r, t, h)
  BY <1>1, <1>2 DEF Grew, Of
<1> QED BY <1>2, <1>5, <1>6 DEF GivenUp

LEMMA HeldIs ==
  ASSUME NEW s, NEW home, Placed(s, home), NEW x \in In(home, AtComp)
  PROVE  x \in 1 .. s.made /\ x \in Pages /\ home[x] = AtComp
BY PlacedIs DEF In

LEMMA PagesInAre ==
  ASSUME NEW q, NEW i \in 1 .. Len(q), q[i].page # 0
  PROVE  i \in SavedIn(q) /\ q[i].page \in PagesIn(q)
BY DEF SavedIn, PagesIn

LEMMA RoomKept ==
  ASSUME NEW s, NEW p, NEW q, AllSaved(q), TableRoom(s, p, q), NEW t, NEW k,
         \A x \in PagesIn(q) : t.page[x] = s.page[x]
  PROVE  TableRoom(t, k, q)
<1> SUFFICES ASSUME NEW i \in 1 .. Len(q), q[i].kind = "table"
             PROVE  NumFreeLines(t, IF q[i].page = 0 THEN k ELSE q[i].page) >= q[i].left + 2
  BY DEF TableRoom
<1>1. q[i].page # 0 /\ q[i].page \in PagesIn(q)
  BY PagesInAre DEF AllSaved
<1>2. NumFreeLines(s, q[i].page) >= q[i].left + 2
  BY <1>1 DEF TableRoom
<1>3. NumFreeLines(t, q[i].page) = NumFreeLines(s, q[i].page)
  BY <1>1 DEF NumFreeLines
<1> QED BY <1>1, <1>2, <1>3

LEMMA WorkIs ==
  ASSUME NEW gn, NEW s, NEW home, NEW f, NEW r, NEW p, NEW on, NEW q,
         Work(gn, s, home, f, r, p, on, q)
  PROVE  /\ Placed(s, home) /\ f \in Codes /\ r \in RTs /\ p \in Pages
         /\ Scoped(q) /\ Apart(p, q) /\ In(home, AtComp) = {p} \cup PagesIn(q)
         /\ Roomy(s, home) /\ TableRoom(s, p, q)
         /\ gn \in Nat /\ Spare(gn, r) \in Nat
         /\ s.rt[r].active = Spare(gn, r) + (1 + Cardinality(SavedIn(q))) /\ Alone(gn, s, r)
         /\ CodeOn(s, home, f, r, on)
         /\ p \in 1 .. s.made /\ home[p] = AtComp /\ s.made \in Nat
         /\ \A x \in PagesIn(q) : x \in 1 .. s.made /\ x \in Pages /\ home[x] = AtComp /\ x # p
         /\ NumFreeLines(s, p) >= 2
         /\ s.rt[r].active \in Int
<1>1. /\ Placed(s, home) /\ f \in Codes /\ r \in RTs /\ p \in Pages
      /\ Scoped(q) /\ Apart(p, q) /\ In(home, AtComp) = {p} \cup PagesIn(q)
      /\ Roomy(s, home) /\ TableRoom(s, p, q)
      /\ gn \in Nat /\ s.rt[r].active = Spare(gn, r) + (1 + Cardinality(SavedIn(q)))
      /\ Alone(gn, s, r) /\ CodeOn(s, home, f, r, on)
  BY DEF Work
<1>8. Spare(gn, r) \in Nat
  BY <1>1 DEF Spare
<1>2. p \in In(home, AtComp) /\ \A x \in PagesIn(q) : x \in In(home, AtComp)
  BY <1>1
<1>3. p \in 1 .. s.made /\ home[p] = AtComp
  BY <1>1, <1>2, HeldIs
<1>4. \A x \in PagesIn(q) : x \in 1 .. s.made /\ x \in Pages /\ home[x] = AtComp
  BY <1>1, <1>2, HeldIs
<1>5. \A x \in PagesIn(q) : x # p
  BY <1>1 DEF Apart
<1>6. NumFreeLines(s, p) >= 2
  BY <1>1, <1>2 DEF Roomy
<1>7. s.made \in Nat /\ s.rt[r].active \in Int
  BY <1>1, PlacedIs
<1> QED BY <1>1, <1>3, <1>4, <1>5, <1>6, <1>7, <1>8

(* The free lines of a page.                                               *)
LEMMA FreeIs ==
  ASSUME NEW s, NEW home, Placed(s, home), NEW x \in Pages
  PROVE  NumFreeLines(s, x) \in Int
BY PlacedIs, WasmRuntimeAssumption DEF NumFreeLines

LEMMA EmitGrows ==
  ASSUME NEW s, NEW home, Placed(s, home), NEW p \in 1 .. s.made, NEW f \in Codes,
         NEW n \in Nat, NumFreeLines(s, p) >= n, NEW r
  PROVE  Grew(s, home, r, EmitWords(s, p, f, n), home)
<1> DEFINE t == EmitWords(s, p, f, n)
<1>1. /\ s.page[p].code \subseteq t.page[p].code /\ t.made = s.made
      /\ \A q \in Pages : q # p => t.page[q] = s.page[q]
  BY EmitPlaced
<1>2. s.made \in Nat /\ 1 .. s.made \subseteq Pages
  BY PlacedIs
<1> HIDE DEF t
<1>3. Grew(s, home, r, t, home)
  BY <1>1, <1>2 DEF Grew
<1> QED BY <1>3 DEF t

(* Words of the function on the page that is written to, with two lines    *)
(* kept for a bridge.                                                      *)
LEMMA EmitKeepsRoom ==
  ASSUME NEW gn, NEW s, NEW home, NEW f, NEW r, NEW p, NEW on, NEW q,
         Work(gn, s, home, f, r, p, on, q),
         NEW n \in Nat, NumFreeLines(s, p) >= n + 2, TableRoom(EmitWords(s, p, f, n), p, q)
  PROVE  /\ Work(gn, EmitWords(s, p, f, n), home, f, r, p, on \cup {p}, q)
         /\ Grew(s, home, r, EmitWords(s, p, f, n), home)
         /\ NumFreeLines(EmitWords(s, p, f, n), p) = NumFreeLines(s, p) - n
<1> DEFINE t == EmitWords(s, p, f, n)
<1>1. /\ Placed(s, home) /\ f \in Codes /\ r \in RTs /\ p \in Pages
      /\ Scoped(q) /\ Apart(p, q) /\ In(home, AtComp) = {p} \cup PagesIn(q)
      /\ Roomy(s, home) /\ TableRoom(s, p, q)
      /\ gn \in Nat /\ s.rt[r].active = Spare(gn, r) + (1 + Cardinality(SavedIn(q)))
      /\ Alone(gn, s, r)
      /\ CodeOn(s, home, f, r, on)
      /\ p \in 1 .. s.made /\ home[p] = AtComp /\ s.made \in Nat
      /\ \A x \in PagesIn(q) : x \in 1 .. s.made /\ x \in Pages /\ home[x] = AtComp /\ x # p
  BY WorkIs
<1>2. NumFreeLines(s, p) \in Int /\ NumFreeLines(s, p) >= n
  <2>1. NumFreeLines(s, p) \in Int
    BY <1>1, FreeIs
  <2> QED BY <2>1
<1>3. /\ Placed(t, home) /\ NumFreeLines(t, p) = NumFreeLines(s, p) - n
      /\ f \in t.page[p].code
      /\ \A x \in Pages : x # p => t.page[x] = s.page[x]
      /\ t.rt = s.rt /\ t.made = s.made
  BY <1>1, <1>2, EmitPlaced
<1>4. Grew(s, home, r, t, home)
  BY <1>1, <1>2, EmitGrows
<1> HIDE DEF t
<1>5. NumFreeLines(t, p) >= 2
  BY <1>2, <1>3
<1>6. \A x \in PagesIn(q) : t.page[x] = s.page[x]
  BY <1>1, <1>3
<1>7. TableRoom(t, p, q)
  BY DEF t
<1>8. Roomy(t, home)
  <2> SUFFICES ASSUME NEW x \in {p} \cup PagesIn(q) PROVE NumFreeLines(t, x) >= 2
    BY <1>1 DEF Roomy
  <2>1. CASE x = p
    BY <1>5, <2>1
  <2>2. CASE x \in PagesIn(q)
    <3>1. NumFreeLines(s, x) >= 2
      BY <1>1, <2>2 DEF Roomy
    <3> QED BY <1>6, <2>2, <3>1 DEF NumFreeLines
  <2> QED BY <2>1, <2>2
<1>9. CodeOn(t, home, f, r, on \cup {p})
  <2>1. CodeOn(t, home, f, r, on)
    BY <1>1, <1>3, <1>4, CodeOnGrows
  <2>2. home[p] \in Of(r)
    BY <1>1 DEF Of
  <2> QED BY <1>1, <1>3, <2>1, <2>2 DEF CodeOn
<1>10. Alone(gn, t, r)
  BY <1>1, <1>3 DEF Alone
<1>11. Work(gn, t, home, f, r, p, on \cup {p}, q)
  BY <1>1, <1>3, <1>7, <1>8, <1>9, <1>10 DEF Work
<1> QED BY <1>3, <1>4, <1>11 DEF t

LEMMA EmitWork ==
  ASSUME NEW gn, NEW s, NEW home, NEW f, NEW r, NEW p, NEW on, NEW q,
         Work(gn, s, home, f, r, p, on, q),
         AllSaved(q), NEW n \in Nat, NumFreeLines(s, p) >= n + 2
  PROVE  /\ Work(gn, EmitWords(s, p, f, n), home, f, r, p, on \cup {p}, q)
         /\ Grew(s, home, r, EmitWords(s, p, f, n), home)
         /\ NumFreeLines(EmitWords(s, p, f, n), p) = NumFreeLines(s, p) - n
<1> DEFINE t == EmitWords(s, p, f, n)
<1>1. /\ s \in StoreRec /\ f \in Codes /\ p \in Pages /\ TableRoom(s, p, q)
      /\ \A x \in PagesIn(q) : x \in Pages /\ x # p
  BY WorkIs, PlacedIs
<1>2. \A x \in Pages : x # p => t.page[x] = s.page[x]
  BY <1>1, EmitIs
<1> HIDE DEF t
<1>3. \A x \in PagesIn(q) : t.page[x] = s.page[x]
  BY <1>1, <1>2
<1>4. TableRoom(t, p, q)
  BY <1>1, <1>3, RoomKept
<1> QED BY <1>4, EmitKeepsRoom DEF t

(* The compilation on page k, with room for m lines.                       *)
OnTo(gn, s, home, f, r, on, q, m, t, k) ==
  \E h : Work(gn, t, h, f, r, k, on, q) /\ NumFreeLines(t, k) >= m /\ Grew(s, home, r, t, h)

LEMMA BridgeWork ==
  ASSUME NEW gn, NEW s, NEW home, NEW f, NEW r, NEW p, NEW on, NEW q,
         Work(gn, s, home, f, r, p, on, q),
         AllSaved(q), NEW m \in Nat, m >= 2, NEW t, NEW k, NEW g, Took(s, home, r, m, t, k, g)
  PROVE  OnTo(gn, s, home, f, r, on, q, m, Release(EmitWords(t, p, f, 2), r, p), k)
<1> DEFINE two == 2
           u == EmitWords(t, p, f, two)
           v == Release(u, r, p)
           aa == s.rt[r].active
<1>1. /\ Placed(s, home) /\ f \in Codes /\ r \in RTs /\ p \in Pages
      /\ Scoped(q) /\ Apart(p, q) /\ In(home, AtComp) = {p} \cup PagesIn(q)
      /\ Roomy(s, home) /\ TableRoom(s, p, q)
      /\ gn \in Nat /\ Spare(gn, r) \in Nat /\ Alone(gn, s, r)
      /\ aa = Spare(gn, r) + (1 + Cardinality(SavedIn(q)))
      /\ CodeOn(s, home, f, r, on)
      /\ p \in 1 .. s.made /\ home[p] = AtComp /\ s.made \in Nat
      /\ \A x \in PagesIn(q) : x \in 1 .. s.made /\ x \in Pages /\ home[x] = AtComp /\ x # p
      /\ NumFreeLines(s, p) >= 2
      /\ aa \in Int
  BY WorkIs
<1>2. /\ Placed(t, g) /\ t.page = s.page /\ k \in Pages /\ k \notin In(home, AtComp)
      /\ In(g, AtComp) = In(home, AtComp) \cup {k} /\ NumFreeLines(t, k) >= m
      /\ t.rt[r].active = aa + 1
      /\ \A z \in RTs : z # r => t.rt[z] = s.rt[z]
      /\ Grew(s, home, r, t, g)
  BY <1>1, TookIs
<1>3. two \in Nat /\ NumFreeLines(t, p) >= two
  BY <1>1, <1>2 DEF NumFreeLines
<1>4. p \in In(g, AtComp)
  BY <1>1, <1>2
<1>5. p \in 1 .. t.made /\ g[p] = AtComp
  BY <1>2, <1>4, HeldIs
<1> HIDE DEF two, aa
<1>6. /\ Placed(u, g)
      /\ \A x \in Pages : x # p => u.page[x] = t.page[x]
      /\ u.rt = t.rt /\ u.made = t.made
  BY <1>1, <1>2, <1>3, <1>5, EmitPlaced
<1>7. Grew(t, g, r, u, g)
  BY <1>1, <1>2, <1>3, <1>5, EmitGrows
<1> HIDE DEF u
<1>8. PICK h : Gave(u, g, r, v, p, h)
  BY <1>1, <1>5, <1>6, ReleaseGives
<1>9. /\ Placed(v, h) /\ v.page = u.page
      /\ In(h, AtComp) = In(g, AtComp) \ {p}
      /\ v.rt[r].active = u.rt[r].active - 1
      /\ \A z \in RTs : z # r => v.rt[z] = u.rt[z]
      /\ Grew(u, g, r, v, h)
  <2>1. GivenUp(u, g, r, v, p, h)
    BY <1>1, <1>5, <1>6, <1>8, GaveIs
  <2> QED BY <2>1 DEF GivenUp
<1> HIDE DEF v
<1>10. In(h, AtComp) = {k} \cup PagesIn(q) /\ k \notin PagesIn(q) /\ k # p
  BY <1>1, <1>2, <1>9
<1>11. \A x \in PagesIn(q) : v.page[x] = s.page[x]
  BY <1>1, <1>2, <1>6, <1>9
<1>12. v.page[k] = s.page[k]
  BY <1>2, <1>6, <1>9, <1>10
<1>13. NumFreeLines(v, k) >= m /\ NumFreeLines(v, k) >= 2
  <2>1. NumFreeLines(v, k) >= m
    BY <1>2, <1>12 DEF NumFreeLines
  <2>2. NumFreeLines(v, k) \in Int
    BY <1>2, <1>9, FreeIs
  <2> QED BY <2>1, <2>2
<1>14. TableRoom(v, k, q)
  BY <1>1, <1>11, RoomKept
<1>15. Roomy(v, h)
  <2> SUFFICES ASSUME NEW x \in {k} \cup PagesIn(q) PROVE NumFreeLines(v, x) >= 2
    BY <1>10 DEF Roomy
  <2>1. CASE x = k
    BY <1>13, <2>1
  <2>2. CASE x \in PagesIn(q)
    <3>1. NumFreeLines(s, x) >= 2
      BY <1>1, <2>2 DEF Roomy
    <3> QED BY <1>11, <2>2, <3>1 DEF NumFreeLines
  <2> QED BY <2>1, <2>2
<1>16. s.made \in Nat /\ t.made \in Nat /\ u.made \in Nat /\ v.made \in Nat
  BY <1>1, <1>2, <1>6, <1>9, PlacedIs
<1>17. Grew(s, home, r, v, h)
  <2>1. Grew(s, home, r, u, g)
    BY <1>2, <1>7, <1>16, GrewTwice
  <2> QED BY <1>9, <1>16, <2>1, GrewTwice
<1>18. CodeOn(v, h, f, r, on)
  BY <1>1, <1>16, <1>17, CodeOnGrows
<1>19. v.rt[r].active = aa
  BY <1>1, <1>2, <1>6, <1>9
<1>20. Alone(gn, v, r)
  BY <1>1, <1>2, <1>6, <1>9 DEF Alone
<1>21. Apart(k, q)
  BY <1>1, <1>10 DEF Apart
<1>22. Work(gn, v, h, f, r, k, on, q)
  BY <1>1, <1>2, <1>9, <1>10, <1>14, <1>15, <1>18, <1>19, <1>20, <1>21 DEF Work
<1>23. OnTo(gn, s, home, f, r, on, q, m, v, k)
  BY <1>13, <1>17, <1>22 DEF OnTo
<1> QED BY <1>23 DEF v, u, two

(* EnsureCodePageNumLines: the page, or a bridge to another, or nothing.   *)
LEMMA EnsureWork ==
  ASSUME NEW gn, NEW s, NEW home, NEW f, NEW r, NEW p, NEW on, NEW q,
         Work(gn, s, home, f, r, p, on, q),
         AllSaved(q), NEW m \in Nat, m + 2 <= PageLines, NEW ok,
         NEW o, o.fn = f, o.rt = r, o.page = p
  PROVE  LET e == Ensure(s, o, m, ok)
         IN \/ e.p = 0 /\ e.s = s
            \/ e.p \in Pages /\ OnTo(gn, s, home, f, r, on, q, m + 2, e.s, e.p)
<1> DEFINE e == Ensure(s, o, m, ok)
           n == m + 2
           a == Acquire(s, r, n, ok)
<1>1. Placed(s, home) /\ r \in RTs /\ p \in Pages
  BY WorkIs
<1>2. n \in Nat /\ n >= 2 /\ n <= PageLines
  OBVIOUS
<1>3. e = IF NumFreeLines(s, p) >= n THEN [p |-> p, s |-> s] ELSE Bridged(a, o)
  BY DEF Ensure
<1>4. \/ a.p = 0 /\ a.s = s
      \/ a.p \in Pages /\ \E g : Took(s, home, r, n, a.s, a.p, g)
  <2> HIDE DEF n
  <2> QED BY <1>1, <1>2, AcquireTakes
<1>5. Bridged(a, o) = IF a.p = 0 THEN a
                      ELSE [p |-> a.p, s |-> Release(EmitWords(a.s, p, f, 2), r, p)]
  BY DEF Bridged
<1> HIDE DEF e, a, n
<1> SUFFICES \/ e.p = 0 /\ e.s = s
             \/ e.p \in Pages /\ OnTo(gn, s, home, f, r, on, q, n, e.s, e.p)
  BY DEF e, n
<1>6. CASE NumFreeLines(s, p) >= n
  <2>1. e.p = p /\ e.s = s
    BY <1>3, <1>6
  <2>2. OnTo(gn, s, home, f, r, on, q, n, s, p)
    BY <1>1, <1>6, GrewNot DEF OnTo
  <2> QED BY <1>1, <2>1, <2>2
<1>7. CASE ~(NumFreeLines(s, p) >= n) /\ a.p = 0 /\ a.s = s
  BY <1>3, <1>5, <1>7
<1>8. CASE ~(NumFreeLines(s, p) >= n) /\ a.p \in Pages /\ \E g : Took(s, home, r, n, a.s, a.p, g)
  <2> DEFINE v == Release(EmitWords(a.s, p, f, 2), r, p)
  <2>1. a.p # 0
    BY <1>8 DEF Pages
  <2>2. e.p = a.p /\ e.s = v
    BY <1>3, <1>5, <1>8, <2>1
  <2>3. PICK g : Took(s, home, r, n, a.s, a.p, g)
    BY <1>8
  <2>4. OnTo(gn, s, home, f, r, on, q, n, v, a.p)
    BY <1>2, <2>3, BridgeWork
  <2> QED BY <1>8, <2>2, <2>4
<1> QED BY <1>4, <1>6, <1>7, <1>8

(* EmitOp and its operands: n lines, with two more left.                   *)
LEMMA EmitOpWork ==
  ASSUME NEW gn, NEW s, NEW home, NEW f, NEW r, NEW p, NEW on, NEW q,
         Work(gn, s, home, f, r, p, on, q),
         AllSaved(q), NEW n \in Nat, n <= Threshold, NEW ok,
         NEW o, o.fn = f, o.rt = r, o.page = p
  PROVE  LET e == EmitOp(s, o, n, ok)
         IN \/ e.p = 0 /\ e.s = s
            \/ e.p \in Pages /\ OnTo(gn, s, home, f, r, on \cup {e.p}, q, (Threshold + 2) - n, e.s, e.p)
<1> DEFINE e == EmitOp(s, o, n, ok)
           b == Ensure(s, o, Threshold, ok)
           m == Threshold + 2
<1>1. Threshold \in Nat /\ Threshold + 2 <= PageLines /\ Threshold >= 3
  BY WasmRuntimeAssumption
<1>2. \/ b.p = 0 /\ b.s = s
      \/ b.p \in Pages /\ OnTo(gn, s, home, f, r, on, q, m, b.s, b.p)
  BY <1>1, EnsureWork
<1>3. e = IF b.p = 0 THEN b ELSE [p |-> b.p, s |-> EmitWords(b.s, b.p, f, n)]
  BY DEF EmitOp, OnPage
<1>4. m \in Nat /\ m >= n + 2 /\ m - n \in Int
  BY <1>1
<1> HIDE DEF e, b, m
<1> SUFFICES \/ e.p = 0 /\ e.s = s
             \/ e.p \in Pages /\ OnTo(gn, s, home, f, r, on \cup {e.p}, q, m - n, e.s, e.p)
  BY DEF e, m
<1>5. CASE b.p = 0 /\ b.s = s
  BY <1>3, <1>5
<1>6. CASE b.p \in Pages /\ OnTo(gn, s, home, f, r, on, q, m, b.s, b.p)
  <2>1. b.p # 0
    BY <1>6 DEF Pages
  <2>2. e.p = b.p /\ e.s = EmitWords(b.s, b.p, f, n)
    BY <1>3, <2>1
  <2>3. PICK h : /\ Work(gn, b.s, h, f, r, b.p, on, q) /\ NumFreeLines(b.s, b.p) >= m
                 /\ Grew(s, home, r, b.s, h)
    BY <1>6 DEF OnTo
  <2>4. Placed(b.s, h) /\ Placed(s, home)
    BY <2>3, WorkIs
  <2>5. NumFreeLines(b.s, b.p) \in Int
    BY <1>6, <2>4, FreeIs
  <2>6. NumFreeLines(b.s, b.p) >= n + 2
    BY <1>4, <2>3, <2>5
  <2>7. /\ Work(gn, e.s, h, f, r, b.p, on \cup {b.p}, q) /\ Grew(b.s, h, r, e.s, h)
        /\ NumFreeLines(e.s, b.p) = NumFreeLines(b.s, b.p) - n
    <3> DEFINE z == b.s
               y == b.p
    <3> HIDE DEF z, y
    <3>1. Work(gn, z, h, f, r, y, on, q) /\ NumFreeLines(z, y) >= n + 2
      BY <2>3, <2>6 DEF z, y
    <3>2. /\ Work(gn, EmitWords(z, y, f, n), h, f, r, y, on \cup {y}, q)
          /\ Grew(z, h, r, EmitWords(z, y, f, n), h)
          /\ NumFreeLines(EmitWords(z, y, f, n), y) = NumFreeLines(z, y) - n
      BY <1>1, <3>1, EmitWork
    <3> QED BY <2>2, <3>2 DEF z, y
  <2>8. Placed(e.s, h)
    BY <2>7, WorkIs
  <2>9. s.made \in Nat /\ b.s.made \in Nat /\ e.s.made \in Nat
    BY <2>4, <2>8, PlacedIs
  <2>10. Grew(s, home, r, e.s, h)
    BY <2>3, <2>7, <2>9, GrewTwice
  <2>11. NumFreeLines(e.s, b.p) >= m - n
    BY <1>4, <2>3, <2>5, <2>7
  <2>12. OnTo(gn, s, home, f, r, on \cup {b.p}, q, m - n, e.s, b.p)
    BY <2>7, <2>10, <2>11 DEF OnTo
  <2> QED BY <1>6, <2>2, <2>12
<1> QED BY <1>2, <1>5, <1>6

(* Scopes with one more saved page.                                        *)
Deeper(q, d, i, x) ==
  /\ i \in 1 .. Len(d) /\ i \notin SavedIn(q) /\ SavedIn(d) = SavedIn(q) \cup {i}
  /\ d[i].page = x /\ \A j \in SavedIn(q) : d[j].page = q[j].page
(* Scopes with the same saved pages.                                       *)
Alike(q, d) == SavedIn(d) = SavedIn(q) /\ \A j \in SavedIn(q) : d[j].page = q[j].page

LEMMA SavedFinite ==
  ASSUME NEW q, Len(q) \in Nat
  PROVE  IsFiniteSet(SavedIn(q)) /\ Cardinality(SavedIn(q)) \in Nat
<1>1. IsFiniteSet(1 .. Len(q))
  BY FS_Interval
<1>2. SavedIn(q) \subseteq 1 .. Len(q)
  BY DEF SavedIn
<1>3. IsFiniteSet(SavedIn(q))
  BY <1>1, <1>2, FS_Subset
<1> QED BY <1>3, FS_CardinalityType

LEMMA DeeperIs ==
  ASSUME NEW q, Len(q) \in Nat, NEW d, NEW i, NEW x, Deeper(q, d, i, x)
  PROVE  /\ PagesIn(d) = PagesIn(q) \cup {x}
         /\ Cardinality(SavedIn(d)) = Cardinality(SavedIn(q)) + 1
         /\ \A p : Apart(x, q) /\ p # x /\ p \notin PagesIn(q) => Apart(p, d)
         /\ \A p : Apart(p, d) => Apart(x, q) /\ p # x /\ p \notin PagesIn(q)
<1>1. /\ i \notin SavedIn(q) /\ SavedIn(d) = SavedIn(q) \cup {i}
      /\ d[i].page = x /\ \A j \in SavedIn(q) : d[j].page = q[j].page
  BY DEF Deeper
<1>2. PagesIn(d) = PagesIn(q) \cup {x}
  BY <1>1 DEF PagesIn
<1>3. IsFiniteSet(SavedIn(q))
  BY SavedFinite
<1>4. Cardinality(SavedIn(d)) = Cardinality(SavedIn(q)) + 1
  BY <1>1, <1>3, FS_AddElement
<1>5. ASSUME NEW p, Apart(x, q), p # x, p \notin PagesIn(q) PROVE Apart(p, d)
  <2>1. p \notin PagesIn(d)
    BY <1>2, <1>5
  <2>2. ASSUME NEW a \in SavedIn(d), NEW b \in SavedIn(d), d[a].page = d[b].page PROVE a = b
    <3>1. CASE a \in SavedIn(q) /\ b \in SavedIn(q)
      BY <1>1, <1>5, <2>2, <3>1 DEF Apart
    <3>2. CASE a = i /\ b \in SavedIn(q)
      BY <1>1, <1>5, <2>2, <3>2 DEF Apart, PagesIn
    <3>3. CASE b = i /\ a \in SavedIn(q)
      BY <1>1, <1>5, <2>2, <3>3 DEF Apart, PagesIn
    <3> QED BY <1>1, <3>1, <3>2, <3>3
  <2> QED BY <2>1, <2>2 DEF Apart
<1>6. ASSUME NEW p, Apart(p, d) PROVE Apart(x, q) /\ p # x /\ p \notin PagesIn(q)
  <2>1. p # x /\ p \notin PagesIn(q)
    BY <1>2, <1>6 DEF Apart
  <2>2. x \notin PagesIn(q)
    BY <1>1, <1>6 DEF Apart, PagesIn
  <2>3. ASSUME NEW a \in SavedIn(q), NEW b \in SavedIn(q), q[a].page = q[b].page PROVE a = b
    BY <1>1, <1>6, <2>3 DEF Apart
  <2> QED BY <2>1, <2>2, <2>3 DEF Apart
<1> QED BY <1>2, <1>4, <1>5, <1>6

(* The scopes change, the pages do not.                                    *)
LEMMA SwapWork ==
  ASSUME NEW gn, NEW s, NEW home, NEW f, NEW r, NEW p, NEW on, NEW q,
         Work(gn, s, home, f, r, p, on, q),
         NEW d, Alike(q, d), Scoped(d), TableRoom(s, p, d)
  PROVE  Work(gn, s, home, f, r, p, on, d)
<1>1. SavedIn(d) = SavedIn(q) /\ PagesIn(d) = PagesIn(q)
  BY DEF Alike, PagesIn
<1>2. Apart(p, d)
  <2>1. Apart(p, q)
    BY DEF Work
  <2> QED BY <1>1, <2>1 DEF Apart, Alike
<1> QED BY <1>1, <1>2 DEF Work

(* A scope with a page of its own: the page so far is saved.               *)
LEMMA TakeWork ==
  ASSUME NEW gn, NEW s, NEW home, NEW f, NEW r, NEW p, NEW on, NEW q,
         Work(gn, s, home, f, r, p, on, q),
         NEW m \in Nat, m >= 2, NEW t, NEW k, NEW h, Took(s, home, r, m, t, k, h),
         NEW d, NEW i, Deeper(q, d, i, p), Scoped(d), TableRoom(t, k, d)
  PROVE  Work(gn, t, h, f, r, k, on, d) /\ Grew(s, home, r, t, h)
<1> DEFINE aa == s.rt[r].active
<1>1. /\ Placed(s, home) /\ f \in Codes /\ r \in RTs /\ p \in Pages
      /\ Scoped(q) /\ Apart(p, q) /\ In(home, AtComp) = {p} \cup PagesIn(q)
      /\ Roomy(s, home)
      /\ gn \in Nat /\ Spare(gn, r) \in Nat /\ Alone(gn, s, r)
      /\ aa = Spare(gn, r) + (1 + Cardinality(SavedIn(q)))
      /\ CodeOn(s, home, f, r, on) /\ s.made \in Nat
  BY WorkIs
<1>2. /\ Placed(t, h) /\ t.page = s.page /\ k \in Pages /\ k \notin In(home, AtComp)
      /\ In(h, AtComp) = In(home, AtComp) \cup {k} /\ NumFreeLines(t, k) >= m
      /\ t.rt[r].active = aa + 1
      /\ \A z \in RTs : z # r => t.rt[z] = s.rt[z]
      /\ Grew(s, home, r, t, h)
  BY <1>1, TookIs
<1>3. Len(q) \in Nat
  BY <1>1, LenProperties DEF Scoped
<1>4. k # p /\ k \notin PagesIn(q)
  BY <1>1, <1>2
<1>5. /\ PagesIn(d) = PagesIn(q) \cup {p}
      /\ Cardinality(SavedIn(d)) = Cardinality(SavedIn(q)) + 1
      /\ Apart(k, d)
  BY <1>1, <1>3, <1>4, DeeperIs
<1>6. In(h, AtComp) = {k} \cup PagesIn(d)
  BY <1>1, <1>2, <1>5
<1>7. Roomy(t, h)
  <2> SUFFICES ASSUME NEW x \in In(home, AtComp) \cup {k} PROVE NumFreeLines(t, x) >= 2
    BY <1>2 DEF Roomy
  <2>1. CASE x = k
    <3>1. NumFreeLines(t, k) \in Int
      BY <1>2, FreeIs
    <3> QED BY <1>2, <2>1, <3>1
  <2>2. CASE x \in In(home, AtComp)
    BY <1>1, <1>2, <2>2 DEF Roomy, NumFreeLines
  <2> QED BY <2>1, <2>2
<1>8. t.made \in Nat
  BY <1>2, PlacedIs
<1>9. CodeOn(t, h, f, r, on)
  BY <1>1, <1>2, <1>8, CodeOnGrows
<1>10. Alone(gn, t, r)
  BY <1>1, <1>2 DEF Alone
<1>11. t.rt[r].active = Spare(gn, r) + (1 + Cardinality(SavedIn(d)))
  <2>1. Cardinality(SavedIn(q)) \in Nat
    BY <1>3, SavedFinite
  <2> HIDE DEF aa
  <2> QED BY <1>1, <1>2, <1>5, <2>1
<1> QED BY <1>1, <1>2, <1>5, <1>6, <1>7, <1>9, <1>10, <1>11 DEF Work

(* Out of a scope: its page is given back, and the saved one taken up.     *)
LEMMA LeaveWork ==
  ASSUME NEW gn, NEW s, NEW home, NEW f, NEW r, NEW p, NEW on, NEW q,
         Work(gn, s, home, f, r, p, on, q),
         NEW d, NEW i, NEW x, Deeper(d, q, i, x), Scoped(d),
         NEW t, NEW h, Gave(s, home, r, t, p, h), TableRoom(t, x, d)
  PROVE  Work(gn, t, h, f, r, x, on, d) /\ Grew(s, home, r, t, h)
<1> DEFINE aa == s.rt[r].active
<1>1. /\ Placed(s, home) /\ f \in Codes /\ r \in RTs /\ p \in Pages
      /\ Scoped(q) /\ Apart(p, q) /\ In(home, AtComp) = {p} \cup PagesIn(q)
      /\ Roomy(s, home)
      /\ gn \in Nat /\ Spare(gn, r) \in Nat /\ Alone(gn, s, r)
      /\ aa = Spare(gn, r) + (1 + Cardinality(SavedIn(q)))
      /\ CodeOn(s, home, f, r, on) /\ s.made \in Nat /\ p \in 1 .. s.made
      /\ \A y \in PagesIn(q) : y \in Pages
  BY WorkIs
<1>2. /\ Placed(t, h) /\ t.page = s.page
      /\ In(h, AtComp) = In(home, AtComp) \ {p}
      /\ t.rt[r].active = aa - 1
      /\ \A z \in RTs : z # r => t.rt[z] = s.rt[z]
      /\ Grew(s, home, r, t, h)
  <2>1. GivenUp(s, home, r, t, p, h)
    BY <1>1, GaveIs
  <2> QED BY <2>1 DEF GivenUp
<1>3. Len(d) \in Nat
  BY LenProperties DEF Scoped
<1>4. /\ PagesIn(q) = PagesIn(d) \cup {x}
      /\ Cardinality(SavedIn(q)) = Cardinality(SavedIn(d)) + 1
      /\ Apart(x, d) /\ p # x /\ p \notin PagesIn(d)
  BY <1>1, <1>3, DeeperIs
<1>5. In(h, AtComp) = {x} \cup PagesIn(d) /\ x \in Pages
  BY <1>1, <1>2, <1>4
<1>6. Roomy(t, h)
  BY <1>1, <1>2 DEF Roomy, NumFreeLines
<1>7. t.made \in Nat
  BY <1>2, PlacedIs
<1>8. CodeOn(t, h, f, r, on)
  BY <1>1, <1>2, <1>7, CodeOnGrows
<1>9. Alone(gn, t, r)
  BY <1>1, <1>2 DEF Alone
<1>10. t.rt[r].active = Spare(gn, r) + (1 + Cardinality(SavedIn(d)))
  <2>1. Cardinality(SavedIn(d)) \in Nat
    BY <1>3, SavedFinite
  <2> HIDE DEF aa
  <2> QED BY <1>1, <1>2, <1>4, <2>1
<1> QED BY <1>1, <1>2, <1>4, <1>5, <1>6, <1>8, <1>9, <1>10 DEF Work

NoTable(q) == \A i \in 1 .. Len(q) : q[i].kind = "else"

LEMMA TopIs ==
  ASSUME NEW q, Scoped(q), q # <<>>
  PROVE  /\ Len(q) \in Nat /\ Len(q) >= 1 /\ Len(q) \in 1 .. Len(q) /\ Last(q) = q[Len(q)]
         /\ DOMAIN q = 1 .. Len(q) /\ q[Len(q)] \in ScopeRec
<1>1. q \in Seq(ScopeRec)
  BY DEF Scoped
<1>2. Len(q) \in Nat /\ Len(q) # 0 /\ DOMAIN q = 1 .. Len(q)
  BY <1>1, LenProperties, EmptySeq
<1>3. Len(q) >= 1 /\ Len(q) \in 1 .. Len(q)
  BY <1>2
<1> QED BY <1>1, <1>2, <1>3, ElementOfSeq DEF Last

LEMMA ScopeIs ==
  ASSUME NEW q, Scoped(q), NEW i \in 1 .. Len(q)
  PROVE  /\ q[i] \in ScopeRec /\ q[i].kind \in {"else", "table"} /\ q[i].page \in 0 .. NPages
         /\ q[i].left \in Int
<1>1. q[i] \in ScopeRec
  BY ElementOfSeq DEF Scoped
<1> QED BY <1>1 DEF ScopeRec

LEMMA NotTable ==
  ASSUME NEW q, Scoped(q), q # <<>> => Last(q).kind # "table"
  PROVE  NoTable(q)
<1> SUFFICES ASSUME NEW i \in 1 .. Len(q) PROVE q[i].kind = "else"
  BY DEF NoTable
<1>1. q[i].kind \in {"else", "table"}
  BY ScopeIs
<1>2. ASSUME q[i].kind = "table" PROVE FALSE
  <2>1. i = Len(q)
    BY <1>2 DEF Scoped
  <2>2. Len(q) \in Nat
    BY LenProperties DEF Scoped
  <2>3. q # <<>>
    BY <2>1, <2>2
  <2> QED BY <1>2, <2>1, <2>3, TopIs
<1> QED BY <1>1, <1>2

LEMMA NoTableIs ==
  ASSUME NEW q, Scoped(q), NoTable(q)
  PROVE  AllSaved(q) /\ \A s, p : TableRoom(s, p, q)
BY DEF Scoped, NoTable, AllSaved, TableRoom

LEMMA AppendElse ==
  ASSUME NEW q, Scoped(q), NoTable(q), NEW p \in Pages, NEW c,
         c = [kind |-> "else", page |-> p, left |-> 0]
  PROVE  /\ Scoped(Append(q, c)) /\ NoTable(Append(q, c))
         /\ Deeper(q, Append(q, c), Len(q) + 1, p)
<1> DEFINE d == Append(q, c)
           n == Len(q)
<1>1. p \in 0 .. NPages /\ p # 0 /\ 0 \in Int
  BY DEF Pages
<1>2. c \in ScopeRec /\ c.kind = "else" /\ c.page = p
  BY <1>1 DEF ScopeRec
<1>3. q \in Seq(ScopeRec) /\ n \in Nat
  BY LenProperties DEF Scoped
<1>4. /\ d \in Seq(ScopeRec) /\ Len(d) = n + 1 /\ \A i \in 1 .. n : d[i] = q[i]
      /\ d[n + 1] = c
  BY <1>2, <1>3, AppendProperties
<1> HIDE DEF d
<1>5. \A i \in 1 .. Len(d) : i \in 1 .. n \/ i = n + 1
  BY <1>3, <1>4
<1>6. NoTable(d)
  BY <1>2, <1>4, <1>5 DEF NoTable
<1>7. Scoped(d)
  BY <1>1, <1>2, <1>4, <1>5, <1>6 DEF Scoped, NoTable
<1>8. SavedIn(d) = SavedIn(q) \cup {n + 1} /\ n + 1 \notin SavedIn(q) /\ n + 1 \in 1 .. Len(d)
  BY <1>1, <1>2, <1>3, <1>4, <1>5 DEF SavedIn
<1>9. \A j \in SavedIn(q) : d[j].page = q[j].page
  BY <1>4 DEF SavedIn
<1>10. Deeper(q, d, n + 1, p)
  BY <1>2, <1>4, <1>8, <1>9 DEF Deeper
<1> QED BY <1>6, <1>7, <1>10 DEF d

LEMMA AppendTable ==
  ASSUME NEW q, Scoped(q), NoTable(q), NEW m \in Nat, NEW c,
         c = [kind |-> "table", page |-> 0, left |-> m]
  PROVE  /\ Scoped(Append(q, c)) /\ Alike(q, Append(q, c))
         /\ \A s, p : NumFreeLines(s, p) >= m + 2 => TableRoom(s, p, Append(q, c))
<1> DEFINE d == Append(q, c)
           n == Len(q)
<1>1. 0 \in 0 .. NPages /\ m \in Int /\ m >= 0
  BY WasmRuntimeAssumption
<1>2. c \in ScopeRec /\ c.kind = "table" /\ c.page = 0 /\ c.left = m
  BY <1>1 DEF ScopeRec
<1>3. q \in Seq(ScopeRec) /\ n \in Nat
  BY LenProperties DEF Scoped
<1>4. /\ d \in Seq(ScopeRec) /\ Len(d) = n + 1 /\ \A i \in 1 .. n : d[i] = q[i]
      /\ d[n + 1] = c
  BY <1>2, <1>3, AppendProperties
<1> HIDE DEF d
<1>5. \A i \in 1 .. Len(d) : i \in 1 .. n \/ i = n + 1
  BY <1>3, <1>4
<1>6. Scoped(d)
  <2> SUFFICES ASSUME NEW i \in 1 .. Len(d)
               PROVE  /\ d[i].kind = "else" => d[i].page # 0
                      /\ d[i].kind = "table" => /\ i = Len(d) /\ d[i].left >= 0
                                                /\ d[i].page # 0 => d[i].left >= 1
    BY <1>4 DEF Scoped
  <2>1. CASE i \in 1 .. n
    BY <1>4, <2>1 DEF Scoped, NoTable
  <2>2. CASE i = n + 1
    BY <1>1, <1>2, <1>4, <2>2
  <2> QED BY <1>5, <2>1, <2>2
<1>7. SavedIn(d) = SavedIn(q)
  BY <1>2, <1>3, <1>4, <1>5 DEF SavedIn
<1>8. Alike(q, d)
  BY <1>4, <1>7 DEF Alike, SavedIn
<1>9. ASSUME NEW s, NEW p, NumFreeLines(s, p) >= m + 2 PROVE TableRoom(s, p, d)
  <2> SUFFICES ASSUME NEW i \in 1 .. Len(d), d[i].kind = "table"
               PROVE  NumFreeLines(s, IF d[i].page = 0 THEN p ELSE d[i].page) >= d[i].left + 2
    BY DEF TableRoom
  <2>1. i = n + 1
    <3>1. i \in 1 .. n => d[i].kind = "else"
      BY <1>4 DEF NoTable
    <3> QED BY <1>5, <3>1
  <2> QED BY <1>2, <1>4, <1>9, <2>1
<1> QED BY <1>6, <1>8, <1>9 DEF d

LEMMA FrontOf ==
  ASSUME NEW q, Scoped(q), q # <<>>
  PROVE  /\ Front(q) \in Seq(ScopeRec) /\ Len(Front(q)) = Len(q) - 1
         /\ \A i \in 1 .. Len(q) - 1 : Front(q)[i] = q[i]
         /\ Scoped(Front(q)) /\ NoTable(Front(q))
<1> DEFINE d == Front(q)
           n == Len(q)
<1>1. q \in Seq(ScopeRec) /\ n \in Nat /\ n >= 1
  BY TopIs DEF Scoped
<1>2. d \in Seq(ScopeRec) /\ Len(d) = n - 1 /\ \A i \in 1 .. n - 1 : d[i] = q[i]
  <2> DEFINE e == n - 1
             o == 1
  <2>1. \A i \in o .. e : q[i] \in ScopeRec
    BY <1>1, ElementOfSeq
  <2>2. o \in Int /\ e \in Int /\ (~(o <= e) => e = 0) /\ e - o + 1 = e
    BY <1>1
  <2>3. d = SubSeq(q, o, e)
    BY DEF Front
  <2>4. \A i \in 1 .. e : o + i - 1 = i
    BY <1>1
  <2> HIDE DEF o, e, d
  <2>5. /\ SubSeq(q, o, e) \in Seq(ScopeRec)
        /\ Len(SubSeq(q, o, e)) = IF o <= e THEN e - o + 1 ELSE 0
        /\ \A i \in 1 .. e - o + 1 : SubSeq(q, o, e)[i] = q[o + i - 1]
    BY <2>1, <2>2, SubSeqProperties
  <2> QED BY <2>2, <2>3, <2>4, <2>5 DEF e
<1> HIDE DEF d
<1>3. \A i \in 1 .. Len(d) : /\ i \in 1 .. n /\ i # n /\ d[i] = q[i]
                             /\ q[i].kind \in {"else", "table"}
  <2>1. \A i \in 1 .. Len(d) : i \in 1 .. n /\ i # n /\ d[i] = q[i]
    BY <1>1, <1>2
  <2> QED BY <2>1, ScopeIs
<1>4. NoTable(d)
  BY <1>3 DEF NoTable, Scoped
<1>5. Scoped(d)
  BY <1>2, <1>3, <1>4 DEF NoTable, Scoped
<1> QED BY <1>2, <1>4, <1>5 DEF d

LEMMA FrontElse ==
  ASSUME NEW q, Scoped(q), q # <<>>, Last(q).kind = "else"
  PROVE  Deeper(Front(q), q, Len(q), Last(q).page)
<1> DEFINE d == Front(q)
           n == Len(q)
           x == Last(q).page
<1>1. /\ n \in Nat /\ n >= 1 /\ Len(d) = n - 1 /\ n \in 1 .. n
      /\ \A i \in 1 .. n - 1 : d[i] = q[i]
      /\ Last(q) = q[n]
  BY FrontOf, TopIs
<1>2. q[n].page # 0 /\ q[n].page = x
  BY <1>1 DEF Scoped
<1> HIDE DEF d, x
<1>3. SavedIn(q) = SavedIn(d) \cup {n} /\ n \notin SavedIn(d)
  BY <1>1, <1>2 DEF SavedIn
<1>4. \A j \in SavedIn(d) : q[j].page = d[j].page
  BY <1>1 DEF SavedIn
<1>5. Deeper(d, q, n, x)
  BY <1>1, <1>2, <1>3, <1>4 DEF Deeper
<1> QED BY <1>5 DEF d, x

LEMMA FrontTable ==
  ASSUME NEW q, Scoped(q), q # <<>>, Last(q).page = 0
  PROVE  Alike(q, Front(q))
<1> DEFINE d == Front(q)
           n == Len(q)
<1>1. /\ n \in Nat /\ n >= 1 /\ Len(d) = n - 1
      /\ \A i \in 1 .. n - 1 : d[i] = q[i]
      /\ Last(q) = q[n]
  BY FrontOf, TopIs
<1>2. q[n].page = 0
  BY <1>1
<1> HIDE DEF d
<1>3. SavedIn(q) = SavedIn(d)
  BY <1>1, <1>2 DEF SavedIn
<1>4. \A j \in SavedIn(d) : q[j].page = d[j].page
  BY <1>1 DEF SavedIn
<1>5. Alike(q, d)
  BY <1>3, <1>4 DEF Alike
<1> QED BY <1>5 DEF d

(* Another record for the innermost scope.                                 *)
Changed(q, d, c) ==
  /\ d \in Seq(ScopeRec) /\ Len(d) = Len(q) /\ d[Len(q)] = c
  /\ \A i \in 1 .. Len(q) : i # Len(q) => d[i] = q[i]

LEMMA TopChanged ==
  ASSUME NEW q, Scoped(q), q # <<>>, NEW c \in ScopeRec
  PROVE  Changed(q, [q EXCEPT ![Len(q)] = c], c)
<1> DEFINE n == Len(q)
           d == [q EXCEPT ![n] = c]
<1>1. q \in Seq(ScopeRec) /\ n \in Nat /\ n \in 1 .. n /\ DOMAIN q = 1 .. n
  BY TopIs DEF Scoped
<1>2. d \in Seq(ScopeRec) /\ Len(d) = n /\ d[n] = c /\ \A i \in 1 .. n : i # n => d[i] = q[i]
  BY <1>1, ExceptSeq
<1> QED BY <1>2 DEF Changed

LEMMA TopSaved ==
  ASSUME NEW q, Scoped(q), q # <<>>, Last(q).kind = "table", Last(q).page = 0,
         Last(q).left > 0, NEW p \in Pages, NEW d, NEW c, Changed(q, d, c),
         c.kind = "table", c.page = p, c.left = Last(q).left
  PROVE  /\ Scoped(d) /\ Deeper(q, d, Len(q), p)
         /\ \A s, t, k : TableRoom(s, p, q) /\ t.page = s.page => TableRoom(t, k, d)
<1> DEFINE n == Len(q)
<1>1. /\ n \in Nat /\ n \in 1 .. n /\ Last(q) = q[n] /\ q[n] \in ScopeRec
      /\ d \in Seq(ScopeRec) /\ Len(d) = n /\ d[n] = c
      /\ \A i \in 1 .. n : i # n => d[i] = q[i]
  BY TopIs DEF Changed
<1>2. p # 0 /\ q[n].left \in Int
  BY <1>1 DEF Pages, ScopeRec
<1>3. Scoped(d)
  <2> SUFFICES ASSUME NEW i \in 1 .. n
               PROVE  /\ d[i].kind = "else" => d[i].page # 0
                      /\ d[i].kind = "table" => /\ i = n /\ d[i].left >= 0
                                                /\ d[i].page # 0 => d[i].left >= 1
    BY <1>1 DEF Scoped
  <2>1. CASE i = n
    BY <1>1, <1>2, <2>1
  <2>2. CASE i # n
    BY <1>1, <2>2 DEF Scoped
  <2> QED BY <2>1, <2>2
<1>4. SavedIn(d) = SavedIn(q) \cup {n} /\ n \notin SavedIn(q)
  BY <1>1, <1>2 DEF SavedIn
<1>5. \A j \in SavedIn(q) : d[j].page = q[j].page
  BY <1>1 DEF SavedIn
<1>6. Deeper(q, d, n, p)
  BY <1>1, <1>4, <1>5 DEF Deeper
<1>7. ASSUME NEW s, NEW t, NEW k, TableRoom(s, p, q), t.page = s.page PROVE TableRoom(t, k, d)
  <2> SUFFICES ASSUME NEW i \in 1 .. n, d[i].kind = "table"
               PROVE  NumFreeLines(t, IF d[i].page = 0 THEN k ELSE d[i].page) >= d[i].left + 2
    BY <1>1 DEF TableRoom
  <2>1. i = n
    BY <1>1, <1>3 DEF Scoped
  <2>2. NumFreeLines(s, p) >= q[n].left + 2
    BY <1>1, <1>7 DEF TableRoom
  <2> QED BY <1>1, <1>2, <1>7, <2>1, <2>2 DEF NumFreeLines
<1> QED BY <1>3, <1>6, <1>7

LEMMA TopLeft ==
  ASSUME NEW q, Scoped(q), q # <<>>, Last(q).kind = "table", Last(q).page # 0,
         NEW d, NEW c, Changed(q, d, c),
         c.kind = "table", c.page = 0, c.left = Last(q).left - 1
  PROVE  /\ Scoped(d) /\ Deeper(d, q, Len(q), Last(q).page)
         /\ \A t, x : NumFreeLines(t, x) >= Last(q).left + 1 => TableRoom(t, x, d)
<1> DEFINE n == Len(q)
           l == q[n].left
<1>1. /\ n \in Nat /\ n \in 1 .. n /\ Last(q) = q[n] /\ q[n] \in ScopeRec
      /\ d \in Seq(ScopeRec) /\ Len(d) = n /\ d[n] = c
      /\ \A i \in 1 .. n : i # n => d[i] = q[i]
  BY TopIs DEF Changed
<1>2. l \in Int /\ l >= 1
  BY <1>1 DEF Scoped, ScopeRec
<1>8. c.left = l - 1 /\ c.left >= 0 /\ c.left + 2 = l + 1
  BY <1>1, <1>2
<1> HIDE DEF l
<1>3. Scoped(d)
  <2> SUFFICES ASSUME NEW i \in 1 .. n
               PROVE  /\ d[i].kind = "else" => d[i].page # 0
                      /\ d[i].kind = "table" => /\ i = n /\ d[i].left >= 0
                                                /\ d[i].page # 0 => d[i].left >= 1
    BY <1>1 DEF Scoped
  <2>1. CASE i = n
    BY <1>1, <1>8, <2>1
  <2>2. CASE i # n
    BY <1>1, <2>2 DEF Scoped
  <2> QED BY <2>1, <2>2
<1>4. SavedIn(q) = SavedIn(d) \cup {n} /\ n \notin SavedIn(d)
  BY <1>1 DEF SavedIn
<1>5. \A j \in SavedIn(d) : q[j].page = d[j].page
  BY <1>1 DEF SavedIn
<1>6. Deeper(d, q, n, Last(q).page)
  BY <1>1, <1>4, <1>5 DEF Deeper
<1>7. ASSUME NEW t, NEW x, NumFreeLines(t, x) >= Last(q).left + 1 PROVE TableRoom(t, x, d)
  <2> SUFFICES ASSUME NEW i \in 1 .. n, d[i].kind = "table"
               PROVE  NumFreeLines(t, IF d[i].page = 0 THEN x ELSE d[i].page) >= d[i].left + 2
    BY <1>1 DEF TableRoom
  <2>1. i = n
    BY <1>1, <1>3 DEF Scoped
  <2> QED BY <1>1, <1>7, <1>8, <2>1 DEF l
<1> QED BY <1>3, <1>6, <1>7

(* What a throw out of a scope leaves is a store and a page.               *)
LEMMA OutwardType ==
  ASSUME NEW o, o.rt \in RTs, NEW q, Scoped(q), NEW i \in 1 .. Len(q),
         NEW x \in [s : StoreRec, p : Pages]
  PROVE  Outward(o, q[i], x) \in [s : StoreRec, p : Pages]
<1> DEFINE c == q[i]
           y == Outward(o, c, x)
           v == IF x.p = c.page THEN x.s ELSE Release(x.s, o.rt, x.p)
<1>1. x.s \in StoreRec /\ x.p \in Pages
  OBVIOUS
<1>2. Release(x.s, o.rt, x.p) \in StoreRec
  BY <1>1, ReleaseIs
<1>3. v \in StoreRec
  BY <1>1, <1>2
<1>4. c.kind = "else" => c.page \in Pages
  <2>1. c.page \in 0 .. NPages /\ (c.kind = "else" => c.page # 0)
    BY ScopeIs DEF Scoped
  <2> QED BY <2>1, WasmRuntimeAssumption DEF Pages
<1>5. y = IF c.kind = "else" THEN [s |-> v, p |-> c.page] ELSE x
  BY DEF Outward
<1> HIDE DEF c, v, y
<1>6. y \in [s : StoreRec, p : Pages]
  BY <1>3, <1>4, <1>5
<1> QED BY <1>6 DEF y, c

(* The throw, scope by scope.                                              *)
LEMMA UnwindWalk ==
  ASSUME NEW s \in StoreRec, NEW o, o.rt \in RTs, o.page \in Pages, Scoped(o.outer)
  PROVE  \E w : /\ w[0] = [s |-> s, p |-> o.page]
                /\ \A i \in 1 .. Len(o.outer) :
                     w[i] = Outward(o, o.outer[Len(o.outer) + 1 - i], w[i-1])
                /\ Unwound(s, o) = w[Len(o.outer)]
<1> DEFINE q == o.outer
           n == Len(q)
           b == [s |-> s, p |-> o.page]
           T == [s : StoreRec, p : Pages]
           Is(u) == u = [i \in 0 .. n |-> IF i = 0 THEN b ELSE Outward(o, q[n + 1 - i], u[i-1])]
           w == CHOOSE u : Is(u)
           G == [i \in Nat |-> [x \in T |-> IF i \in 1 .. n THEN Outward(o, q[n + 1 - i], x) ELSE x]]
<1>0. n \in Nat /\ b \in T
  BY LenProperties DEF Scoped
<1>1. PICK f \in [0 .. n -> T] : f[0] = b /\ \A i \in 1 .. n : f[i] = G[i][f[i-1]]
  <2>1. G \in [Nat -> [T -> T]]
    <3>1. ASSUME NEW i \in Nat, NEW x \in T
          PROVE  (IF i \in 1 .. n THEN Outward(o, q[n + 1 - i], x) ELSE x) \in T
      <4>1. CASE i \in 1 .. n
        <5>1. n + 1 - i \in 1 .. n
          BY <1>0, <4>1
        <5> HIDE DEF T
        <5>2. x \in [s : StoreRec, p : Pages]
          BY DEF T
        <5>3. Outward(o, q[n + 1 - i], x) \in [s : StoreRec, p : Pages]
          BY <5>1, <5>2, OutwardType
        <5> QED BY <4>1, <5>3 DEF T
      <4>2. CASE ~(i \in 1 .. n)
        BY <4>2
      <4> QED BY <4>1, <4>2
    <3> HIDE DEF T
    <3> QED BY <3>1
  <2> HIDE DEF G, T, n, b
  <2>2. \E f : Iterated(f, T, b, G, n)
    BY <1>0, <2>1, Iterates
  <2> QED BY <2>2 DEF Iterated
<1>2. ASSUME NEW i \in 0 .. n
      PROVE  f[i] = IF i = 0 THEN b ELSE Outward(o, q[n + 1 - i], f[i-1])
  <2>1. CASE i = 0
    BY <1>1, <2>1
  <2>2. CASE i # 0
    <3>1. i \in 1 .. n /\ i - 1 \in 0 .. n /\ i \in Nat
      BY <1>0, <2>2
    <3> HIDE DEF T
    <3>2. f[i-1] \in T
      BY <3>1
    <3>3. G[i][f[i-1]] = Outward(o, q[n + 1 - i], f[i-1])
      BY <3>1, <3>2
    <3> QED BY <1>1, <2>2, <3>1, <3>3
  <2> QED BY <2>1, <2>2
<1>3. Is(f)
  <2> HIDE DEF T, b
  <2> QED BY <1>2
<1>4. Is(w)
  <2> HIDE DEF Is
  <2> QED BY <1>3
<1>5. Unwound(s, o) = w[n]
  BY DEF Unwound
<1> HIDE DEF w, b
<1>6. w[0] = b
  BY <1>0, <1>4
<1>7. ASSUME NEW i \in 1 .. n PROVE w[i] = Outward(o, q[n + 1 - i], w[i-1])
  <2>1. i \in 0 .. n /\ i # 0
    BY <1>0
  <2> QED BY <1>4, <2>1
<1> QED BY <1>5, <1>6, <1>7 DEF b

(* The pages that are still held on the way out: of the scopes up to k,    *)
(* and of the branch tables, which give none back.                         *)
UpTo(q, k) == {q[j].page : j \in {i \in SavedIn(q) : i <= k}}
Tables(q) == {q[j].page : j \in {i \in SavedIn(q) : q[i].kind = "table"}}
Throwing(s, home, p, q, k) ==
  /\ Placed(s, home) /\ p \in Pages
  /\ In(home, AtComp) = {p} \cup (UpTo(q, k) \cup Tables(q)) /\ p \notin UpTo(q, k) \cup Tables(q)
Unmixed(q) == \A i, j \in SavedIn(q) : q[i].page = q[j].page => i = j

LEMMA ReleaseHeld ==
  ASSUME NEW s, NEW home, Placed(s, home), NEW r \in RTs, NEW p \in In(home, AtComp)
  PROVE  \E h : GivenUp(s, home, r, Release(s, r, p), p, h)
<1> DEFINE t == Release(s, r, p)
<1>1. p \in 1 .. s.made /\ home[p] = AtComp
  BY HeldIs
<1>2. PICK h : Gave(s, home, r, t, p, h)
  BY <1>1, ReleaseGives
<1> HIDE DEF t
<1>3. GivenUp(s, home, r, t, p, h)
  BY <1>1, <1>2, GaveIs
<1> QED BY <1>3 DEF t

(* What a runtime counts as active is e more than what is held.            *)
Even(e, s, home, r) ==
  IsFiniteSet(In(home, AtComp)) /\ s.rt[r].active = e + Cardinality(In(home, AtComp))

LEMMA EvenKept ==
  ASSUME NEW e \in Nat, NEW s, NEW home, NEW r, Even(e, s, home, r), NEW p \in In(home, AtComp),
         NEW t, NEW h, GivenUp(s, home, r, t, p, h)
  PROVE  Even(e, t, h, r)
<1> DEFINE A == In(home, AtComp)
           B == A \ {p}
<1>1. /\ IsFiniteSet(A) /\ s.rt[r].active = e + Cardinality(A)
      /\ In(h, AtComp) = B /\ t.rt[r].active = s.rt[r].active - 1
  BY DEF Even, GivenUp
<1>2. p \in A
  OBVIOUS
<1> HIDE DEF A
<1>3. IsFiniteSet(B) /\ Cardinality(B) = Cardinality(A) - 1
  BY <1>1, <1>2, FS_RemoveElement
<1>4. Cardinality(A) \in Nat
  BY <1>1, FS_CardinalityType
<1> HIDE DEF B
<1>5. t.rt[r].active = e + Cardinality(B)
  BY <1>1, <1>3, <1>4
<1> QED BY <1>1, <1>3, <1>5 DEF Even

LEMMA ThrowOut ==
  ASSUME NEW s, NEW home, NEW p, NEW q, NEW k \in 1 .. Len(q), Throwing(s, home, p, q, k),
         Scoped(q), Unmixed(q), NEW o, o.rt \in RTs, NEW e \in Nat, Even(e, s, home, o.rt),
         NEW x, x.s = s, x.p = p, NEW y, y = Outward(o, q[k], x)
  PROVE  /\ \E h : /\ Throwing(y.s, h, y.p, q, k - 1) /\ Even(e, y.s, h, o.rt)
                  /\ Grew(s, home, o.rt, y.s, h)
         /\ \A z \in RTs : z # o.rt => y.s.rt[z] = s.rt[z]
<1> DEFINE c == q[k]
           U == UpTo(q, k - 1)
           F == Tables(q)
           V == UpTo(q, k)
<1>1. /\ Placed(s, home) /\ p \in Pages /\ In(home, AtComp) = {p} \cup (V \cup F)
      /\ p \notin V \cup F
  BY DEF Throwing
<1>2. /\ c.kind \in {"else", "table"} /\ c.page \in 0 .. NPages
      /\ (c.kind = "else" => c.page # 0) /\ Len(q) \in Nat /\ k \in Nat
  <2>1. Len(q) \in Nat
    BY LenProperties DEF Scoped
  <2> QED BY <2>1, ScopeIs DEF Scoped
<1>3. \A i \in SavedIn(q) : i <= k <=> (i <= k - 1 \/ i = k)
  BY <1>2 DEF SavedIn
<1>4. V = IF c.page # 0 THEN U \cup {c.page} ELSE U
  <2>1. k \in SavedIn(q) <=> c.page # 0
    BY DEF SavedIn
  <2> QED BY <1>3, <2>1 DEF UpTo
<1>5. CASE c.kind = "table"
  <2>1. y = x
    BY <1>5 DEF Outward
  <2>2. c.page # 0 => c.page \in F
    BY <1>5 DEF Tables, SavedIn
  <2>3. V \cup F = U \cup F
    BY <1>4, <2>2
  <2>4. Throwing(s, home, p, q, k - 1)
    BY <1>1, <2>3 DEF Throwing
  <2>5. Grew(s, home, o.rt, s, home)
    BY <1>1, GrewNot
  <2> QED BY <2>1, <2>4, <2>5
<1>6. CASE c.kind = "else"
  <2>1. c.page \in Pages /\ c.page # 0
    BY <1>2, <1>6, WasmRuntimeAssumption DEF Pages
  <2>2. k \in SavedIn(q) /\ c.page \in V
    BY <1>4, <2>1 DEF SavedIn
  <2>3. c.page # p
    BY <1>1, <2>2
  <2>4. y.s = Release(s, o.rt, p) /\ y.p = c.page
    BY <1>6, <2>3 DEF Outward
  <2>6. PICK h : GivenUp(s, home, o.rt, y.s, p, h)
    BY <1>1, <2>4, ReleaseHeld
  <2>7. /\ Placed(y.s, h) /\ In(h, AtComp) = In(home, AtComp) \ {p}
        /\ \A z \in RTs : z # o.rt => y.s.rt[z] = s.rt[z]
        /\ Grew(s, home, o.rt, y.s, h)
    BY <2>6 DEF GivenUp
  <2>8. V = U \cup {c.page}
    BY <1>4, <2>1
  <2>9. In(h, AtComp) = {c.page} \cup (U \cup F)
    BY <1>1, <2>7, <2>8
  <2>10. c.page \notin U
    <3> SUFFICES ASSUME c.page \in U PROVE FALSE
      OBVIOUS
    <3>1. PICK j \in SavedIn(q) : j <= k - 1 /\ q[j].page = c.page
      BY DEF UpTo
    <3>2. j = k
      BY <2>2, <3>1 DEF Unmixed
    <3> QED BY <1>2, <3>1, <3>2
  <2>11. c.page \notin F
    <3> SUFFICES ASSUME c.page \in F PROVE FALSE
      OBVIOUS
    <3>1. PICK j \in SavedIn(q) : q[j].kind = "table" /\ q[j].page = c.page
      BY DEF Tables
    <3>2. j = k
      BY <2>2, <3>1 DEF Unmixed
    <3> QED BY <1>6, <3>1, <3>2
  <2>12. Throwing(y.s, h, y.p, q, k - 1)
    BY <2>1, <2>4, <2>7, <2>9, <2>10, <2>11 DEF Throwing
  <2>13. Even(e, y.s, h, o.rt)
    <3>1. p \in In(home, AtComp)
      BY <1>1
    <3> DEFINE r == o.rt
               t == y.s
    <3>2. GivenUp(s, home, r, t, p, h) /\ Even(e, s, home, r)
      BY <2>6
    <3> HIDE DEF r, t
    <3>3. Even(e, t, h, r)
      BY <3>1, <3>2, EvenKept
    <3> QED BY <3>3 DEF r, t
  <2> QED BY <2>7, <2>12, <2>13
<1> QED BY <1>2, <1>5, <1>6

LEMMA UnwoundIs ==
  ASSUME NEW s, NEW home, NEW o, o.rt \in RTs, Scoped(o.outer), Apart(o.page, o.outer),
         Placed(s, home), o.page \in Pages, In(home, AtComp) = {o.page} \cup PagesIn(o.outer),
         NEW e \in Nat, Even(e, s, home, o.rt)
  PROVE  /\ \E h : /\ Throwing(Unwound(s, o).s, h, Unwound(s, o).p, o.outer, 0)
                  /\ Even(e, Unwound(s, o).s, h, o.rt)
                  /\ Grew(s, home, o.rt, Unwound(s, o).s, h)
         /\ \A z \in RTs : z # o.rt => Unwound(s, o).s.rt[z] = s.rt[z]
<1> DEFINE q == o.outer
           n == Len(q)
           r == o.rt
           Same(t) == \A z \in RTs : z # r => t.rt[z] = s.rt[z]
           Good(t, h) == Even(e, t, h, r) /\ Grew(s, home, r, t, h)
<1>1. n \in Nat /\ s \in StoreRec /\ Unmixed(q)
  BY PlacedIs, LenProperties DEF Scoped, Apart, Unmixed
<1>2. PICK w : /\ w[0] = [s |-> s, p |-> o.page]
               /\ \A i \in 1 .. n : w[i] = Outward(o, q[n + 1 - i], w[i-1])
               /\ Unwound(s, o) = w[n]
  BY <1>1, UnwindWalk
<1> DEFINE S == {i \in 0 .. n : /\ \E h : Throwing(w[i].s, h, w[i].p, q, n - i) /\ Good(w[i].s, h)
                              /\ Same(w[i].s)}
<1>3. 0 \in S
  <2>1. w[0].s = s /\ w[0].p = o.page /\ n - 0 = n /\ 0 \in 0 .. n
    BY <1>1, <1>2
  <2>2. UpTo(q, n) = PagesIn(q) /\ Tables(q) \subseteq PagesIn(q)
    BY <1>1 DEF UpTo, Tables, PagesIn, SavedIn
  <2>3. Throwing(s, home, o.page, q, n)
    BY <2>2 DEF Throwing, Apart
  <2>4. Same(s) /\ Good(s, home)
    BY GrewNot
  <2> HIDE DEF Same, Good
  <2> QED BY <2>1, <2>3, <2>4
<1>4. ASSUME NEW i \in 1 .. n, i - 1 \in S PROVE i \in S
  <2> DEFINE x == w[i-1]
             y == w[i]
             k == n + 1 - i
  <2>1. k \in 1 .. n /\ n - (i - 1) = k /\ n - i = k - 1 /\ i \in 0 .. n
    BY <1>1
  <2>2. PICK h : Throwing(x.s, h, x.p, q, k) /\ Good(x.s, h)
    <3> HIDE DEF Good, Same
    <3> QED BY <1>4, <2>1
  <2>3. Same(x.s)
    BY <1>4
  <2>4. y = Outward(o, q[k], x)
    BY <1>2
  <2> HIDE DEF x, y, k
  <2> DEFINE xs == x.s
             xp == x.p
             ys == y.s
  <2>5. /\ \E g : Throwing(ys, g, y.p, q, k - 1) /\ Even(e, ys, g, r) /\ Grew(xs, h, r, ys, g)
        /\ \A z \in RTs : z # r => ys.rt[z] = xs.rt[z]
    <3>1. x.s = xs /\ x.p = xp /\ Throwing(xs, h, xp, q, k) /\ Even(e, xs, h, o.rt)
      BY <2>2
    <3>2. k \in 1 .. Len(q) /\ Scoped(q) /\ Unmixed(q)
      BY <1>1, <2>1
    <3> HIDE DEF xs, xp, n
    <3>3. /\ \E g : /\ Throwing(y.s, g, y.p, q, k - 1) /\ Even(e, y.s, g, o.rt)
                   /\ Grew(xs, h, o.rt, y.s, g)
          /\ \A z \in RTs : z # o.rt => y.s.rt[z] = xs.rt[z]
      BY <2>4, <3>1, <3>2, ThrowOut
    <3> QED BY <3>3
  <2>6. Same(ys)
    BY <2>3, <2>5
  <2>7. PICK g : Throwing(ys, g, y.p, q, k - 1) /\ Even(e, ys, g, r) /\ Grew(xs, h, r, ys, g)
    BY <2>5
  <2>8. Good(ys, g)
    <3>1. s.made \in Nat /\ xs.made \in Nat /\ ys.made \in Nat
      <4>1. Placed(xs, h) /\ Placed(ys, g)
        BY <2>2, <2>7 DEF Throwing
      <4> HIDE DEF xs, ys
      <4> QED BY <4>1, PlacedIs
    <3>2. Grew(s, home, r, xs, h)
      BY <2>2
    <3> HIDE DEF xs, ys, r
    <3>3. Grew(s, home, r, ys, g)
      BY <2>7, <3>1, <3>2, GrewTwice
    <3> QED BY <2>7, <3>3
  <2> HIDE DEF Same, Good, ys
  <2>9. \E j : Throwing(ys, j, y.p, q, n - i) /\ Good(ys, j)
    BY <2>1, <2>7, <2>8
  <2> QED BY <2>1, <2>6, <2>9 DEF y, ys
<1>5. n \in S
  <2> HIDE DEF S, n
  <2>1. \A i \in 0 .. n : i \in S
    BY <1>1, <1>3, <1>4, StepByStep
  <2> QED BY <1>1, <2>1
<1>6. n - n = 0
  BY <1>1
<1> QED BY <1>2, <1>5, <1>6

(* The pages still held when a throw has ended are nowhere any more.       *)
LEMMA LostAre ==
  ASSUME NEW s, NEW home, Placed(s, home), NEW L, L = In(home, AtComp), NEW z
  PROVE  /\ \E h : /\ Placed([s EXCEPT !.lost = @ \cup L], h) /\ In(h, AtComp) = {}
                  /\ Grew(s, home, z, [s EXCEPT !.lost = @ \cup L], h)
         /\ [s EXCEPT !.lost = @ \cup L].rt = s.rt
<1> DEFINE m == s.made
           l == s.lost \cup L
           t == [s EXCEPT !.lost = l]
           h == [x \in 1 .. m |-> IF home[x] = AtComp THEN AtNone ELSE home[x]]
<1>1. /\ s \in StoreRec /\ m \in Nat /\ home \in [1 .. m -> Spots] /\ DOMAIN home = 1 .. m
      /\ 1 .. m \subseteq Pages /\ s.lost \in SUBSET Pages
  BY PlacedIs
<1>2. l \in SUBSET Pages
  BY <1>1 DEF In
<1> HIDE DEF l
<1>3. /\ t \in StoreRec /\ t.lost = l /\ t.made = m /\ t.page = s.page /\ t.rt = s.rt
      /\ t.released = s.released
  BY <1>1, <1>2 DEF StoreRec
<1>4. /\ h \in [1 .. m -> Spots] /\ DOMAIN h = 1 .. m
      /\ \A x \in 1 .. m : h[x] = IF home[x] = AtComp THEN AtNone ELSE home[x]
  BY <1>1, SpotsDiffer
<1> HIDE DEF h
<1>5. In(h, AtComp) = {}
  BY <1>4, SpotsDiffer DEF In
<1>6. In(h, AtNone) = In(home, AtNone) \cup In(home, AtComp)
  BY <1>1, <1>4, SpotsDiffer DEF In
<1>7. ASSUME NEW y, y # AtNone, y # AtComp PROVE In(h, y) = In(home, y)
  BY <1>1, <1>4, <1>7 DEF In
<1>8. t = [s EXCEPT !.lost = @ \cup L]
  BY <1>1 DEF l, StoreRec
<1> HIDE DEF t
<1>9. /\ Lists(s.released, In(home, AtEnv)) /\ s.lost = In(home, AtNone)
      /\ \A r \in RTs : RtPlaced(s.rt[r], home, r) /\ LinesFit(s)
  BY DEF Placed
<1>10. Lists(t.released, In(h, AtEnv)) /\ t.lost = In(h, AtNone)
  <2>1. In(h, AtEnv) = In(home, AtEnv)
    BY <1>7, SpotsDiffer
  <2> QED BY <1>3, <1>6, <1>9, <2>1 DEF l
<1>11. ASSUME NEW r \in RTs PROVE RtPlaced(t.rt[r], h, r)
  <2>1. In(h, AtOpen(r)) = In(home, AtOpen(r)) /\ In(h, AtFull(r)) = In(home, AtFull(r))
    BY <1>7, SpotsDiffer
  <2>2. RtPlaced(s.rt[r], home, r)
    BY <1>9
  <2> QED BY <1>3, <2>1, <2>2 DEF RtPlaced
<1>12. LinesFit(t)
  BY <1>3 DEF LinesFit, Placed
<1>13. Placed(t, h)
  BY <1>3, <1>4, <1>10, <1>11, <1>12 DEF Placed
<1>14. Grew(s, home, z, t, h)
  BY <1>1, <1>3, <1>4, SpotsDiffer DEF Grew, Of
<1> QED BY <1>3, <1>5, <1>8, <1>13, <1>14

(* The held pages of an injective list of scopes are as many as its saved  *)
(* entries, and one.                                                       *)
LEMMA HeldCount ==
  ASSUME NEW p, NEW q, Scoped(q), Apart(p, q)
  PROVE  /\ IsFiniteSet({p} \cup PagesIn(q))
         /\ Cardinality({p} \cup PagesIn(q)) = 1 + Cardinality(SavedIn(q))
<1> DEFINE S == SavedIn(q)
           T == PagesIn(q)
           g == [i \in S |-> q[i].page]
<1>1. IsFiniteSet(S) /\ Cardinality(S) \in Nat
  <2>1. Len(q) \in Nat
    BY LenProperties DEF Scoped
  <2> QED BY <2>1, SavedFinite
<1>2. g \in Bijection(S, T)
  <2>1. g \in [S -> T] /\ \A y \in T : \E i \in S : g[i] = y
    BY DEF PagesIn
  <2>2. \A i, j \in S : g[i] = g[j] => i = j
    BY DEF Apart
  <2> HIDE DEF g, S, T
  <2> QED BY <2>1, <2>2 DEF Bijection, Injection, Surjection, IsInjective
<1>3. ExistsBijection(S, T)
  BY <1>2 DEF ExistsBijection
<1> HIDE DEF S, T
<1>4. IsFiniteSet(T) /\ Cardinality(T) = Cardinality(S)
  BY <1>1, <1>3, FS_Bijection
<1>5. p \notin T
  BY DEF Apart, T
<1>6. IsFiniteSet(T \cup {p}) /\ Cardinality(T \cup {p}) = Cardinality(T) + 1
  BY <1>4, <1>5, FS_AddElement
<1>7. T \cup {p} = {p} \cup PagesIn(q)
  BY DEF T
<1>8. Cardinality(T) + 1 = 1 + Cardinality(S)
  BY <1>1, <1>4
<1> QED BY <1>6, <1>7, <1>8 DEF S

(* Nothing is held.                                                        *)
Rest(gn, s, home) ==
  /\ Placed(s, home) /\ In(home, AtComp) = {} /\ gn \in Nat
  /\ \A z \in RTs : s.rt[z].active = Spare(gn, z)

(* A store that a failed driver step is left with.                         *)
Halted(s) == \E home : Placed(s, home) /\ In(home, AtComp) = {} /\ s.rt["tmp"].active = 0

ThrownStore(s, o) ==
  LET u == Unwound(s, o)
      released == [Release(u.s, o.rt, u.p) EXCEPT !.lost = @ \cup Forgotten(o)]
  IN IF o.rt = "tmp" THEN RuntimeRelease(released, "tmp") ELSE released

LEMMA ThrowEnds ==
  ASSUME NEW gn, NEW s, NEW home, NEW f, NEW r, NEW p, NEW on, NEW q,
         Work(gn, s, home, f, r, p, on, q),
         NEW o, o.rt = r, o.page = p, o.outer = q
  PROVE  /\ Halted(ThrownStore(s, o))
         /\ r = "main" => \E h : /\ Rest(gn + Cardinality(Forgotten(o)), ThrownStore(s, o), h)
                                 /\ Grew(s, home, r, ThrownStore(s, o), h)
<1> DEFINE u == Unwound(s, o)
           v == Release(u.s, r, u.p)
           w == [v EXCEPT !.lost = @ \cup Forgotten(o)]
           us == u.s
           up == u.p
           F == Forgotten(o)
           e == Spare(gn, r)
<1>1. /\ Placed(s, home) /\ r \in RTs /\ p \in Pages /\ Scoped(q) /\ Apart(p, q)
      /\ In(home, AtComp) = {p} \cup PagesIn(q) /\ Alone(gn, s, r)
      /\ gn \in Nat /\ e \in Nat /\ s.rt[r].active = e + (1 + Cardinality(SavedIn(q)))
  BY WorkIs
<1>2. Even(e, s, home, r)
  BY <1>1, HeldCount DEF Even
<1> HIDE DEF e
<1>3. /\ \E h : Throwing(us, h, up, q, 0) /\ Even(e, us, h, r) /\ Grew(s, home, r, us, h)
      /\ \A z \in RTs : z # r => us.rt[z] = s.rt[z]
  BY <1>1, <1>2, UnwoundIs
<1>4. PICK h : Throwing(us, h, up, q, 0) /\ Even(e, us, h, r) /\ Grew(s, home, r, us, h)
  BY <1>3
<1>5. UpTo(q, 0) = {}
  <2>1. Len(q) \in Nat
    BY <1>1, LenProperties DEF Scoped
  <2>2. \A i \in SavedIn(q) : ~(i <= 0)
    BY <2>1 DEF SavedIn
  <2> QED BY <2>2 DEF UpTo
<1>6. F = Tables(q)
  <2>1. DOMAIN q = 1 .. Len(q)
    BY <1>1, LenProperties DEF Scoped
  <2> QED BY <2>1 DEF Forgotten, Tables, SavedIn
<1> HIDE DEF u
<1>7. Placed(us, h) /\ In(h, AtComp) = {up} \cup Tables(q) /\ up \notin Tables(q)
  BY <1>4, <1>5 DEF Throwing
<1>8. v = Release(us, r, up)
  OBVIOUS
<1> HIDE DEF us, up, v, F
<1>9. up \in In(h, AtComp)
  BY <1>7
<1>10. PICK g : GivenUp(us, h, r, v, up, g)
  BY <1>1, <1>7, <1>8, <1>9, ReleaseHeld
<1>11. /\ Placed(v, g) /\ In(g, AtComp) = Tables(q)
       /\ \A z \in RTs : z # r => v.rt[z] = us.rt[z]
       /\ Grew(us, h, r, v, g)
  BY <1>7, <1>10 DEF GivenUp
<1>12. Even(e, v, g, r)
  BY <1>1, <1>4, <1>9, <1>10, EvenKept
<1>13. F = In(g, AtComp) /\ w = [v EXCEPT !.lost = @ \cup F]
  BY <1>6, <1>11 DEF F
<1>14. (\E k : Placed(w, k) /\ In(k, AtComp) = {} /\ Grew(v, g, r, w, k)) /\ w.rt = v.rt
  BY <1>11, <1>13, LostAre
<1> HIDE DEF w
<1>15. PICK k : Placed(w, k) /\ In(k, AtComp) = {} /\ Grew(v, g, r, w, k)
  BY <1>14
<1>16. ThrownStore(s, o) = IF r = "tmp" THEN RuntimeRelease(w, "tmp") ELSE w
  BY DEF ThrownStore, w, v, u
<1>17. CASE r = "tmp"
  <2>1. PICK j : Reset(w, k, "tmp", RuntimeRelease(w, "tmp"), j)
    BY <1>15, RuntimeReleaseResets DEF RTs
  <2> DEFINE x == RuntimeRelease(w, "tmp")
  <2>2. ThrownStore(s, o) = x
    BY <1>16, <1>17
  <2> HIDE DEF x
  <2>3. /\ Placed(x, j) /\ x.made = w.made /\ x.rt["tmp"] = Fresh
        /\ \A y \in 1 .. w.made : IF k[y] \in {AtOpen("tmp"), AtFull("tmp")} THEN j[y] = AtEnv
                                  ELSE j[y] = k[y]
    BY <2>1 DEF Reset, x
  <2>4. DOMAIN j = 1 .. w.made /\ DOMAIN k = 1 .. w.made
    BY <1>15, <2>3, PlacedIs
  <2>5. In(j, AtComp) = {}
    BY <1>15, <2>3, <2>4, SpotsDiffer DEF In
  <2>6. Fresh.active = 0
    BY DEF Fresh
  <2> QED BY <1>17, <2>2, <2>3, <2>5, <2>6 DEF Halted
<1>18. CASE r # "tmp"
  <2>1. "tmp" \in RTs /\ r = "main"
    BY <1>1, <1>18 DEF RTs
  <2>2. ThrownStore(s, o) = w
    BY <1>16, <1>18
  <2>3. \A z \in RTs : z # r => w.rt[z].active = Spare(gn, z)
    <3>1. \A z \in RTs : z # r => w.rt[z] = s.rt[z]
      BY <1>3, <1>11, <1>14
    <3> QED BY <1>1, <3>1 DEF Alone
  <2>4. Halted(w)
    <3>1. w.rt["tmp"].active = 0
      BY <1>18, <2>1, <2>3 DEF Spare
    <3> QED BY <1>15, <3>1 DEF Halted
  <2>5. /\ gn + Cardinality(F) \in Nat
        /\ \A z \in RTs : w.rt[z].active = Spare(gn + Cardinality(F), z)
    <3>1. IsFiniteSet(F) /\ v.rt[r].active = e + Cardinality(F)
      BY <1>12, <1>13 DEF Even
    <3>2. e = gn
      BY <2>1 DEF e, Spare
    <3>3. Cardinality(F) \in Nat
      BY <3>1, FS_CardinalityType
    <3>4. w.rt[r].active = gn + Cardinality(F)
      BY <1>14, <3>1, <3>2
    <3> QED BY <1>1, <2>1, <2>3, <3>3, <3>4 DEF Spare
  <2>6. Rest(gn + Cardinality(F), w, k)
    BY <1>15, <2>5 DEF Rest
  <2>7. Grew(s, home, r, w, k)
    <3>1. s.made \in Nat /\ us.made \in Nat /\ v.made \in Nat /\ w.made \in Nat
      BY <1>1, <1>7, <1>11, <1>15, PlacedIs
    <3>2. Grew(s, home, r, v, g)
      BY <1>4, <1>11, <3>1, GrewTwice
    <3> QED BY <1>15, <3>1, <3>2, GrewTwice
  <2> QED BY <2>2, <2>4, <2>6, <2>7 DEF F
<1> QED BY <1>17, <1>18

(* ------------------------------------------------------------------------ *)

Coded(s, home, code) == \A f \in Funcs : CodeOn(s, home, f, "main", code[f])
StoreInv(gn, s, c, m) ==
  \E home : /\ Coded(s, home, m.code)
            /\ IF c = NoComp THEN Rest(gn, s, home)
               ELSE Work(gn, s, home, c.fn, c.rt, c.page, c.on, c.outer)

ModRec == [start : {"none", "due"}, has : BOOLEAN, inits : Int, code : [Funcs -> SUBSET Pages]]
DrvRec == [at : {"idle", "load", "link", "find", "call"}, run : {"none", "init", "step"}, exprs : Int,
           names : Int, gone : Nat]
(* The start function is due, is running, or has run.                      *)
StartRule(m, run) ==
  /\ m.start = "due" => m.has /\ m.inits = 0 /\ run = "none"
  /\ run = "init" => m.has /\ m.inits = 0 /\ m.start = "none"
  /\ m.start = "none" /\ run \in {"none", "step"} => m.inits = IF m.has THEN 1 ELSE 0
Steering(m, d) ==
  /\ m \in ModRec /\ d \in DrvRec /\ StartRule(m, d.run)
  /\ d.at \in {"idle", "load"} => m.code = Unborn
  /\ d.at = "idle" => d.gone = 0
Where(c, d) ==
  /\ c \in OpRec
  /\ IF c.rt = "tmp" THEN d.at = "load" ELSE d.at \notin {"idle", "load"} /\ c.fn \in Funcs
RtInv ==
  /\ Steering(mod, drv) /\ (comp = NoComp \/ Where(comp, drv))
  /\ StoreInv(drv.gone, store, comp, mod)

LEMMA OpIs ==
  ASSUME NEW c \in OpRec
  PROVE  /\ c.fn \in Codes /\ c.rt \in RTs /\ c.page \in Pages /\ c.on \in SUBSET Pages
         /\ c.outer \in Seq(ScopeRec) /\ c.ops \in Int /\ c # NoComp /\ c.fn # "none"
<1>1. /\ c.fn \in Codes /\ c.rt \in RTs /\ c.page \in Pages /\ c.on \in SUBSET Pages
      /\ c.outer \in Seq(ScopeRec) /\ c.ops \in Int
  BY DEF OpRec
<1>2. "none" \notin Codes
  BY DEF Codes, Funcs
<1>3. NoComp.fn = "none"
  BY DEF NoComp
<1> QED BY <1>1, <1>2, <1>3

LEMMA CompilingIs ==
  ASSUME RtInv
  PROVE  (Compiling <=> comp # NoComp) /\ (Compiling => Where(comp, drv))
<1>1. comp = NoComp => ~Compiling
  BY DEF NoComp, Compiling
<1>2. Where(comp, drv) => Compiling /\ comp # NoComp
  BY OpIs DEF Where, Compiling
<1> QED BY <1>1, <1>2 DEF RtInv

LEMMA UnbornCoded ==
  ASSUME NEW s, NEW home
  PROVE  Coded(s, home, Unborn) /\ Coded(s, home, NoModule.code)
BY DEF Coded, CodeOn, Unborn, NoModule

LEMMA IdleSteering == Steering(NoModule, Idle)
<1>1. NoModule \in ModRec /\ NoModule.code = Unborn
  BY DEF NoModule, ModRec, Unborn
<1>2. Idle \in DrvRec /\ Idle.run = "none" /\ Idle.at = "idle" /\ Idle.gone = 0
  BY DEF Idle, DrvRec
<1>3. NoModule.start = "none" /\ NoModule.has = FALSE /\ NoModule.inits = 0
  BY DEF NoModule
<1> QED BY <1>1, <1>2, <1>3 DEF Steering, StartRule

(* m3_FreeRuntime: nothing is left but the environment's pages.            *)
LEMMA FreedIs ==
  ASSUME NEW s, Halted(s)
  PROVE  StoreInv(0, RuntimeRelease(s, "main"), NoComp, NoModule)
<1> DEFINE t == RuntimeRelease(s, "main")
           r == "main"
<1>1. PICK home : Placed(s, home) /\ In(home, AtComp) = {} /\ s.rt["tmp"].active = 0
  BY DEF Halted
<1>2. r \in RTs /\ "tmp" \in RTs /\ "tmp" # r /\ \A z \in RTs : z = r \/ z = "tmp"
  BY DEF RTs
<1>3. PICK h : Reset(s, home, r, t, h)
  BY <1>1, <1>2, RuntimeReleaseResets
<1> HIDE DEF t, r
<1>4. /\ Placed(t, h) /\ t.made = s.made /\ t.rt[r] = Fresh
      /\ \A q \in RTs : q # r => t.rt[q] = s.rt[q]
      /\ \A q \in 1 .. s.made : IF home[q] \in {AtOpen(r), AtFull(r)} THEN h[q] = AtEnv
                                ELSE h[q] = home[q]
  BY <1>3 DEF Reset
<1>5. DOMAIN h = 1 .. s.made /\ DOMAIN home = 1 .. s.made
  BY <1>1, <1>4, PlacedIs
<1>6. In(h, AtComp) = {}
  BY <1>1, <1>4, <1>5, SpotsDiffer DEF In
<1>7. 0 \in Nat /\ \A z \in RTs : t.rt[z].active = Spare(0, z)
  <2>1. Fresh.active = 0
    BY DEF Fresh
  <2> QED BY <1>1, <1>2, <1>4, <2>1 DEF Spare
<1>8. Rest(0, t, h)
  BY <1>4, <1>6, <1>7 DEF Rest
<1>9. StoreInv(0, t, NoComp, NoModule)
  BY <1>8, UnbornCoded DEF StoreInv
<1> QED BY <1>9 DEF t

LEMMA FreeRuntimeInv ==
  ASSUME NEW s, Halted(s), FreeRuntime(s)
  PROVE  RtInv'
<1>1. store' = RuntimeRelease(s, "main") /\ mod' = NoModule /\ drv' = Idle /\ comp' = NoComp
  BY DEF FreeRuntime
<1>2. StoreInv(0, store', comp', mod')
  BY <1>1, FreedIs
<1>3. Steering(mod', drv') /\ drv'.gone = 0
  BY <1>1, IdleSteering DEF Idle
<1> QED BY <1>1, <1>2, <1>3 DEF RtInv

LEMMA CodedGrows ==
  ASSUME NEW s, NEW home, NEW code, Coded(s, home, code), NEW r \in RTs, r = "tmp" => code = Unborn,
         s.made \in Nat, NEW t, NEW h, Grew(s, home, r, t, h), t.made \in Nat
  PROVE  Coded(t, h, code)
<1>1. CASE r = "tmp"
  BY <1>1, UnbornCoded
<1>2. CASE r # "tmp"
  <2>1. r = "main"
    BY <1>2 DEF RTs
  <2>2. ASSUME NEW f \in Funcs PROVE CodeOn(t, h, f, r, code[f])
    <3>1. CodeOn(s, home, f, r, code[f])
      BY <2>1 DEF Coded
    <3> QED BY <3>1, CodeOnGrows
  <2> QED BY <2>1, <2>2 DEF Coded
<1> QED BY <1>1, <1>2

(* The next name is looked for in the runtime as it was left.              *)
LEMMA NextNameInv ==
  ASSUME RtInv, drv.at = "find", NEW s, NEW home, NEW c, NextName(s, c),
         Rest(drv.gone + c, s, home), Coded(s, home, mod.code)
  PROVE  RtInv'
<1>1. /\ store' = s /\ comp' = NoComp /\ mod' = mod
      /\ drv' = [drv EXCEPT !.names = @ - 1, !.gone = @ + c]
  BY DEF NextName
<1>2. /\ mod \in ModRec /\ drv \in DrvRec /\ StartRule(mod, drv.run)
      /\ drv.at \in {"idle", "load"} => mod.code = Unborn
  BY DEF RtInv, Steering
<1> DEFINE g == drv.gone + c
           n == drv.names - 1
<1>3. g \in Nat
  BY DEF Rest
<1>4. drv' = [drv EXCEPT !.names = n, !.gone = g] /\ n \in Int
  BY <1>1, <1>2 DEF DrvRec
<1> HIDE DEF g, n
<1>5. drv' \in DrvRec /\ drv'.gone = g /\ drv'.at = drv.at /\ drv'.run = drv.run
  BY <1>2, <1>3, <1>4 DEF DrvRec
<1>6. Steering(mod', drv')
  BY <1>1, <1>2, <1>5 DEF Steering
<1>7. Rest(g, s, home)
  BY DEF g
<1>8. StoreInv(g, store', comp', mod')
  BY <1>1, <1>7 DEF StoreInv
<1> QED BY <1>1, <1>5, <1>6, <1>8 DEF RtInv

LEMMA ThrowInv ==
  ASSUME RtInv, NEW s, NEW home, NEW f, NEW r, NEW p, NEW on, NEW q,
         Work(drv.gone, s, home, f, r, p, on, q), Coded(s, home, mod.code),
         drv.at = "find" => r = "main",
         NEW o, o.rt = r, o.page = p, o.outer = q, Throw(s, o)
  PROVE  RtInv'
<1> DEFINE t == ThrownStore(s, o)
           c == Cardinality(Forgotten(o))
<1>1. Failed(t, c)
  BY DEF Throw, ThrownStore
<1>2. Halted(t) /\ (r = "main" => \E h : Rest(drv.gone + c, t, h) /\ Grew(s, home, r, t, h))
  BY ThrowEnds
<1>3. s.made \in Nat /\ r \in RTs
  BY WorkIs
<1> HIDE DEF t, c
<1>4. CASE FreeRuntime(t)
  BY <1>2, <1>4, FreeRuntimeInv
<1>5. CASE drv.at = "find" /\ NextName(t, c)
  <2>1. r = "main"
    BY <1>5
  <2>2. PICK h : Rest(drv.gone + c, t, h) /\ Grew(s, home, r, t, h)
    BY <1>2, <2>1
  <2>3. t.made \in Nat
    BY <2>2, PlacedIs DEF Rest
  <2>4. r = "tmp" => mod.code = Unborn
    BY <2>1
  <2>5. Coded(t, h, mod.code)
    <3> DEFINE code == mod.code
    <3>1. Coded(s, home, code) /\ (r = "tmp" => code = Unborn)
      BY <2>4
    <3> HIDE DEF code
    <3>2. Coded(t, h, code)
      BY <1>3, <2>2, <2>3, <3>1, CodedGrows
    <3> QED BY <3>2 DEF code
  <2> QED BY <1>5, <2>2, <2>5, NextNameInv
<1> QED BY <1>1, <1>4, <1>5 DEF Failed

LEMMA SavedUnless ==
  ASSUME NEW q, Scoped(q), q # <<>> /\ Last(q).kind = "table" => Last(q).page # 0
  PROVE  AllSaved(q)
<1> SUFFICES ASSUME NEW i \in 1 .. Len(q) PROVE q[i].page # 0
  BY DEF AllSaved
<1>1. q[i].kind \in {"else", "table"} /\ (q[i].kind = "else" => q[i].page # 0)
  BY ScopeIs DEF Scoped
<1>2. CASE q[i].kind = "table"
  <2>1. i = Len(q)
    BY <1>2 DEF Scoped
  <2>2. q # <<>>
    BY <2>1
  <2> QED BY <1>2, <2>1, <2>2, TopIs
<1> QED BY <1>1, <1>2

(* What the compilation under way has.                                     *)
Base(home) ==
  /\ Coded(store, home, mod.code)
  /\ Work(drv.gone, store, home, comp.fn, comp.rt, comp.page, comp.on, comp.outer)

LEMMA BaseIs ==
  ASSUME RtInv, Compiling
  PROVE  /\ \E home : Base(home)
         /\ comp \in OpRec /\ comp.rt \in RTs /\ comp.fn \in Codes /\ Where(comp, drv)
         /\ drv.at = "find" => comp.rt = "main"
         /\ comp.rt = "tmp" => mod.code = Unborn
         /\ Scoped(comp.outer)
<1>1. comp # NoComp /\ Where(comp, drv)
  BY CompilingIs
<1>2. comp \in OpRec /\ comp.rt \in RTs /\ comp.fn \in Codes
  BY <1>1, OpIs DEF Where
<1>3. PICK home : Base(home)
  BY <1>1 DEF RtInv, StoreInv, Base
<1>4. comp.rt = "tmp" => mod.code = Unborn
  BY <1>1 DEF RtInv, Steering, Where
<1>5. Scoped(comp.outer)
  BY <1>3, WorkIs DEF Base
<1>6. drv.at = "find" => comp.rt = "main"
  BY <1>1, <1>2 DEF Where, RTs
<1> QED BY <1>1, <1>2, <1>3, <1>4, <1>5, <1>6

(* A step after which the same compilation goes on.                        *)
LEMMA GoesOn ==
  ASSUME RtInv, Compiling, UNCHANGED <<mod, drv>>, NEW home, Base(home), NEW h,
         comp' \in OpRec, comp'.fn = comp.fn, comp'.rt = comp.rt,
         Work(drv.gone, store', h, comp.fn, comp.rt, comp'.page, comp'.on, comp'.outer),
         Grew(store, home, comp.rt, store', h)
  PROVE  RtInv'
<1>1. /\ comp \in OpRec /\ comp.rt \in RTs /\ Where(comp, drv)
      /\ comp.rt = "tmp" => mod.code = Unborn
  BY BaseIs
<1>2. Where(comp', drv')
  BY <1>1 DEF Where
<1>3. comp' # NoComp
  BY OpIs
<1>4. Placed(store, home) /\ Placed(store', h)
  BY WorkIs DEF Base
<1>5. store.made \in Nat /\ store'.made \in Nat
  BY <1>4, PlacedIs
<1>6. Coded(store', h, mod.code)
  BY <1>1, <1>5, CodedGrows DEF Base
<1>7. StoreInv(drv.gone, store', comp', mod')
  BY <1>3, <1>6 DEF StoreInv
<1>8. Steering(mod', drv')
  BY DEF RtInv
<1> QED BY <1>2, <1>7, <1>8 DEF RtInv

LEMMA ThrowKeeps ==
  ASSUME RtInv, Compiling, Throw(store, comp)
  PROVE  RtInv'
<1>1. PICK home : Base(home)
  BY BaseIs
<1>2. drv.at = "find" => comp.rt = "main"
  BY BaseIs
<1> QED BY <1>1, <1>2, ThrowInv DEF Base

LEMMA CompileErrorKeeps ==
  ASSUME RtInv, CompileError
  PROVE  RtInv'
BY ThrowKeeps DEF CompileError

LEMMA CompileOpKeeps ==
  ASSUME RtInv, CompileOp
  PROVE  RtInv'
<1>1. PICK n \in OpWords, ok \in BOOLEAN :
        LET e == EmitOp(store, comp, n, ok)
        IN IF e.p = 0 THEN Throw(e.s, comp)
           ELSE store' = e.s /\ Emitted(e) /\ UNCHANGED <<mod, drv>>
  BY DEF CompileOp
<1> DEFINE e == EmitOp(store, comp, n, ok)
           f == comp.fn
           r == comp.rt
           p == comp.page
           on == comp.on
           q == comp.outer
<1>2. Compiling /\ ~InTable
  BY DEF CompileOp
<1>3. comp \in OpRec /\ Scoped(q)
  BY <1>2, BaseIs
<1>4. PICK home : Base(home)
  BY <1>2, BaseIs
<1>5. AllSaved(q)
  BY <1>2, <1>3, SavedUnless DEF InTable, Top
<1>6. n \in Nat /\ n <= Threshold
  BY WasmRuntimeAssumption
<1>7. Work(drv.gone, store, home, f, r, p, on, q)
  BY <1>4 DEF Base
<1>12. comp.fn = f /\ comp.rt = r /\ comp.page = p
  OBVIOUS
<1>13. IF e.p = 0 THEN Throw(e.s, comp)
       ELSE store' = e.s /\ Emitted(e) /\ UNCHANGED <<mod, drv>>
  BY <1>1
<1>8. \/ e.p = 0 /\ e.s = store
      \/ e.p \in Pages /\ OnTo(drv.gone, store, home, f, r, on \cup {e.p}, q, (Threshold + 2) - n, e.s, e.p)
  <2> HIDE DEF f, r, p, on, q
  <2> QED BY <1>5, <1>6, <1>7, <1>12, EmitOpWork
<1> HIDE DEF e
<1>9. CASE e.p = 0 /\ e.s = store
  <2>1. Throw(store, comp)
    BY <1>9, <1>13
  <2> QED BY <1>2, <2>1, ThrowKeeps
<1>10. CASE /\ e.p \in Pages
            /\ OnTo(drv.gone, store, home, f, r, on \cup {e.p}, q, (Threshold + 2) - n, e.s, e.p)
  <2>1. e.p # 0
    BY <1>10 DEF Pages
  <2>2. store' = e.s /\ Emitted(e) /\ UNCHANGED <<mod, drv>>
    BY <1>13, <2>1
  <2>3. PICK h : /\ Work(drv.gone, e.s, h, f, r, e.p, on \cup {e.p}, q) /\ Grew(store, home, r, e.s, h)
    BY <1>10 DEF OnTo
  <2>4. /\ comp' \in OpRec /\ comp'.fn = f /\ comp'.rt = r /\ comp'.page = e.p
        /\ comp'.on = on \cup {e.p} /\ comp'.outer = q
    <3>1. comp' = [comp EXCEPT !.page = e.p, !.on = @ \cup {e.p}, !.ops = @ + 1]
      BY <2>2 DEF Emitted
    <3> DEFINE n2 == comp.on \cup {e.p}
               k2 == comp.ops + 1
    <3>2. n2 \in SUBSET Pages /\ k2 \in Int
      BY <1>3, <1>10, OpIs
    <3>3. comp' = [comp EXCEPT !.page = e.p, !.on = n2, !.ops = k2]
      BY <1>3, <3>1 DEF OpRec
    <3>4. n2 = on \cup {e.p}
      OBVIOUS
    <3> HIDE DEF n2, k2
    <3>5. /\ comp' \in OpRec /\ comp'.fn = f /\ comp'.rt = r /\ comp'.page = e.p
          /\ comp'.on = n2 /\ comp'.outer = q
      BY <1>3, <1>10, <3>2, <3>3 DEF OpRec
    <3> QED BY <3>4, <3>5
  <2> QED BY <1>2, <1>4, <2>2, <2>3, <2>4, GoesOn
<1> QED BY <1>8, <1>9, <1>10

(* A page with Threshold lines for a new scope.                            *)
LEMMA ScopeTakes ==
  ASSUME NEW gn, NEW s, NEW home, NEW f, NEW r, NEW p, NEW on, NEW q,
         Work(gn, s, home, f, r, p, on, q),
         NEW ok, NEW a, a = Acquire(s, r, Threshold, ok)
  PROVE  \/ a.p = 0 /\ a.s = s
         \/ a.p \in Pages /\ \E h : Took(s, home, r, Threshold, a.s, a.p, h)
<1>1. Threshold \in Nat /\ Threshold <= PageLines
  BY WasmRuntimeAssumption
<1>2. Placed(s, home) /\ r \in RTs
  BY WorkIs
<1> QED BY <1>1, <1>2, AcquireTakes

LEMMA ElseOpenKeeps ==
  ASSUME RtInv, ElseOpen
  PROVE  RtInv'
<1>1. PICK ok \in BOOLEAN :
       LET a == Acquire(store, comp.rt, Threshold, ok)
       IN IF a.p = 0 THEN Throw(a.s, comp)
          ELSE /\ store' = a.s
               /\ Entered([kind |-> "else", page |-> comp.page, left |-> 0], a.p)
               /\ UNCHANGED <<mod, drv>>
  BY DEF ElseOpen
<1> DEFINE a == Acquire(store, comp.rt, Threshold, ok)
           f == comp.fn
           r == comp.rt
           p == comp.page
           on == comp.on
           q == comp.outer
           c == [kind |-> "else", page |-> p, left |-> 0]
           d == Append(q, c)
<1>2. Compiling /\ ~InTable /\ ~InTarget
  BY DEF ElseOpen
<1>3. comp \in OpRec /\ Scoped(q) /\ p \in Pages
  BY <1>2, BaseIs, OpIs
<1>4. PICK home : Base(home)
  BY <1>2, BaseIs
<1>5. NoTable(q)
  BY <1>2, <1>3, NotTable DEF InTable, InTarget, Top
<1>6. Work(drv.gone, store, home, f, r, p, on, q)
  BY <1>4 DEF Base
<1>7. \/ a.p = 0 /\ a.s = store
      \/ a.p \in Pages /\ \E h : Took(store, home, r, Threshold, a.s, a.p, h)
  BY <1>6, ScopeTakes
<1>13. IF a.p = 0 THEN Throw(a.s, comp)
       ELSE store' = a.s /\ Entered(c, a.p) /\ UNCHANGED <<mod, drv>>
  BY <1>1
<1>14. Scoped(d) /\ NoTable(d) /\ Deeper(q, d, Len(q) + 1, p)
  BY <1>3, <1>5, AppendElse
<1> HIDE DEF a, c
<1>8. CASE a.p = 0 /\ a.s = store
  <2>1. Throw(store, comp)
    BY <1>8, <1>13
  <2> QED BY <1>2, <2>1, ThrowKeeps
<1>9. CASE a.p \in Pages /\ \E h : Took(store, home, r, Threshold, a.s, a.p, h)
  <2>1. a.p # 0
    BY <1>9 DEF Pages
  <2>2. store' = a.s /\ Entered(c, a.p) /\ UNCHANGED <<mod, drv>>
    BY <1>13, <2>1
  <2>3. PICK h : Took(store, home, r, Threshold, a.s, a.p, h)
    BY <1>9
  <2>4. Threshold \in Nat /\ Threshold >= 2
    BY WasmRuntimeAssumption
  <2>5. TableRoom(a.s, a.p, d)
    BY <1>14, NoTableIs
  <2>6. Work(drv.gone, a.s, h, f, r, a.p, on, d) /\ Grew(store, home, r, a.s, h)
    <3> DEFINE as == a.s
               ap == a.p
               i == Len(q) + 1
    <3>1. Took(store, home, r, Threshold, as, ap, h) /\ TableRoom(as, ap, d) /\ Deeper(q, d, i, p)
      BY <1>14, <2>3, <2>5
    <3> HIDE DEF as, ap, i, d, f, r, p, on, q
    <3>2. Work(drv.gone, as, h, f, r, ap, on, d) /\ Grew(store, home, r, as, h)
      BY <1>6, <1>14, <2>4, <3>1, TakeWork
    <3> QED BY <3>2 DEF as, ap
  <2>7. /\ comp' \in OpRec /\ comp'.fn = f /\ comp'.rt = r /\ comp'.page = a.p
        /\ comp'.on = on /\ comp'.outer = d
    <3>1. comp' = [comp EXCEPT !.outer = Append(@, c), !.page = a.p]
      BY <2>2 DEF Entered
    <3>2. comp' = [comp EXCEPT !.outer = d, !.page = a.p]
      BY <1>3, <3>1 DEF OpRec
    <3>3. d \in Seq(ScopeRec)
      BY <1>14 DEF Scoped
    <3> HIDE DEF d
    <3> QED BY <1>3, <1>9, <3>2, <3>3 DEF OpRec
  <2> QED BY <1>2, <1>4, <2>2, <2>6, <2>7, GoesOn
<1> QED BY <1>7, <1>8, <1>9

(* The same compilation elsewhere.                                         *)
OpAs(c, p, on, q, k) == [c EXCEPT !.page = p, !.on = on, !.outer = q, !.ops = k]

LEMMA OpWith ==
  ASSUME NEW c \in OpRec, NEW p \in Pages, NEW on \in SUBSET Pages, NEW q \in Seq(ScopeRec),
         NEW k \in Int, NEW d, d = OpAs(c, p, on, q, k)
  PROVE  /\ d \in OpRec /\ d.fn = c.fn /\ d.rt = c.rt /\ d.page = p /\ d.on = on /\ d.outer = q
BY DEF OpRec, OpAs

LEMMA ReleasePage ==
  ASSUME NEW s, NEW home, Placed(s, home), NEW r \in RTs, NEW p \in Pages
  PROVE  Release(s, r, p).page = s.page
<1>1. s \in StoreRec
  BY PlacedIs
<1> QED BY <1>1, ReleaseIs

LEMMA LeaveBy ==
  ASSUME NEW gn, NEW s, NEW home, NEW f, NEW r, NEW p, NEW on, NEW q,
         Work(gn, s, home, f, r, p, on, q),
         NEW d, NEW i, NEW x, Deeper(d, q, i, x), Scoped(d),
         NEW t, t = Release(s, r, p), TableRoom(t, x, d)
  PROVE  \E h : Work(gn, t, h, f, r, x, on, d) /\ Grew(s, home, r, t, h)
<1>1. Placed(s, home) /\ r \in RTs /\ p \in 1 .. s.made /\ home[p] = AtComp
  BY WorkIs
<1>2. PICK h : Gave(s, home, r, t, p, h)
  BY <1>1, ReleaseGives
<1>3. Work(gn, t, h, f, r, x, on, d) /\ Grew(s, home, r, t, h)
  BY <1>2, LeaveWork
<1> QED BY <1>3

LEMMA ElseCloseKeeps ==
  ASSUME RtInv, ElseClose
  PROVE  RtInv'
<1>1. PICK ok \in BOOLEAN :
       LET e == EmitOp(store, comp, 2, ok)
       IN IF e.p = 0 THEN Throw(e.s, comp)
          ELSE /\ store' = Release(e.s, comp.rt, e.p)
               /\ comp' = [Left(Top.page) EXCEPT !.on = @ \cup {e.p}]
               /\ UNCHANGED <<mod, drv>>
  BY DEF ElseClose
<1> DEFINE two == 2
           e == EmitOp(store, comp, two, ok)
           f == comp.fn
           r == comp.rt
           p == comp.page
           on == comp.on
           q == comp.outer
           x == Last(q).page
           d == Front(q)
           t == Release(e.s, r, e.p)
<1>2. Compiling /\ q # <<>> /\ Last(q).kind = "else"
  BY DEF ElseClose, Top
<1>3. comp \in OpRec /\ Scoped(q) /\ r \in RTs
  BY <1>2, BaseIs
<1>4. PICK home : Base(home)
  BY <1>2, BaseIs
<1>5. AllSaved(q)
  BY <1>2, <1>3, SavedUnless
<1>6. two \in Nat /\ two <= Threshold /\ (Threshold + 2) - two = Threshold
  BY WasmRuntimeAssumption
<1>7. Work(drv.gone, store, home, f, r, p, on, q)
  BY <1>4 DEF Base
<1>12. comp.fn = f /\ comp.rt = r /\ comp.page = p
  OBVIOUS
<1>13. IF e.p = 0 THEN Throw(e.s, comp)
       ELSE /\ store' = t
            /\ comp' = [Left(x) EXCEPT !.on = @ \cup {e.p}]
            /\ UNCHANGED <<mod, drv>>
  BY <1>1 DEF Top
<1>8. \/ e.p = 0 /\ e.s = store
      \/ e.p \in Pages /\ OnTo(drv.gone, store, home, f, r, on \cup {e.p}, q, (Threshold + 2) - two, e.s, e.p)
  <2> HIDE DEF f, r, p, on, q, two
  <2> QED BY <1>5, <1>6, <1>7, <1>12, EmitOpWork
<1>14. Scoped(d) /\ NoTable(d) /\ Deeper(d, q, Len(q), x) /\ d \in Seq(ScopeRec)
  BY <1>2, <1>3, FrontOf, FrontElse
<1> HIDE DEF e, two, d, x, t
<1>9. CASE e.p = 0 /\ e.s = store
  <2>1. Throw(store, comp)
    BY <1>9, <1>13
  <2> QED BY <1>2, <2>1, ThrowKeeps
<1>10. CASE /\ e.p \in Pages
            /\ OnTo(drv.gone, store, home, f, r, on \cup {e.p}, q, (Threshold + 2) - two, e.s, e.p)
  <2>1. e.p # 0
    BY <1>10 DEF Pages
  <2>2. /\ store' = t
        /\ comp' = [Left(x) EXCEPT !.on = @ \cup {e.p}]
        /\ UNCHANGED <<mod, drv>>
    BY <1>13, <2>1
  <2>3. PICK h : /\ Work(drv.gone, e.s, h, f, r, e.p, on \cup {e.p}, q) /\ Grew(store, home, r, e.s, h)
    BY <1>10 DEF OnTo
  <2> DEFINE n2 == on \cup {e.p}
             i == Len(q)
             es == e.s
             ep == e.p
  <2>4. Work(drv.gone, es, h, f, r, ep, n2, q) /\ Deeper(d, q, i, x) /\ t = Release(es, r, ep)
    BY <1>14, <2>3 DEF t
  <2>5. TableRoom(t, x, d)
    BY <1>14, NoTableIs
  <2>6. \E g : Work(drv.gone, t, g, f, r, x, n2, d) /\ Grew(es, h, r, t, g)
    <3> HIDE DEF n2, i, es, ep, f, r, p, on, q
    <3> QED BY <1>14, <2>4, <2>5, LeaveBy
  <2>7. PICK g : Work(drv.gone, t, g, f, r, x, n2, d) /\ Grew(es, h, r, t, g)
    BY <2>6
  <2>8. Placed(store, home) /\ Placed(es, h) /\ Placed(t, g) /\ x \in Pages
    <3> HIDE DEF n2, es, ep
    <3> QED BY <1>7, <2>4, <2>7, WorkIs
  <2>9. store.made \in Nat /\ es.made \in Nat /\ t.made \in Nat
    BY <2>8, PlacedIs
  <2>10. Grew(store, home, r, t, g)
    BY <2>3, <2>7, <2>9, GrewTwice
  <2>11. /\ comp' \in OpRec /\ comp'.fn = f /\ comp'.rt = r /\ comp'.page = x
         /\ comp'.on = n2 /\ comp'.outer = d
    <3>1. comp' = OpAs(comp, x, n2, d, comp.ops)
      BY <1>3, <2>2 DEF Left, d, OpRec, OpAs
    <3>2. n2 \in SUBSET Pages /\ comp.ops \in Int
      BY <1>3, <1>10, OpIs
    <3> HIDE DEF n2
    <3> QED BY <1>3, <1>14, <2>8, <3>1, <3>2, OpWith
  <2> QED BY <1>2, <1>4, <2>2, <2>7, <2>10, <2>11, GoesOn
<1> QED BY <1>8, <1>9, <1>10

LEMMA TableCloseKeeps ==
  ASSUME RtInv, TableClose
  PROVE  RtInv'
<1> DEFINE f == comp.fn
           r == comp.rt
           p == comp.page
           on == comp.on
           q == comp.outer
           d == Front(q)
<1>1. /\ Compiling /\ q # <<>> /\ Last(q).kind = "table" /\ Last(q).page = 0
      /\ comp' = [comp EXCEPT !.outer = Front(@), !.page = comp.page]
      /\ UNCHANGED <<store, mod, drv>>
  BY DEF TableClose, InTable, Top, Left
<1>2. comp \in OpRec /\ Scoped(q) /\ p \in Pages /\ on \in SUBSET Pages /\ comp.ops \in Int
  BY <1>1, BaseIs, OpIs
<1>3. PICK home : Base(home)
  BY <1>1, BaseIs
<1>4. Work(drv.gone, store, home, f, r, p, on, q)
  BY <1>3 DEF Base
<1>5. Scoped(d) /\ NoTable(d) /\ Alike(q, d) /\ d \in Seq(ScopeRec)
  BY <1>1, <1>2, FrontOf, FrontTable
<1>6. TableRoom(store, p, d)
  BY <1>5, NoTableIs
<1>7. Work(drv.gone, store, home, f, r, p, on, d)
  <2> HIDE DEF f, r, p, on, q, d
  <2> QED BY <1>4, <1>5, <1>6, SwapWork
<1>8. /\ comp' \in OpRec /\ comp'.fn = f /\ comp'.rt = r /\ comp'.page = p
      /\ comp'.on = on /\ comp'.outer = d
  <2>1. comp' = OpAs(comp, p, on, d, comp.ops)
    BY <1>1, <1>2 DEF OpRec, OpAs
  <2> HIDE DEF d, p, on
  <2> QED BY <1>2, <1>5, <2>1, OpWith
<1>9. Grew(store, home, r, store, home)
  BY <1>4, WorkIs, GrewNot
<1>10. /\ Work(drv.gone, store', home, f, r, p, on, d) /\ Grew(store, home, r, store', home)
  BY <1>1, <1>7, <1>9
<1> QED BY <1>1, <1>3, <1>8, <1>10, GoesOn

LEMMA TargetOpenKeeps ==
  ASSUME RtInv, TargetOpen
  PROVE  RtInv'
<1>1. PICK ok \in BOOLEAN :
       LET a == Acquire(store, comp.rt, Threshold, ok)
       IN IF a.p = 0 THEN Throw(a.s, comp)
          ELSE /\ store' = a.s
               /\ comp' = [comp EXCEPT !.outer[Len(comp.outer)].page = comp.page, !.page = a.p]
               /\ UNCHANGED <<mod, drv>>
  BY DEF TargetOpen
<1> DEFINE a == Acquire(store, comp.rt, Threshold, ok)
           f == comp.fn
           r == comp.rt
           p == comp.page
           on == comp.on
           q == comp.outer
           n == Len(q)
           c == [q[n] EXCEPT !.page = p]
           d == [q EXCEPT ![n] = c]
<1>2. /\ Compiling /\ q # <<>> /\ Last(q).kind = "table" /\ Last(q).page = 0 /\ Last(q).left > 0
  BY DEF TargetOpen, InTable, Top
<1>3. comp \in OpRec /\ Scoped(q) /\ p \in Pages /\ on \in SUBSET Pages /\ comp.ops \in Int
  BY <1>2, BaseIs, OpIs
<1>4. PICK home : Base(home)
  BY <1>2, BaseIs
<1>6. Work(drv.gone, store, home, f, r, p, on, q)
  BY <1>4 DEF Base
<1>7. \/ a.p = 0 /\ a.s = store
      \/ a.p \in Pages /\ \E h : Took(store, home, r, Threshold, a.s, a.p, h)
  BY <1>6, ScopeTakes
<1>13. IF a.p = 0 THEN Throw(a.s, comp)
       ELSE /\ store' = a.s
            /\ comp' = [comp EXCEPT !.outer[n].page = p, !.page = a.p]
            /\ UNCHANGED <<mod, drv>>
  BY <1>1
<1>14. q[n] \in ScopeRec /\ Last(q) = q[n] /\ n \in 1 .. n /\ DOMAIN q = 1 .. n
  BY <1>2, <1>3, TopIs
<1>15. c \in ScopeRec /\ c.kind = "table" /\ c.page = p /\ c.left = Last(q).left
  <2>1. p \in 0 .. NPages
    BY <1>3 DEF Pages
  <2> QED BY <1>2, <1>14, <2>1 DEF ScopeRec
<1>16. Changed(q, d, c) /\ d \in Seq(ScopeRec)
  <2>1. Changed(q, d, c)
    <3> HIDE DEF c
    <3> QED BY <1>2, <1>3, <1>15, TopChanged
  <2> QED BY <2>1 DEF Changed
<1>17. [comp EXCEPT !.outer[n].page = p, !.page = a.p]
         = OpAs(comp, a.p, on, d, comp.ops)
  BY <1>3, <1>14 DEF OpRec, OpAs
<1> HIDE DEF a, c, d
<1>18. /\ Scoped(d) /\ Deeper(q, d, n, p)
       /\ \A s, t, k : TableRoom(s, p, q) /\ t.page = s.page => TableRoom(t, k, d)
  BY <1>2, <1>3, <1>15, <1>16, TopSaved
<1>8. CASE a.p = 0 /\ a.s = store
  <2>1. Throw(store, comp)
    BY <1>8, <1>13
  <2> QED BY <1>2, <2>1, ThrowKeeps
<1>9. CASE a.p \in Pages /\ \E h : Took(store, home, r, Threshold, a.s, a.p, h)
  <2>1. a.p # 0
    BY <1>9 DEF Pages
  <2>2. /\ store' = a.s
        /\ comp' = OpAs(comp, a.p, on, d, comp.ops)
        /\ UNCHANGED <<mod, drv>>
    BY <1>13, <1>17, <2>1
  <2>3. PICK h : Took(store, home, r, Threshold, a.s, a.p, h)
    BY <1>9
  <2>4. Threshold \in Nat /\ Threshold >= 2
    BY WasmRuntimeAssumption
  <2>5. TableRoom(a.s, a.p, d)
    <3>1. a.s.page = store.page
      BY <2>3 DEF Took
    <3>2. TableRoom(store, p, q)
      BY <1>6, WorkIs
    <3> QED BY <1>18, <3>1, <3>2
  <2>6. Work(drv.gone, a.s, h, f, r, a.p, on, d) /\ Grew(store, home, r, a.s, h)
    <3> DEFINE as == a.s
               ap == a.p
    <3>1. Took(store, home, r, Threshold, as, ap, h) /\ TableRoom(as, ap, d) /\ Deeper(q, d, n, p)
      BY <1>18, <2>3, <2>5
    <3> HIDE DEF as, ap, n, f, r, p, on, q
    <3>2. Work(drv.gone, as, h, f, r, ap, on, d) /\ Grew(store, home, r, as, h)
      BY <1>6, <1>18, <2>4, <3>1, TakeWork
    <3> QED BY <3>2 DEF as, ap
  <2>7. /\ comp' \in OpRec /\ comp'.fn = f /\ comp'.rt = r /\ comp'.page = a.p
        /\ comp'.on = on /\ comp'.outer = d
    BY <1>3, <1>9, <1>16, <2>2, OpWith
  <2> QED BY <1>2, <1>4, <2>2, <2>6, <2>7, GoesOn
<1> QED BY <1>7, <1>8, <1>9

LEMMA WorkLess ==
  ASSUME NEW gn, NEW s, NEW home, NEW f, NEW r, NEW p, NEW q, NEW on, NEW all, on \subseteq all,
         Work(gn, s, home, f, r, p, all, q)
  PROVE  Work(gn, s, home, f, r, p, on, q)
<1>1. CodeOn(s, home, f, r, all)
  BY DEF Work
<1>2. CodeOn(s, home, f, r, on)
  BY <1>1 DEF CodeOn
<1> QED BY <1>2 DEF Work

LEMMA TargetCloseKeeps ==
  ASSUME RtInv, TargetClose
  PROVE  RtInv'
<1> DEFINE f == comp.fn
           r == comp.rt
           p == comp.page
           on == comp.on
           q == comp.outer
           n == Len(q)
           x == Last(q).page
           l == Last(q).left
           c == [q[n] EXCEPT !.page = 0, !.left = @ - 1]
           d == [q EXCEPT ![n] = c]
           t == Release(store, r, p)
           one == 1
           v == EmitWords(t, x, f, one)
<1>1. /\ Compiling /\ q # <<>> /\ Last(q).kind = "table" /\ x # 0
      /\ store' = v
      /\ comp' = [comp EXCEPT !.page = x, !.outer[n].page = 0, !.outer[n].left = @ - 1]
      /\ UNCHANGED <<mod, drv>>
  BY DEF TargetClose, InTarget, Top
<1>2. comp \in OpRec /\ Scoped(q) /\ p \in Pages /\ on \in SUBSET Pages /\ comp.ops \in Int
      /\ r \in RTs /\ f \in Codes
  BY <1>1, BaseIs, OpIs
<1>3. PICK home : Base(home)
  BY <1>1, BaseIs
<1>4. Work(drv.gone, store, home, f, r, p, on, q)
  BY <1>3 DEF Base
<1>5. q[n] \in ScopeRec /\ Last(q) = q[n] /\ n \in 1 .. n /\ DOMAIN q = 1 .. n
  BY <1>1, <1>2, TopIs
<1>6. l \in Int /\ l >= 1
  BY <1>1, <1>2, <1>5 DEF Scoped, ScopeRec
<1>7. c \in ScopeRec /\ c.kind = "table" /\ c.page = 0 /\ c.left = l - 1
  <2>1. 0 \in 0 .. NPages
    BY WasmRuntimeAssumption
  <2> DEFINE y == q[n]
             k == l - 1
  <2>2. y \in ScopeRec /\ y.kind = "table" /\ y.left = l /\ k \in Int
    BY <1>1, <1>5, <1>6
  <2>3. c = [y EXCEPT !.page = 0, !.left = k]
    BY <2>2 DEF ScopeRec
  <2> HIDE DEF c, y, k
  <2>4. c \in ScopeRec /\ c.kind = "table" /\ c.page = 0 /\ c.left = k
    BY <2>1, <2>2, <2>3 DEF ScopeRec
  <2> QED BY <2>4 DEF k
<1>8. Changed(q, d, c) /\ d \in Seq(ScopeRec)
  <2>1. Changed(q, d, c)
    <3> HIDE DEF c
    <3> QED BY <1>1, <1>2, <1>7, TopChanged
  <2> QED BY <2>1 DEF Changed
<1>9. comp' = OpAs(comp, x, on, d, comp.ops)
  BY <1>1, <1>2, <1>5 DEF OpRec, OpAs, ScopeRec
<1> HIDE DEF c, d
<1>10. /\ Scoped(d) /\ Deeper(d, q, n, x)
       /\ \A u, y : NumFreeLines(u, y) >= l + 1 => TableRoom(u, y, d)
  BY <1>1, <1>2, <1>7, <1>8, TopLeft
<1>11. NumFreeLines(store, x) >= l + 2
  <2>1. TableRoom(store, p, q)
    BY <1>4, WorkIs
  <2> QED BY <1>1, <1>5, <2>1 DEF TableRoom
<1>12. /\ Placed(store, home) /\ x \in Pages
  <2>1. Placed(store, home) /\ \A y \in PagesIn(q) : y \in Pages
    BY <1>4, WorkIs
  <2>2. x \in PagesIn(q)
    BY <1>1, <1>5, PagesInAre
  <2> QED BY <2>1, <2>2
<1>13. t.page = store.page
  BY <1>2, <1>12, ReleasePage
<1>14. NumFreeLines(t, x) = NumFreeLines(store, x) /\ NumFreeLines(store, x) \in Int
  BY <1>12, <1>13, FreeIs DEF NumFreeLines
<1> HIDE DEF t, l, one
<1>15. TableRoom(t, x, d)
  <2>1. NumFreeLines(t, x) >= l + 1
    BY <1>6, <1>11, <1>14
  <2> QED BY <1>10, <2>1
<1>16. PICK h : Work(drv.gone, t, h, f, r, x, on, d) /\ Grew(store, home, r, t, h)
  <2>1. t = Release(store, r, p)
    BY DEF t
  <2> HIDE DEF f, r, p, on, q, x, n
  <2> QED BY <1>4, <1>10, <1>15, <2>1, LeaveBy
<1>17. Placed(t, h) /\ x \in 1 .. t.made
  BY <1>16, WorkIs
<1>18. one \in Nat /\ NumFreeLines(t, x) >= one + 2 /\ NumFreeLines(t, x) >= one
  BY <1>6, <1>11, <1>14 DEF one
<1>19. Placed(v, h) /\ NumFreeLines(v, x) = NumFreeLines(t, x) - one
  BY <1>2, <1>17, <1>18, EmitPlaced
<1>20. TableRoom(EmitWords(t, x, f, one), x, d)
  <2>1. NumFreeLines(v, x) >= l + 1
    BY <1>6, <1>11, <1>14, <1>19 DEF one
  <2> QED BY <1>10, <2>1
<1>21. Work(drv.gone, v, h, f, r, x, on \cup {x}, d) /\ Grew(t, h, r, v, h)
  <2> HIDE DEF f, r, p, on, q, x
  <2> QED BY <1>16, <1>18, <1>20, EmitKeepsRoom
<1> HIDE DEF v
<1>22. Work(drv.gone, v, h, f, r, x, on, d)
  <2> DEFINE all == on \cup {x}
  <2>1. on \subseteq all /\ Work(drv.gone, v, h, f, r, x, all, d)
    BY <1>21
  <2> HIDE DEF all, f, r, p, on, q, x
  <2> QED BY <2>1, WorkLess
<1>23. store.made \in Nat /\ t.made \in Nat /\ v.made \in Nat
  BY <1>12, <1>17, <1>19, PlacedIs
<1>24. Grew(store, home, r, v, h)
  BY <1>16, <1>21, <1>23, GrewTwice
<1>25. /\ comp' \in OpRec /\ comp'.fn = f /\ comp'.rt = r /\ comp'.page = x
       /\ comp'.on = on /\ comp'.outer = d
  <2> HIDE DEF x
  <2> QED BY <1>2, <1>8, <1>9, <1>12, OpWith
<1> QED BY <1>1, <1>3, <1>22, <1>24, <1>25, GoesOn

(* The head of a branch table: room for its entries and a bridge is left.  *)
LEMMA TableHead ==
  ASSUME NEW gn, NEW s, NEW home, NEW f, NEW r, NEW p, NEW on, NEW q,
         Work(gn, s, home, f, r, p, on, q),
         AllSaved(q), NEW n \in Nat, NumFreeLines(s, p) >= n + 6, NEW ok,
         NEW o, o.fn = f, o.rt = r, o.page = p, NEW e, e = EmitOp(s, o, 3, ok)
  PROVE  \/ e.p = 0 /\ e.s = s
         \/ e.p \in Pages /\ OnTo(gn, s, home, f, r, on \cup {e.p}, q, n + 3, e.s, e.p)
<1> DEFINE k == 3
           z == NumFreeLines(s, p)
           m == n + 3
<1>1. Threshold \in Nat /\ Threshold >= 3
  BY WasmRuntimeAssumption
<1>2. Placed(s, home) /\ p \in Pages
  BY WorkIs
<1>3. z \in Int
  BY <1>2, FreeIs
<1>4. k \in Nat /\ k <= Threshold /\ m \in Nat
  BY <1>1
<1>5. CASE z >= Threshold + 2
  <2> DEFINE v == EmitWords(s, p, f, k)
  <2>1. e.p = p /\ e.s = v
    BY <1>2, <1>5 DEF EmitOp, OnPage, Ensure, Pages
  <2>2. z >= k + 2 /\ z - k >= m
    BY <1>3
  <2> HIDE DEF k
  <2>3. /\ Work(gn, v, home, f, r, p, on \cup {p}, q) /\ Grew(s, home, r, v, home)
        /\ NumFreeLines(v, p) = z - k
    BY <1>4, <2>2, EmitWork
  <2> HIDE DEF v, m, z
  <2>4. OnTo(gn, s, home, f, r, on \cup {p}, q, m, v, p)
    BY <2>2, <2>3 DEF OnTo
  <2> QED BY <1>2, <2>1, <2>4 DEF m
<1>6. CASE ~(z >= Threshold + 2)
  <2>1. (Threshold + 2) - k >= m /\ (Threshold + 2) - k \in Int
    BY <1>1, <1>3, <1>6
  <2>2. e = EmitOp(s, o, k, ok)
    OBVIOUS
  <2> HIDE DEF k, m
  <2>3. \/ e.p = 0 /\ e.s = s
        \/ e.p \in Pages /\ OnTo(gn, s, home, f, r, on \cup {e.p}, q, (Threshold + 2) - k, e.s, e.p)
    BY <1>4, <2>2, EmitOpWork
  <2>4. ASSUME e.p \in Pages,
               OnTo(gn, s, home, f, r, on \cup {e.p}, q, (Threshold + 2) - k, e.s, e.p)
        PROVE  OnTo(gn, s, home, f, r, on \cup {e.p}, q, m, e.s, e.p)
    <3>1. PICK h : /\ Work(gn, e.s, h, f, r, e.p, on \cup {e.p}, q)
                   /\ NumFreeLines(e.s, e.p) >= (Threshold + 2) - k /\ Grew(s, home, r, e.s, h)
      BY <2>4 DEF OnTo
    <3>2. Placed(e.s, h)
      BY <3>1, WorkIs
    <3>3. NumFreeLines(e.s, e.p) \in Int
      BY <2>4, <3>2, FreeIs
    <3>4. NumFreeLines(e.s, e.p) >= m
      <4> DEFINE y == NumFreeLines(e.s, e.p)
                 b == (Threshold + 2) - k
      <4>1. y \in Int /\ b \in Int /\ m \in Int /\ y >= b /\ b >= m
        BY <1>4, <2>1, <3>1, <3>3
      <4> HIDE DEF y, b
      <4>2. y >= m
        BY <4>1
      <4> QED BY <4>2 DEF y
    <3> QED BY <3>1, <3>4 DEF OnTo
  <2> QED BY <2>3, <2>4 DEF m
<1> QED BY <1>5, <1>6

LEMMA TableOpenKeeps ==
  ASSUME RtInv, TableOpen
  PROVE  RtInv'
<1>1. PICK n \in Targets, ok \in BOOLEAN :
       LET e == Ensure(store, comp, n + 4, ok)
           f == EmitOp(e.s, [comp EXCEPT !.page = e.p], 3, ok)
       IN IF e.p = 0 \/ f.p = 0 THEN Throw(IF e.p = 0 THEN e.s ELSE f.s,
                                           [comp EXCEPT !.page = IF e.p = 0 THEN @ ELSE e.p])
          ELSE /\ store' = f.s
               /\ comp' = [comp EXCEPT !.page = f.p, !.on = @ \cup {f.p}, !.ops = @ + 1,
                             !.outer = Append(@, [kind |-> "table", page |-> 0, left |-> n + 1])]
               /\ UNCHANGED <<mod, drv>>
  BY DEF TableOpen
<1> DEFINE fn == comp.fn
           r == comp.rt
           p == comp.page
           on == comp.on
           q == comp.outer
           m == n + 4
           e == Ensure(store, comp, m, ok)
           o == [comp EXCEPT !.page = e.p]
           f == EmitOp(e.s, o, 3, ok)
           x == [comp EXCEPT !.page = IF e.p = 0 THEN @ ELSE e.p]
           l == n + 1
           c == [kind |-> "table", page |-> 0, left |-> l]
           d == Append(q, c)
           on2 == on \cup {f.p}
           k == comp.ops + 1
<1>2. Compiling /\ ~InTable /\ ~InTarget
  BY DEF TableOpen
<1>3. comp \in OpRec /\ Scoped(q) /\ p \in Pages /\ on \in SUBSET Pages /\ comp.ops \in Int
  BY <1>2, BaseIs, OpIs
<1>4. PICK home : Base(home)
  BY <1>2, BaseIs
<1>5. NoTable(q)
  BY <1>2, <1>3, NotTable DEF InTable, InTarget, Top
<1>6. AllSaved(q)
  BY <1>3, <1>5, NoTableIs
<1>7. Work(drv.gone, store, home, fn, r, p, on, q)
  BY <1>4 DEF Base
<1>8. n \in Nat /\ m \in Nat /\ m + 2 <= PageLines /\ m + 2 = n + 6 /\ l \in Nat /\ k \in Int
      /\ l + 2 = n + 3
  BY <1>3, WasmRuntimeAssumption
<1>9. /\ IF e.p = 0 \/ f.p = 0 THEN Throw(IF e.p = 0 THEN e.s ELSE f.s, x)
         ELSE /\ store' = f.s
              /\ comp' = [comp EXCEPT !.page = f.p, !.on = @ \cup {f.p}, !.ops = @ + 1,
                                      !.outer = Append(@, c)]
              /\ UNCHANGED <<mod, drv>>
  BY <1>1
<1>10. comp.fn = fn /\ comp.rt = r /\ comp.page = p
  OBVIOUS
<1>11. \/ e.p = 0 /\ e.s = store
       \/ e.p \in Pages /\ OnTo(drv.gone, store, home, fn, r, on, q, m + 2, e.s, e.p)
  <2> HIDE DEF fn, r, p, on, q, m
  <2> QED BY <1>6, <1>7, <1>8, <1>10, EnsureWork
<1>12. /\ o.fn = fn /\ o.rt = r /\ o.page = e.p
  <2> HIDE DEF e
  <2> QED BY <1>3 DEF OpRec
<1>13. /\ x.rt = r /\ x.outer = q /\ x.page = IF e.p = 0 THEN p ELSE e.p
  <2> HIDE DEF e
  <2> QED BY <1>3 DEF OpRec
<1>14. /\ Scoped(d) /\ Alike(q, d) /\ d \in Seq(ScopeRec)
       /\ \A s, y : NumFreeLines(s, y) >= l + 2 => TableRoom(s, y, d)
  <2> HIDE DEF l
  <2>1. /\ Scoped(d) /\ Alike(q, d)
        /\ \A s, y : NumFreeLines(s, y) >= l + 2 => TableRoom(s, y, d)
    BY <1>3, <1>5, <1>8, AppendTable
  <2> QED BY <2>1 DEF Scoped
<1>15. f = EmitOp(e.s, o, 3, ok)
  OBVIOUS
<1>16. [comp EXCEPT !.page = f.p, !.on = @ \cup {f.p}, !.ops = @ + 1, !.outer = Append(@, c)]
         = OpAs(comp, f.p, on2, d, k)
  <2> HIDE DEF c, f
  <2> QED BY <1>3 DEF OpRec, OpAs
<1> HIDE DEF e, o, f, x, c, d, m, l, k
<1>17. /\ Coded(store, home, mod.code) /\ r \in RTs
       /\ r = "tmp" => mod.code = Unborn
       /\ drv.at = "find" => r = "main"
  BY <1>2, <1>4, BaseIs DEF Base
<1>18. CASE e.p = 0 /\ e.s = store
  <2>1. Throw(store, x)
    BY <1>9, <1>18
  <2>2. x.page = p
    BY <1>13, <1>18
  <2> HIDE DEF fn, r, p, on, q
  <2> QED BY <1>7, <1>13, <1>17, <2>1, <2>2, ThrowInv
<1>19. CASE e.p \in Pages /\ OnTo(drv.gone, store, home, fn, r, on, q, m + 2, e.s, e.p)
  <2> DEFINE es == e.s
             ep == e.p
             fs == f.s
             fp == f.p
  <2>1. ep # 0
    BY <1>19 DEF Pages
  <2>2. PICK h : /\ Work(drv.gone, es, h, fn, r, ep, on, q) /\ NumFreeLines(es, ep) >= n + 6
                 /\ Grew(store, home, r, es, h)
    BY <1>8, <1>19 DEF OnTo
  <2>3. \/ fp = 0 /\ fs = es
        \/ fp \in Pages /\ OnTo(drv.gone, es, h, fn, r, on \cup {fp}, q, n + 3, fs, fp)
    <3>1. o.page = ep /\ f = EmitOp(es, o, 3, ok)
      BY <1>12, <1>15
    <3> HIDE DEF es, ep, fn, r, p, on, q
    <3>2. \/ f.p = 0 /\ f.s = es
          \/ f.p \in Pages /\ OnTo(drv.gone, es, h, fn, r, on \cup {f.p}, q, n + 3, f.s, f.p)
      BY <1>6, <1>8, <1>12, <2>2, <3>1, TableHead
    <3> QED BY <3>2
  <2>4. CASE fp = 0 /\ fs = es
    <3>1. Throw(es, x)
      BY <1>9, <2>1, <2>4
    <3>2. x.page = ep
      BY <1>13, <2>1
    <3> HIDE DEF fn, r, p, on, q, es, ep
    <3>3. store.made \in Nat /\ es.made \in Nat
      BY <1>7, <2>2, WorkIs
    <3>4. Coded(es, h, mod.code)
      BY <1>17, <2>2, <3>3, CodedGrows
    <3> QED BY <1>13, <1>17, <2>2, <3>1, <3>2, <3>4, ThrowInv
  <2>5. CASE fp \in Pages /\ OnTo(drv.gone, es, h, fn, r, on \cup {fp}, q, n + 3, fs, fp)
    <3>1. fp # 0
      BY <2>5 DEF Pages
    <3>2. store' = fs /\ comp' = OpAs(comp, fp, on2, d, k) /\ UNCHANGED <<mod, drv>>
      BY <1>9, <1>16, <2>1, <3>1
    <3>3. PICK g : /\ Work(drv.gone, fs, g, fn, r, fp, on2, q) /\ NumFreeLines(fs, fp) >= l + 2
                   /\ Grew(es, h, r, fs, g)
      BY <1>8, <2>5 DEF OnTo
    <3>4. TableRoom(fs, fp, d)
      BY <1>14, <3>3
    <3>5. Work(drv.gone, fs, g, fn, r, fp, on2, d)
      <4> HIDE DEF fs, fp, fn, r, p, on2, q
      <4> QED BY <1>14, <3>3, <3>4, SwapWork
    <3>6. Placed(store, home) /\ Placed(es, h) /\ Placed(fs, g)
      <4> HIDE DEF fs, fp, es, ep, fn, r, p, on, on2, q
      <4> QED BY <1>7, <2>2, <3>3, WorkIs
    <3>7. store.made \in Nat /\ es.made \in Nat /\ fs.made \in Nat
      BY <3>6, PlacedIs
    <3>8. Grew(store, home, r, fs, g)
      <4> HIDE DEF fs, es, r
      <4> QED BY <2>2, <3>3, <3>7, GrewTwice
    <3>9. /\ comp' \in OpRec /\ comp'.fn = fn /\ comp'.rt = r /\ comp'.page = fp
          /\ comp'.on = on2 /\ comp'.outer = d
      <4>1. on2 \in SUBSET Pages
        BY <1>3, <2>5
      <4> HIDE DEF fp, on2
      <4> QED BY <1>3, <1>8, <1>14, <2>5, <3>2, <4>1, OpWith
    <3> QED BY <1>2, <1>4, <3>2, <3>5, <3>8, <3>9, GoesOn
  <2> QED BY <2>3, <2>4, <2>5
<1> QED BY <1>11, <1>18, <1>19

(* No scope is open.                                                       *)
LEMMA NoScopes ==
  /\ SavedIn(<<>>) = {} /\ PagesIn(<<>>) = {} /\ Scoped(<<>>) /\ NoTable(<<>>)
  /\ \A p : Apart(p, <<>>) /\ \A s : TableRoom(s, p, <<>>)
  /\ Cardinality(SavedIn(<<>>)) = 0
<1>1. Len(<<>>) = 0 /\ <<>> \in Seq(ScopeRec)
  OBVIOUS
<1>2. SavedIn(<<>>) = {} /\ PagesIn(<<>>) = {}
  BY <1>1 DEF SavedIn, PagesIn
<1>3. Scoped(<<>>) /\ NoTable(<<>>)
  BY <1>1 DEF Scoped, NoTable
<1>4. Cardinality(SavedIn(<<>>)) = 0
  BY <1>2, FS_EmptySet
<1>5. \A p : Apart(p, <<>>) /\ \A s : TableRoom(s, p, <<>>)
  BY <1>1, <1>2 DEF Apart, TableRoom
<1> QED BY <1>2, <1>3, <1>4, <1>5

(* The last page of a compilation is given back.                           *)
LEMMA LastGiven ==
  ASSUME NEW gn, NEW s, NEW home, NEW f, NEW r, NEW p, NEW on,
         Work(gn, s, home, f, r, p, on, <<>>),
         NEW t, t = Release(s, r, p)
  PROVE  \E h : Rest(gn, t, h) /\ Grew(s, home, r, t, h)
<1>1. /\ Placed(s, home) /\ r \in RTs /\ p \in 1 .. s.made /\ home[p] = AtComp
      /\ In(home, AtComp) = {p} \cup PagesIn(<<>>) /\ Alone(gn, s, r)
      /\ gn \in Nat /\ Spare(gn, r) \in Nat
      /\ s.rt[r].active = Spare(gn, r) + (1 + Cardinality(SavedIn(<<>>)))
  BY WorkIs
<1>2. PICK h : Gave(s, home, r, t, p, h)
  BY <1>1, ReleaseGives
<1>3. GivenUp(s, home, r, t, p, h)
  BY <1>1, <1>2, GaveIs
<1>4. In(home, AtComp) = {p} /\ s.rt[r].active = Spare(gn, r) + 1
  BY <1>1, NoScopes
<1>5. /\ Placed(t, h) /\ In(h, AtComp) = {} /\ t.rt[r].active = Spare(gn, r)
      /\ \A z \in RTs : z # r => t.rt[z] = s.rt[z]
      /\ Grew(s, home, r, t, h)
  BY <1>1, <1>3, <1>4 DEF GivenUp
<1>6. Rest(gn, t, h)
  BY <1>1, <1>5 DEF Rest, Alone
<1> QED BY <1>5, <1>6

LEMMA CompileEndKeeps ==
  ASSUME RtInv, CompileEnd
  PROVE  RtInv'
<1>1. \/ Throw(store, comp)
      \/ /\ store' = Release(store, "main", comp.page)
         /\ mod' = [mod EXCEPT !.code[comp.fn] = comp.on]
         /\ comp' = NoComp
         /\ drv' = drv \/ drv' = [drv EXCEPT !.names = @ - 1]
  BY DEF CompileEnd
<1>2. Compiling /\ comp.outer = <<>> /\ comp.rt = "main"
  BY DEF CompileEnd
<1>3. CASE Throw(store, comp)
  BY <1>2, <1>3, ThrowKeeps
<1>4. CASE ~Throw(store, comp)
  <2> DEFINE f == comp.fn
             r == comp.rt
             p == comp.page
             on == comp.on
             code == [mod.code EXCEPT ![f] = on]
  <2>1. /\ store' = Release(store, r, p) /\ mod' = [mod EXCEPT !.code[f] = on]
        /\ comp' = NoComp
    BY <1>1, <1>2, <1>4
  <2>2. comp \in OpRec /\ on \in SUBSET Pages /\ Where(comp, drv)
    BY <1>2, BaseIs, OpIs
  <2>3. drv.at \notin {"idle", "load"} /\ f \in Funcs
    BY <1>2, <2>2 DEF Where
  <2>4. PICK home : Base(home)
    BY <1>2, BaseIs
  <2>5. Work(drv.gone, store, home, f, r, p, on, <<>>) /\ Coded(store, home, mod.code)
    BY <1>2, <2>4 DEF Base
  <2>6. PICK h : Rest(drv.gone, store', h) /\ Grew(store, home, r, store', h)
    <3> HIDE DEF f, r, p, on
    <3> QED BY <2>1, <2>5, LastGiven
  <2>7. mod \in ModRec /\ drv \in DrvRec /\ StartRule(mod, drv.run)
    BY DEF RtInv, Steering
  <2>8. drv' \in DrvRec /\ drv'.run = drv.run /\ drv'.at = drv.at /\ drv'.gone = drv.gone
    <3>1. drv' = drv \/ drv' = [drv EXCEPT !.names = @ - 1]
      BY <1>1, <1>4
    <3> QED BY <2>7, <3>1 DEF DrvRec
  <2>9. /\ mod.code \in [Funcs -> SUBSET Pages]
        /\ mod' = [mod EXCEPT !.code = code]
    BY <2>1, <2>7 DEF ModRec
  <2>10. /\ code \in [Funcs -> SUBSET Pages] /\ code[f] = on
        /\ \A z \in Funcs : z # f => code[z] = mod.code[z]
    BY <2>2, <2>3, <2>9
  <2> HIDE DEF code
  <2>11. /\ mod' \in ModRec /\ mod'.code = code /\ mod'.start = mod.start
         /\ mod'.has = mod.has /\ mod'.inits = mod.inits
    BY <2>7, <2>9, <2>10 DEF ModRec
  <2>12. Steering(mod', drv')
    BY <2>3, <2>7, <2>11, <2>8 DEF Steering, StartRule
  <2>13. store.made \in Nat /\ store'.made \in Nat
    <3>1. Placed(store, home) /\ Placed(store', h)
      BY <2>5, <2>6, WorkIs DEF Rest
    <3> QED BY <3>1, PlacedIs
  <2>14. ASSUME NEW z \in Funcs PROVE CodeOn(store', h, z, r, code[z])
    <3>1. CodeOn(store, home, z, r, code[z])
      <4>1. CASE z = f
        <5>1. CodeOn(store, home, f, r, on)
          BY <2>5, WorkIs
        <5> QED BY <2>10, <4>1, <5>1
      <4>2. CASE z # f
        BY <1>2, <2>5, <2>10, <4>2 DEF Coded
      <4> QED BY <4>1, <4>2
    <3> QED BY <2>6, <2>13, <3>1, CodeOnGrows
  <2>15. Coded(store', h, mod'.code)
    BY <1>2, <2>11, <2>14 DEF Coded
  <2>16. StoreInv(drv.gone, store', comp', mod')
    BY <2>1, <2>6, <2>15 DEF StoreInv
  <2> QED BY <2>1, <2>12, <2>16, <2>8 DEF RtInv
<1> QED BY <1>3, <1>4

LEMMA ExprEndKeeps ==
  ASSUME RtInv, ExprEnd
  PROVE  RtInv'
<1> DEFINE f == comp.fn
           r == comp.rt
           p == comp.page
           on == comp.on
           t == Release(store, r, p)
           u == RuntimeRelease(t, r)
<1>1. /\ Compiling /\ comp.outer = <<>> /\ r = "tmp"
      /\ store' = u
      /\ drv' = [drv EXCEPT !.exprs = @ - 1]
      /\ comp' = NoComp /\ mod' = mod
  BY DEF ExprEnd
<1>2. comp \in OpRec /\ mod.code = Unborn /\ r \in RTs
  BY <1>1, BaseIs
<1>3. PICK home : Base(home)
  BY <1>1, BaseIs
<1>4. Work(drv.gone, store, home, f, r, p, on, <<>>)
  BY <1>1, <1>3 DEF Base
<1>5. PICK h : Rest(drv.gone, t, h)
  <2> HIDE DEF f, r, p, on
  <2> QED BY <1>4, LastGiven
<1> HIDE DEF t
<1>6. /\ Placed(t, h) /\ In(h, AtComp) = {} /\ drv.gone \in Nat
      /\ \A z \in RTs : t.rt[z].active = Spare(drv.gone, z)
  BY <1>5 DEF Rest
<1>7. PICK g : Reset(t, h, r, u, g)
  BY <1>2, <1>6, RuntimeReleaseResets
<1> HIDE DEF u
<1>8. /\ Placed(u, g) /\ u.made = t.made /\ u.rt[r] = Fresh
      /\ \A z \in RTs : z # r => u.rt[z] = t.rt[z]
      /\ \A z \in 1 .. t.made : IF h[z] \in {AtOpen(r), AtFull(r)} THEN g[z] = AtEnv
                                ELSE g[z] = h[z]
  BY <1>7 DEF Reset
<1>9. DOMAIN g = 1 .. t.made /\ DOMAIN h = 1 .. t.made
  BY <1>6, <1>8, PlacedIs
<1>10. In(g, AtComp) = {}
  BY <1>6, <1>8, <1>9, SpotsDiffer DEF In
<1>11. \A z \in RTs : u.rt[z].active = Spare(drv.gone, z)
  <2>1. Fresh.active = 0 /\ Spare(drv.gone, r) = 0
    BY <1>1 DEF Fresh, Spare
  <2> QED BY <1>6, <1>8, <2>1
<1>12. Rest(drv.gone, u, g)
  BY <1>6, <1>8, <1>10, <1>11 DEF Rest
<1>13. StoreInv(drv.gone, store', comp', mod')
  BY <1>1, <1>2, <1>12, UnbornCoded DEF StoreInv
<1>14. /\ mod \in ModRec /\ drv \in DrvRec /\ StartRule(mod, drv.run)
  BY DEF RtInv, Steering
<1>15. drv' \in DrvRec /\ drv'.at = drv.at /\ drv'.run = drv.run /\ drv'.gone = drv.gone
  BY <1>1, <1>14 DEF DrvRec
<1>16. Steering(mod', drv')
  BY <1>1, <1>2, <1>14, <1>15, BaseIs DEF Steering, Where
<1> QED BY <1>1, <1>13, <1>15, <1>16 DEF RtInv

(* Nothing is being compiled.                                              *)
LEMMA RestIs ==
  ASSUME RtInv, ~Compiling
  PROVE  /\ comp = NoComp /\ Steering(mod, drv) /\ Halted(store)
         /\ \E home : Rest(drv.gone, store, home) /\ Coded(store, home, mod.code)
<1>1. comp = NoComp
  BY CompilingIs
<1>2. PICK home : Rest(drv.gone, store, home) /\ Coded(store, home, mod.code)
  BY <1>1 DEF RtInv, StoreInv
<1>3. Halted(store)
  BY <1>2 DEF Halted, Rest, RTs, Spare
<1> QED BY <1>1, <1>2, <1>3 DEF RtInv

LEMMA FailedKeeps ==
  ASSUME RtInv, ~Compiling, Failed(store, 0) \/ FreeRuntime(store)
  PROVE  RtInv'
<1>1. Halted(store)
  BY RestIs
<1>2. CASE FreeRuntime(store)
  BY <1>1, <1>2, FreeRuntimeInv
<1>3. CASE drv.at = "find" /\ NextName(store, 0)
  <2>1. PICK home : Rest(drv.gone, store, home) /\ Coded(store, home, mod.code)
    BY RestIs
  <2>2. drv.gone + 0 = drv.gone
    BY <2>1 DEF Rest
  <2>3. Rest(drv.gone + 0, store, home)
    BY <2>1, <2>2
  <2> QED BY <1>3, <2>1, <2>3, NextNameInv
<1> QED BY <1>2, <1>3 DEF Failed

(* A step of the driver that leaves the pages alone.                       *)
LEMMA DriverKeeps ==
  ASSUME RtInv, ~Compiling, UNCHANGED <<store, comp>>, Steering(mod', drv'),
         mod'.code = mod.code, drv'.gone = drv.gone
  PROVE  RtInv'
<1>1. comp = NoComp
  BY RestIs
<1>2. PICK home : Rest(drv.gone, store, home) /\ Coded(store, home, mod.code)
  BY RestIs
<1>3. StoreInv(drv.gone, store', comp', mod')
  BY <1>1, <1>2 DEF StoreInv
<1> QED BY <1>1, <1>3 DEF RtInv

LEMMA BeginWork ==
  ASSUME NEW gn, NEW s, NEW home, Rest(gn, s, home), NEW f \in Codes, NEW r \in RTs,
         NEW ok, NEW a, a = Acquire(s, r, Threshold, ok)
  PROVE  \/ a.p = 0
         \/ /\ a.p \in Pages
            /\ \E h : Work(gn, a.s, h, f, r, a.p, {}, <<>>) /\ Grew(s, home, r, a.s, h)
<1> DEFINE t == a.s
           k == a.p
           aa == s.rt[r].active
<1>1. Threshold \in Nat /\ Threshold <= PageLines /\ Threshold >= 2
  BY WasmRuntimeAssumption
<1>2. /\ Placed(s, home) /\ In(home, AtComp) = {} /\ gn \in Nat
      /\ \A z \in RTs : s.rt[z].active = Spare(gn, z)
  BY DEF Rest
<1>3. aa = Spare(gn, r) /\ Spare(gn, r) \in Nat
  BY <1>2 DEF Spare
<1>4. \/ k = 0 /\ t = s
      \/ k \in Pages /\ \E h : Took(s, home, r, Threshold, t, k, h)
  BY <1>1, <1>2, AcquireTakes
<1> SUFFICES ASSUME k # 0
             PROVE  k \in Pages /\ \E h : Work(gn, t, h, f, r, k, {}, <<>>) /\ Grew(s, home, r, t, h)
  OBVIOUS
<1>5. PICK h : Took(s, home, r, Threshold, t, k, h)
  BY <1>4
<1> HIDE DEF t, k
<1>6. /\ Placed(t, h) /\ t.page = s.page /\ k \in Pages /\ k \notin In(home, AtComp)
      /\ In(h, AtComp) = In(home, AtComp) \cup {k} /\ NumFreeLines(t, k) >= Threshold
      /\ t.rt[r].active = aa + 1
      /\ \A z \in RTs : z # r => t.rt[z] = s.rt[z]
      /\ Grew(s, home, r, t, h)
  BY <1>2, <1>5, TookIs
<1>7. In(h, AtComp) = {k} \cup PagesIn(<<>>)
  BY <1>2, <1>6, NoScopes
<1>8. Roomy(t, h)
  <2>1. NumFreeLines(t, k) \in Int
    BY <1>6, FreeIs
  <2>2. NumFreeLines(t, k) >= 2
    BY <1>1, <1>6, <2>1
  <2> QED BY <1>2, <1>6, <2>2 DEF Roomy
<1>9. t.rt[r].active = Spare(gn, r) + (1 + Cardinality(SavedIn(<<>>)))
  BY <1>6, <1>3, NoScopes
<1>10. Alone(gn, t, r)
  BY <1>2, <1>6 DEF Alone
<1>11. CodeOn(t, h, f, r, {})
  BY DEF CodeOn
<1>12. Work(gn, t, h, f, r, k, {}, <<>>)
  BY <1>2, <1>6, <1>7, <1>8, <1>9, <1>10, <1>11, NoScopes DEF Work
<1> QED BY <1>6, <1>12

LEMMA CompileBeginKeeps ==
  ASSUME RtInv, ~Compiling, NEW f \in Codes, NEW r \in RTs, CompileBegin(f, r),
         IF r = "tmp" THEN drv.at = "load" ELSE drv.at \notin {"idle", "load"} /\ f \in Funcs
  PROVE  RtInv'
<1>1. PICK ok \in BOOLEAN :
        LET a == Acquire(store, r, Threshold, ok)
        IN IF a.p = 0 THEN Failed(store, 0)
           ELSE /\ store' = a.s
                /\ comp' = [fn |-> f, rt |-> r, page |-> a.p, on |-> {}, outer |-> <<>>, ops |-> 0]
                /\ UNCHANGED <<mod, drv>>
  BY DEF CompileBegin
<1> DEFINE a == Acquire(store, r, Threshold, ok)
<1>2. PICK home : Rest(drv.gone, store, home) /\ Coded(store, home, mod.code)
  BY RestIs
<1>3. \/ a.p = 0
      \/ /\ a.p \in Pages
         /\ \E h : Work(drv.gone, a.s, h, f, r, a.p, {}, <<>>) /\ Grew(store, home, r, a.s, h)
  BY <1>2, BeginWork
<1> HIDE DEF a
<1>4. CASE a.p = 0
  <2>1. Failed(store, 0)
    BY <1>1, <1>4 DEF a
  <2> QED BY <2>1, FailedKeeps
<1>5. CASE /\ a.p \in Pages
           /\ \E h : Work(drv.gone, a.s, h, f, r, a.p, {}, <<>>) /\ Grew(store, home, r, a.s, h)
  <2>1. a.p # 0
    BY <1>5 DEF Pages
  <2>2. /\ store' = a.s
        /\ comp' = [fn |-> f, rt |-> r, page |-> a.p, on |-> {}, outer |-> <<>>, ops |-> 0]
        /\ UNCHANGED <<mod, drv>>
    BY <1>1, <2>1 DEF a
  <2>3. PICK h : Work(drv.gone, a.s, h, f, r, a.p, {}, <<>>) /\ Grew(store, home, r, a.s, h)
    BY <1>5
  <2>4. /\ comp' \in OpRec /\ comp'.fn = f /\ comp'.rt = r /\ comp'.page = a.p
        /\ comp'.on = {} /\ comp'.outer = <<>>
    BY <1>5, <2>2 DEF OpRec
  <2>5. Where(comp', drv')
    BY <2>2, <2>4 DEF Where
  <2>6. comp' # NoComp
    BY <2>4, OpIs
  <2>7. r = "tmp" => mod.code = Unborn
    BY DEF RtInv, Steering
  <2>8. store.made \in Nat /\ store'.made \in Nat
    <3>1. Placed(store, home) /\ Placed(store', h)
      BY <1>2, <2>2, <2>3, WorkIs DEF Rest
    <3> QED BY <3>1, PlacedIs
  <2>9. Grew(store, home, r, store', h)
    BY <2>2, <2>3
  <2>11. Coded(store', h, mod.code)
    BY <1>2, <2>7, <2>8, <2>9, CodedGrows
  <2>12. Work(drv.gone, store', h, comp'.fn, comp'.rt, comp'.page, comp'.on, comp'.outer)
    BY <2>2, <2>3, <2>4
  <2>13. mod'.code = mod.code
    BY <2>2
  <2>14. StoreInv(drv.gone, store', comp', mod')
    BY <2>6, <2>11, <2>12, <2>13 DEF StoreInv
  <2>15. Steering(mod', drv')
    BY <2>2 DEF RtInv
  <2>16. StoreInv(drv'.gone, store', comp', mod')
    BY <2>2, <2>14
  <2> QED BY <2>5, <2>15, <2>16 DEF RtInv
<1> QED BY <1>3, <1>4, <1>5

LEMMA BeginKeeps ==
  ASSUME RtInv, Begin
  PROVE  RtInv'
<1>1. PICK start \in {"none", "due"}, n \in 0 .. MaxExprs, k \in 1 .. 2 :
       /\ drv' = [Idle EXCEPT !.at = "load", !.exprs = n, !.names = k]
       /\ mod' = [NoModule EXCEPT !.start = start, !.has = start = "due"]
  BY DEF Begin
<1>2. ~Compiling /\ drv.at = "idle" /\ UNCHANGED <<store, comp>>
  BY DEF Begin, At
<1>3. NoModule \in ModRec /\ NoModule.code = Unborn /\ NoModule.inits = 0
  BY DEF NoModule, ModRec, Unborn
<1>4. /\ mod' \in ModRec /\ mod'.code = Unborn /\ mod'.inits = 0 /\ mod'.start = start
      /\ mod'.has = (start = "due")
  <2> DEFINE b == (start = "due")
  <2>1. b \in BOOLEAN /\ mod' = [NoModule EXCEPT !.start = start, !.has = b]
    BY <1>1
  <2> HIDE DEF b
  <2>2. /\ mod' \in ModRec /\ mod'.code = Unborn /\ mod'.inits = 0 /\ mod'.start = start
        /\ mod'.has = b
    BY <1>3, <2>1 DEF ModRec
  <2> QED BY <2>2 DEF b
<1>5. drv' \in DrvRec /\ drv'.run = "none" /\ drv'.at = "load" /\ drv'.gone = 0
  <2>1. drv' = [at |-> "load", run |-> "none", exprs |-> n, names |-> k, gone |-> 0]
    BY <1>1 DEF Idle
  <2>2. n \in Int /\ k \in Int
    OBVIOUS
  <2> QED BY <2>1, <2>2 DEF DrvRec
<1>6. StartRule(mod', drv'.run)
  BY <1>4, <1>5 DEF StartRule
<1>7. Steering(mod', drv')
  BY <1>4, <1>5, <1>6 DEF Steering
<1>8. mod.code = Unborn /\ drv.gone = 0
  BY <1>2 DEF RtInv, Steering
<1> QED BY <1>2, <1>4, <1>5, <1>7, <1>8, DriverKeeps

LEMMA DrvIs ==
  ASSUME RtInv
  PROVE  /\ mod \in ModRec /\ drv \in DrvRec /\ StartRule(mod, drv.run)
         /\ drv.at \in {"idle", "load"} => mod.code = Unborn
BY DEF RtInv, Steering

LEMMA LoadedKeeps ==
  ASSUME RtInv, Loaded
  PROVE  RtInv'
<1>1. /\ ~Compiling /\ drv' = [drv EXCEPT !.at = "link"] /\ UNCHANGED <<store, comp, mod>>
  BY DEF Loaded, At
<1>2. drv' \in DrvRec /\ drv'.run = drv.run /\ drv'.at = "link" /\ drv'.gone = drv.gone
  BY <1>1, DrvIs DEF DrvRec
<1>3. Steering(mod', drv')
  BY <1>1, <1>2, DrvIs DEF Steering
<1> QED BY <1>1, <1>2, <1>3, DriverKeeps

LEMMA LinkKeeps ==
  ASSUME RtInv, Link
  PROVE  RtInv'
<1>1. /\ ~Compiling /\ drv.at = "link" /\ drv' = [drv EXCEPT !.at = "find"] /\ comp' = comp
  BY DEF Link, At
<1>2. drv' \in DrvRec /\ drv'.run = drv.run /\ drv'.at = "find" /\ drv'.gone = drv.gone
  BY <1>1, DrvIs DEF DrvRec
<1>3. CASE UNCHANGED <<store, mod>>
  <2>1. Steering(mod', drv')
    BY <1>2, <1>3, DrvIs DEF Steering
  <2> QED BY <1>1, <1>2, <1>3, <2>1, DriverKeeps
<1>4. ASSUME NEW ok \in BOOLEAN,
             LET a == Acquire(store, "main", 4, ok)
             IN IF a.p = 0 THEN UNCHANGED <<store, mod>>
                ELSE /\ store' = Release(EmitWords(a.s, a.p, "host", 4), "main", a.p)
                     /\ mod' = [mod EXCEPT !.code["host"] = {a.p}]
      PROVE  RtInv'
  <2> DEFINE r == "main"
             f == "host"
             four == 4
             a == Acquire(store, r, four, ok)
             t == a.s
             k == a.p
             u == EmitWords(t, k, f, four)
             v == Release(u, r, k)
             P == {k}
             code == [mod.code EXCEPT ![f] = P]
  <2>1. r \in RTs /\ f \in Codes /\ f \in Funcs /\ four \in Nat /\ four <= PageLines /\ four >= 2
    BY WasmRuntimeAssumption DEF RTs, Codes, Funcs
  <2>2. IF k = 0 THEN UNCHANGED <<store, mod>> ELSE store' = v /\ mod' = [mod EXCEPT !.code[f] = P]
    BY <1>4
  <2>3. comp = NoComp
    BY <1>1, RestIs
  <2>4. PICK home : Rest(drv.gone, store, home) /\ Coded(store, home, mod.code)
    BY <1>1, RestIs
  <2>5. /\ Placed(store, home) /\ In(home, AtComp) = {} /\ drv.gone \in Nat
        /\ \A z \in RTs : store.rt[z].active = Spare(drv.gone, z)
    BY <2>4 DEF Rest
  <2>6. \/ k = 0 /\ t = store
        \/ k \in Pages /\ \E h : Took(store, home, r, four, t, k, h)
    <3> HIDE DEF r, four
    <3> QED BY <2>1, <2>5, AcquireTakes
  <2> HIDE DEF r, f, four, t, k, u
  <2>7. CASE k = 0
    BY <1>3, <2>2, <2>7
  <2>8. CASE k # 0 /\ k \in Pages /\ \E h : Took(store, home, r, four, t, k, h)
    <3>1. PICK g : Took(store, home, r, four, t, k, g)
      BY <2>8
    <3>2. /\ Placed(t, g) /\ t.page = store.page /\ k \in Pages /\ k \notin In(home, AtComp)
          /\ In(g, AtComp) = In(home, AtComp) \cup {k} /\ NumFreeLines(t, k) >= four
          /\ t.rt[r].active = store.rt[r].active + 1
          /\ \A z \in RTs : z # r => t.rt[z] = store.rt[z]
          /\ Grew(store, home, r, t, g)
      BY <2>1, <2>5, <3>1, TookIs
    <3>3. In(g, AtComp) = {k}
      BY <2>5, <3>2
    <3>4. k \in 1 .. t.made /\ g[k] = AtComp
      BY <3>2, <3>3, HeldIs
    <3>5. /\ Placed(u, g) /\ f \in u.page[k].code /\ u.rt = t.rt /\ u.made = t.made
      BY <2>1, <3>2, <3>4, EmitPlaced DEF u
    <3>6. Grew(t, g, r, u, g)
      BY <2>1, <3>2, <3>4, EmitGrows DEF u
    <3>7. PICK h : Gave(u, g, r, v, k, h)
      BY <2>1, <3>4, <3>5, ReleaseGives
    <3>8. GivenUp(u, g, r, v, k, h)
      <4> HIDE DEF v
      <4> QED BY <2>1, <3>4, <3>5, <3>7, GaveIs
    <3>9. /\ Placed(v, h) /\ v.page = u.page /\ In(h, AtComp) = {}
          /\ v.rt[r].active = u.rt[r].active - 1
          /\ \A z \in RTs : z # r => v.rt[z] = u.rt[z]
          /\ Grew(u, g, r, v, h)
      BY <3>3, <3>8 DEF GivenUp
    <3> HIDE DEF v
    <3>10. /\ store.made \in Nat /\ t.made \in Nat /\ u.made \in Nat /\ v.made \in Nat
      BY <2>5, <3>2, <3>5, <3>9, PlacedIs
    <3>11. Grew(store, home, r, v, h)
      <4>1. Grew(store, home, r, u, g)
        BY <3>2, <3>6, <3>10, GrewTwice
      <4> QED BY <3>9, <3>10, <4>1, GrewTwice
    <3>12. Rest(drv.gone, v, h)
      <4>1. Spare(drv.gone, r) \in Nat
        BY <2>5 DEF Spare
      <4>2. v.rt[r].active = Spare(drv.gone, r)
        BY <2>1, <2>5, <3>2, <3>5, <3>9, <4>1
      <4>3. \A z \in RTs : v.rt[z].active = Spare(drv.gone, z)
        BY <2>5, <3>2, <3>5, <3>9, <4>2
      <4> QED BY <2>5, <3>9, <4>3 DEF Rest
    <3>13. store' = v /\ mod' = [mod EXCEPT !.code[f] = P]
      BY <2>2, <2>8
    <3>14. mod.code \in [Funcs -> SUBSET Pages] /\ P \in SUBSET Pages
      BY <2>8, DrvIs DEF ModRec
    <3>15. mod' = [mod EXCEPT !.code = code]
      BY <3>13, DrvIs DEF ModRec
    <3>16. /\ code \in [Funcs -> SUBSET Pages] /\ code[f] = P
           /\ \A z \in Funcs : z # f => code[z] = mod.code[z]
      <4> HIDE DEF P
      <4> QED BY <2>1, <3>14
    <3> HIDE DEF code
    <3>17. /\ mod' \in ModRec /\ mod'.code = code /\ mod'.start = mod.start
           /\ mod'.has = mod.has /\ mod'.inits = mod.inits
      BY <3>15, <3>16, DrvIs DEF ModRec
    <3>18. Steering(mod', drv')
      BY <1>2, <3>17, DrvIs DEF Steering, StartRule
    <3>19. ASSUME NEW z \in Funcs PROVE CodeOn(v, h, z, r, code[z])
      <4>1. CASE z = f
        <5>1. CodeOn(u, g, f, r, P)
          BY <3>4, <3>5 DEF CodeOn, Of
        <5>2. CodeOn(v, h, f, r, P)
          <6> HIDE DEF P
          <6> QED BY <3>9, <3>10, <5>1, CodeOnGrows
        <5> QED BY <3>16, <4>1, <5>2
      <4>2. CASE z # f
        <5>1. CodeOn(store, home, z, r, code[z])
          BY <2>4, <3>16, <4>2 DEF Coded, r
        <5> QED BY <3>10, <3>11, <5>1, CodeOnGrows
      <4> QED BY <4>1, <4>2
    <3>20. Coded(store', h, mod'.code)
      BY <3>13, <3>17, <3>19 DEF Coded, r
    <3>21. StoreInv(drv.gone, store', comp', mod')
      BY <1>1, <2>3, <3>12, <3>13, <3>20 DEF StoreInv
    <3> QED BY <1>1, <1>2, <2>3, <3>18, <3>21 DEF RtInv
  <2> QED BY <2>6, <2>7, <2>8
<1> QED BY <1>3, <1>4 DEF Link

LEMMA MainFunc ==
  /\ "main" \in RTs /\ "tmp" \in RTs /\ "main" # "tmp" /\ "expr" \in Codes
  /\ \A f \in Funcs : f \in Codes
  /\ "init" \in Funcs /\ "step" \in Funcs /\ "aux" \in Funcs
BY DEF RTs, Codes, Funcs

LEMMA LoadExprKeeps ==
  ASSUME RtInv, LoadExpr
  PROVE  RtInv'
<1>1. ~Compiling /\ drv.at = "load" /\ CompileBegin("expr", "tmp")
  BY DEF LoadExpr, At
<1> QED BY <1>1, MainFunc, CompileBeginKeeps

LEMMA FindKeeps ==
  ASSUME RtInv, Find
  PROVE  RtInv'
<1>1. ~Compiling /\ drv.at = "find"
  BY DEF Find, At
<1>2. CASE Failed(store, 0)
  BY <1>1, <1>2, FailedKeeps
<1>3. CASE CompileBegin("step", "main")
  BY <1>1, <1>3, MainFunc, CompileBeginKeeps
<1>4. CASE drv' = [drv EXCEPT !.at = "call"] /\ UNCHANGED <<store, comp, mod>>
  <2>1. drv' \in DrvRec /\ drv'.run = drv.run /\ drv'.at = "call" /\ drv'.gone = drv.gone
    BY <1>4, DrvIs DEF DrvRec
  <2>2. Steering(mod', drv')
    BY <1>4, <2>1, DrvIs DEF Steering
  <2> QED BY <1>1, <1>4, <2>1, <2>2, DriverKeeps
<1> QED BY <1>2, <1>3, <1>4 DEF Find

LEMMA CallKeeps ==
  ASSUME RtInv, Call
  PROVE  RtInv'
<1>1. ~Compiling /\ drv.at = "call" /\ drv.run = "none"
  BY DEF Call, At
<1>2. CASE mod.start = "due" /\ CompileBegin("init", "main")
  BY <1>1, <1>2, MainFunc, CompileBeginKeeps
<1>3. CASE /\ mod.start = "due"
           /\ drv' = [drv EXCEPT !.run = "init"]
           /\ mod' = [mod EXCEPT !.start = "none"]
           /\ UNCHANGED <<store, comp>>
  <2>1. drv' \in DrvRec /\ drv'.run = "init" /\ drv'.at = "call" /\ drv'.gone = drv.gone
    BY <1>1, <1>3, DrvIs DEF DrvRec
  <2>2. /\ mod' \in ModRec /\ mod'.start = "none" /\ mod'.has = mod.has
        /\ mod'.inits = mod.inits /\ mod'.code = mod.code
    BY <1>3, DrvIs DEF ModRec
  <2>3. mod.has /\ mod.inits = 0
    BY <1>3, DrvIs DEF StartRule
  <2>4. Steering(mod', drv')
    BY <2>1, <2>2, <2>3 DEF Steering, StartRule
  <2> QED BY <1>1, <1>3, <2>1, <2>2, <2>4, DriverKeeps
<1>4. CASE /\ mod.start # "due"
           /\ drv' = [drv EXCEPT !.run = "step"]
           /\ UNCHANGED <<store, comp, mod>>
  <2>1. drv' \in DrvRec /\ drv'.run = "step" /\ drv'.at = "call" /\ drv'.gone = drv.gone
    BY <1>1, <1>4, DrvIs DEF DrvRec
  <2>2. mod.start = "none"
    BY <1>4, DrvIs DEF ModRec
  <2>3. mod.inits = IF mod.has THEN 1 ELSE 0
    BY <1>1, <2>2, DrvIs DEF StartRule
  <2>4. Steering(mod', drv')
    BY <1>4, <2>1, <2>2, <2>3, DrvIs DEF Steering, StartRule
  <2> QED BY <1>1, <1>4, <2>1, <2>4, DriverKeeps
<1> QED BY <1>2, <1>3, <1>4 DEF Call

LEMMA CalleeKeeps ==
  ASSUME RtInv, Callee
  PROVE  RtInv'
<1>1. ~Compiling /\ drv.at = "call" /\ CompileBegin("aux", "main")
  BY DEF Callee, At
<1> QED BY <1>1, MainFunc, CompileBeginKeeps

LEMMA RunEndKeeps ==
  ASSUME RtInv, RunEnd
  PROVE  RtInv'
<1>1. ~Compiling /\ drv.at = "call" /\ drv.run # "none"
  BY DEF RunEnd, At
<1>2. CASE drv.run # "init" /\ FreeRuntime(store)
  BY <1>1, <1>2, FailedKeeps
<1>3. CASE /\ drv.run = "init"
           /\ drv' = [drv EXCEPT !.run = "none"]
           /\ mod' = [mod EXCEPT !.inits = @ + 1]
           /\ UNCHANGED <<store, comp>>
  <2>1. drv' \in DrvRec /\ drv'.run = "none" /\ drv'.at = "call" /\ drv'.gone = drv.gone
    BY <1>1, <1>3, DrvIs DEF DrvRec
  <2>2. mod.has /\ mod.inits = 0 /\ mod.start = "none"
    BY <1>3, DrvIs DEF StartRule
  <2>3. mod' = [mod EXCEPT !.inits = 1]
    BY <1>3, <2>2, DrvIs DEF ModRec
  <2>4. /\ mod' \in ModRec /\ mod'.start = mod.start /\ mod'.has = mod.has
        /\ mod'.inits = 1 /\ mod'.code = mod.code
    <3>1. mod \in ModRec
      BY DrvIs
    <3> QED BY <2>3, <3>1 DEF ModRec
  <2>5. Steering(mod', drv')
    BY <2>1, <2>2, <2>4 DEF Steering, StartRule
  <2> QED BY <1>1, <1>3, <2>1, <2>4, <2>5, DriverKeeps
<1> QED BY <1>2, <1>3 DEF RunEnd

LEMMA RtInitInv ==
  ASSUME RuntimeInit
  PROVE  RtInv
<1> DEFINE s == store
           blank == [line |-> 0, code |-> {}]
           home == [x \in 1 .. 0 |-> AtNone]
           pg == [p \in Pages |-> blank]
           rts == [r \in {"main", "tmp"} |-> Fresh]
<1>1. /\ s = [page |-> pg, made |-> 0, lost |-> {}, released |-> <<>>, rt |-> rts]
      /\ comp = NoComp /\ mod = NoModule /\ drv = Idle
  BY DEF RuntimeInit
<1>2. NPages \in Nat /\ PageLines \in Nat
  BY WasmRuntimeAssumption
<1>3. blank \in PageRec /\ blank.line = 0
  BY DEF PageRec
<1>4. Fresh \in RtRec /\ Fresh.open = <<>> /\ Fresh.full = <<>> /\ Fresh.num = 0 /\ Fresh.active = 0
  BY DEF Fresh, RtRec
<1> HIDE DEF blank
<1>5. pg \in [Pages -> PageRec] /\ \A p \in Pages : pg[p] = blank
  BY <1>3
<1>6. rts \in [RTs -> RtRec] /\ \A r \in RTs : rts[r] = Fresh
  BY <1>4 DEF RTs
<1> HIDE DEF pg, rts
<1>7. /\ s \in StoreRec /\ s.page = pg /\ s.made = 0 /\ s.lost = {} /\ s.released = <<>>
      /\ s.rt = rts
  BY <1>1, <1>5, <1>6 DEF StoreRec
<1>8. 1 .. 0 = {}
  OBVIOUS
<1>9. home \in [1 .. 0 -> Spots] /\ DOMAIN home = {}
  BY <1>8, SpotsDiffer
<1> HIDE DEF home
<1>10. \A x : In(home, x) = {}
  BY <1>9 DEF In
<1>11. LinesFit(s)
  BY <1>2, <1>3, <1>5, <1>7 DEF LinesFit
<1>12. ASSUME NEW r \in RTs PROVE RtPlaced(s.rt[r], home, r)
  <2>1. s.rt[r] = Fresh
    BY <1>6, <1>7
  <2>2. Len(<<>>) = 0 /\ 0 + 0 + 0 = 0
    OBVIOUS
  <2>3. Fresh.num = Len(Fresh.open) + Len(Fresh.full) + Fresh.active
    BY <1>4, <2>2
  <2> QED BY <1>4, <1>10, <2>1, <2>3, ListsNone DEF RtPlaced
<1>13. Placed(s, home)
  <2>1. s.made <= NPages /\ home \in [1 .. s.made -> Spots]
    BY <1>2, <1>7, <1>9
  <2>2. Lists(s.released, In(home, AtEnv)) /\ s.lost = In(home, AtNone)
    BY <1>7, <1>10, ListsNone
  <2> QED BY <1>7, <1>11, <1>12, <2>1, <2>2 DEF Placed
<1>14. Rest(drv.gone, s, home)
  BY <1>1, <1>4, <1>6, <1>7, <1>10, <1>13 DEF Rest, Idle, Spare
<1>15. StoreInv(drv.gone, store, comp, mod)
  BY <1>1, <1>14, UnbornCoded DEF StoreInv
<1> QED BY <1>1, <1>15, IdleSteering DEF RtInv

LEMMA RtNextInv ==
  ASSUME RtInv, [RuntimeNext]_runtimeVars
  PROVE  RtInv'
<1>1. CASE UNCHANGED runtimeVars
  BY <1>1 DEF runtimeVars, RtInv
<1>2. CASE LoadFail
  <2>1. ~Compiling /\ Failed(store, 0)
    BY <1>2 DEF LoadFail, At
  <2> QED BY <2>1, FailedKeeps
<1>3. CASE Trap
  <2>1. ~Compiling /\ Failed(store, 0)
    BY <1>3 DEF Trap, At
  <2> QED BY <2>1, FailedKeeps
<1> QED BY <1>1, <1>2, <1>3, CompileOpKeeps, CompileErrorKeeps, ElseOpenKeeps, ElseCloseKeeps,
           TableOpenKeeps, TargetOpenKeeps, TargetCloseKeeps, TableCloseKeeps, CompileEndKeeps,
           ExprEndKeeps, BeginKeeps, LoadExprKeeps, LoadedKeeps, LinkKeeps, FindKeeps, CallKeeps,
           CalleeKeeps, RunEndKeeps DEF RuntimeNext

(* What the properties of the module call held.                            *)
LEMMA HeldNow ==
  ASSUME RtInv
  PROVE  /\ ~Compiling => Held = {} /\ NumHeld = 0
         /\ Compiling => /\ Held = {comp.page} \cup PagesIn(comp.outer)
                         /\ NumHeld = 1 + Cardinality(SavedIn(comp.outer))
<1>1. ~Compiling => Held = {} /\ NumHeld = 0
  BY DEF Held, NumHeld
<1>2. ASSUME Compiling
      PROVE  /\ Held = {comp.page} \cup PagesIn(comp.outer)
             /\ NumHeld = 1 + Cardinality(SavedIn(comp.outer))
  <2>1. Scoped(comp.outer)
    BY <1>2, BaseIs
  <2>2. DOMAIN comp.outer = 1 .. Len(comp.outer)
    BY <2>1, LenProperties DEF Scoped
  <2>3. Saved = SavedIn(comp.outer)
    BY <2>2 DEF Saved, SavedIn
  <2> QED BY <1>2, <2>3 DEF Held, NumHeld, PagesIn
<1> QED BY <1>1, <1>2

Seen(home) ==
  /\ Placed(store, home) /\ Coded(store, home, mod.code) /\ Roomy(store, home)
  /\ Held = In(home, AtComp) /\ IsFiniteSet(Held) /\ Cardinality(Held) = NumHeld
  /\ \A r \in RTs : store.rt[r].active = (IF Compiling /\ comp.rt = r THEN NumHeld ELSE 0)
                                         + Spare(drv.gone, r)

LEMMA SeenIs ==
  ASSUME RtInv
  PROVE  \E home : Seen(home)
<1>1. CASE ~Compiling
  <2>1. PICK home : Rest(drv.gone, store, home) /\ Coded(store, home, mod.code)
    BY <1>1, RestIs
  <2>2. Held = {} /\ NumHeld = 0
    BY <1>1, HeldNow
  <2>3. /\ Placed(store, home) /\ In(home, AtComp) = {}
        /\ \A z \in RTs : /\ store.rt[z].active = Spare(drv.gone, z)
                          /\ 0 + Spare(drv.gone, z) = Spare(drv.gone, z)
    BY <2>1 DEF Rest, Spare
  <2>4. IsFiniteSet({}) /\ Cardinality({}) = 0
    BY FS_EmptySet
  <2>5. Seen(home)
    BY <1>1, <2>1, <2>2, <2>3, <2>4 DEF Seen, Roomy
  <2> QED BY <2>5
<1>2. CASE Compiling
  <2>1. PICK home : Base(home)
    BY <1>2, BaseIs
  <2> DEFINE p == comp.page
             q == comp.outer
             r == comp.rt
  <2>2. /\ Placed(store, home) /\ Scoped(q) /\ Apart(p, q) /\ r \in RTs
        /\ In(home, AtComp) = {p} \cup PagesIn(q)
        /\ Roomy(store, home)
        /\ drv.gone \in Nat /\ store.rt[r].active = Spare(drv.gone, r) + (1 + Cardinality(SavedIn(q)))
        /\ Alone(drv.gone, store, r) /\ Cardinality(SavedIn(q)) \in Nat
    <3> DEFINE g == drv.gone
    <3>1. Work(g, store, home, comp.fn, r, p, comp.on, q)
      BY <2>1 DEF Base
    <3> HIDE DEF p, q, r, g
    <3>2. /\ Placed(store, home) /\ Scoped(q) /\ Apart(p, q) /\ r \in RTs
          /\ In(home, AtComp) = {p} \cup PagesIn(q)
          /\ Roomy(store, home)
          /\ g \in Nat /\ store.rt[r].active = Spare(g, r) + (1 + Cardinality(SavedIn(q)))
          /\ Alone(g, store, r)
      BY <3>1, WorkIs
    <3>3. Cardinality(SavedIn(q)) \in Nat
      <4>1. Len(q) \in Nat
        BY <3>2 DEF Scoped
      <4> QED BY <4>1, SavedFinite
    <3> QED BY <3>2, <3>3 DEF g
  <2>3. Held = {p} \cup PagesIn(q) /\ NumHeld = 1 + Cardinality(SavedIn(q))
    BY <1>2, HeldNow
  <2>4. /\ IsFiniteSet({p} \cup PagesIn(q))
        /\ Cardinality({p} \cup PagesIn(q)) = 1 + Cardinality(SavedIn(q))
    BY <2>2, HeldCount
  <2>5. \A z \in RTs : store.rt[z].active = (IF Compiling /\ comp.rt = z THEN NumHeld ELSE 0)
                                             + Spare(drv.gone, z)
    BY <1>2, <2>2, <2>3 DEF Alone, Spare
  <2>6. Seen(home)
    BY <2>1, <2>2, <2>3, <2>4, <2>5 DEF Seen, Base
  <2> QED BY <2>6
<1> QED BY <1>1, <1>2

(* The pages in the lists, and the ones that are nowhere.                  *)
LEMMA ListedIs ==
  ASSUME NEW home, Placed(store, home)
  PROVE  \E S : /\ Lists(Listed, S) /\ S \cap In(home, AtComp) = {}
                /\ S \cup In(home, AtComp) = 1 .. store.made \ store.lost
                /\ \A p \in S : home[p] \in {AtOpen("main"), AtFull("main")}
                                  <=> p \in Range(store.rt["main"].open \o store.rt["main"].full)
<1> DEFINE R == store.released
           o1 == store.rt["main"].open
           f1 == store.rt["main"].full
           o2 == store.rt["tmp"].open
           f2 == store.rt["tmp"].full
           E == In(home, AtEnv)
           A == In(home, AtOpen("main"))
           B == In(home, AtFull("main"))
           C == In(home, AtOpen("tmp"))
           D == In(home, AtFull("tmp"))
           H == In(home, AtComp)
           S == (((E \cup A) \cup B) \cup C) \cup D
           m == store.made
<1>1. /\ home \in [1 .. m -> Spots] /\ DOMAIN home = 1 .. m
  BY PlacedIs
<1>2. /\ Lists(R, E) /\ Lists(o1, A) /\ Lists(f1, B) /\ Lists(o2, C) /\ Lists(f2, D)
      /\ store.lost = In(home, AtNone)
  BY MainFunc DEF Placed, RtPlaced
<1>3. /\ E \cap A = {} /\ (E \cup A) \cap B = {} /\ ((E \cup A) \cup B) \cap C = {}
      /\ (((E \cup A) \cup B) \cup C) \cap D = {} /\ S \cap H = {} /\ A \cap B = {}
  BY SpotsDiffer, MainFunc DEF In
<1>4. Lists(Listed, S)
  <2>1. Listed = (((R \o o1) \o f1) \o o2) \o f2
    BY DEF Listed
  <2> HIDE DEF R, o1, f1, o2, f2, E, A, B, C, D
  <2>2. Lists(R \o o1, E \cup A)
    BY <1>2, <1>3, ListsConcat
  <2>3. Lists((R \o o1) \o f1, (E \cup A) \cup B)
    BY <1>2, <1>3, <2>2, ListsConcat
  <2>4. Lists(((R \o o1) \o f1) \o o2, ((E \cup A) \cup B) \cup C)
    BY <1>2, <1>3, <2>3, ListsConcat
  <2>5. Lists((((R \o o1) \o f1) \o o2) \o f2, (((E \cup A) \cup B) \cup C) \cup D)
    BY <1>2, <1>3, <2>4, ListsConcat
  <2> QED BY <2>1, <2>5
<1>5. \A p \in 1 .. m : home[p] \in {AtEnv, AtComp, AtNone, AtOpen("main"), AtFull("main"),
                                     AtOpen("tmp"), AtFull("tmp")}
  BY <1>1 DEF Spots, RTs
<1>6. S \cup H = 1 .. m \ store.lost
  <2>1. ASSUME NEW p \in S \cup H PROVE p \in 1 .. m /\ p \notin In(home, AtNone)
    BY <1>1, SpotsDiffer, MainFunc DEF In
  <2>2. ASSUME NEW p \in 1 .. m, p \notin In(home, AtNone) PROVE p \in S \cup H
    BY <1>1, <1>5, <2>2 DEF In
  <2> QED BY <1>2, <2>1, <2>2
<1>7. Range(o1 \o f1) = A \cup B
  <2> HIDE DEF o1, f1, A, B
  <2>1. Lists(o1 \o f1, A \cup B)
    BY <1>2, <1>3, ListsConcat
  <2> DEFINE c == o1 \o f1
             U == A \cup B
  <2> HIDE DEF c, U
  <2>2. Range(c) = U
    BY <2>1, ListsIs DEF c, U
  <2> QED BY <2>2 DEF c, U
<1>8. \A p \in S : home[p] \in {AtOpen("main"), AtFull("main")} <=> p \in A \cup B
  BY <1>1 DEF In
<1> QED BY <1>3, <1>4, <1>6, <1>7, <1>8

LEMMA SeenPlaced ==
  ASSUME NEW home, Seen(home)
  PROVE  PagesPlaced
<1> DEFINE H == Held
           L == Listed
<1>1. Placed(store, home) /\ Held = In(home, AtComp) /\ IsFiniteSet(H) /\ Cardinality(H) = NumHeld
  BY DEF Seen
<1>2. PICK S : Lists(Listed, S) /\ S \cap H = {} /\ S \cup H = 1 .. store.made \ store.lost
  BY <1>1, ListedIs
<1> HIDE DEF H, L
<1>3. Lists(L, S)
  BY <1>2 DEF L
<1>4. Range(L) = S /\ IsFiniteSet(S) /\ Cardinality(S) = Len(L)
  BY <1>3, ListsIs
<1>5. Cardinality(S \cup H) = Cardinality(S) + Cardinality(H)
  <2>1. /\ Cardinality(S) \in Nat /\ Cardinality(H) \in Nat
        /\ Cardinality(S \cup H) = Cardinality(S) + Cardinality(H) - Cardinality(S \cap H)
    BY <1>1, <1>4, FS_Union, FS_CardinalityType
  <2>2. Cardinality(S \cap H) = 0
    BY <1>2, FS_EmptySet
  <2> QED BY <2>1, <2>2
<1>6. /\ Len(Listed) + NumHeld = Cardinality(Range(Listed) \cup Held)
      /\ Range(Listed) \cup Held = 1 .. store.made \ store.lost
  BY <1>1, <1>2, <1>4, <1>5 DEF H, L
<1>7. DOMAIN store.rt = RTs
  BY <1>1, PlacedIs
<1>8. ASSUME NEW r \in RTs
      PROVE  /\ store.rt[r].num = Len(store.rt[r].open) + Len(store.rt[r].full) + store.rt[r].active
             /\ store.rt[r].active = (IF Compiling /\ comp.rt = r THEN NumHeld ELSE 0)
                                       + (IF r = "main" THEN drv.gone ELSE 0)
  BY <1>1 DEF Seen, Placed, RtPlaced, Spare
<1> QED BY <1>6, <1>7, <1>8 DEF PagesPlaced

LEMMA SeenKept ==
  ASSUME NEW home, Seen(home)
  PROVE  CodeKept
<1>1. /\ Placed(store, home) /\ Held = In(home, AtComp) /\ Roomy(store, home)
      /\ Coded(store, home, mod.code)
  BY DEF Seen
<1>2. PICK S : /\ S \cup Held = 1 .. store.made \ store.lost
               /\ \A p \in S : home[p] \in {AtOpen("main"), AtFull("main")}
                                 <=> p \in Range(store.rt["main"].open \o store.rt["main"].full)
  BY <1>1, ListedIs
<1>3. store.lost = In(home, AtNone) /\ LinesFit(store) /\ DOMAIN home = 1 .. store.made
  BY <1>1, PlacedIs DEF Placed
<1>4. ASSUME NEW f \in Funcs, NEW p \in mod.code[f]
      PROVE  /\ f \in store.page[p].code
             /\ p \in Range(store.rt["main"].open \o store.rt["main"].full) \cup Held
                      \cup store.lost
  <2>1. p \in 1 .. store.made /\ f \in store.page[p].code /\ home[p] \in Of("main")
    BY <1>1 DEF Coded, CodeOn
  <2>2. CASE home[p] = AtComp
    BY <1>1, <1>3, <2>1, <2>2 DEF In
  <2>3. CASE home[p] \in {AtOpen("main"), AtFull("main")}
    <3>1. home[p] # AtNone /\ home[p] # AtComp
      BY <2>3, SpotsDiffer, MainFunc
    <3>2. p \in S
      BY <1>1, <1>2, <1>3, <2>1, <3>1 DEF In
    <3> QED BY <1>2, <2>1, <2>3, <3>2
  <2>4. CASE home[p] = AtNone
    BY <1>3, <2>1, <2>4 DEF In
  <2> QED BY <2>1, <2>2, <2>3, <2>4 DEF Of
<1>5. \A p \in Pages : store.page[p].line <= PageLines
  BY <1>3 DEF LinesFit
<1>6. \A p \in Held : NumFreeLines(store, p) >= 2
  BY <1>1 DEF Roomy
<1> QED BY <1>4, <1>5, <1>6 DEF CodeKept

LEMMA StartedFirst ==
  ASSUME RtInv
  PROVE  StartFirst
<1>1. mod \in ModRec /\ StartRule(mod, drv.run) /\ drv \in DrvRec
  BY DrvIs
<1>2. mod.start \in {"none", "due"} /\ drv.run \in {"none", "init", "step"}
  BY <1>1 DEF ModRec, DrvRec
<1>3. mod.inits = 0 \/ mod.inits = 1
  BY <1>1, <1>2 DEF StartRule
<1>4. drv.run = "step" => mod.inits = IF mod.has THEN 1 ELSE 0
  BY <1>1, <1>2 DEF StartRule
<1> QED BY <1>3, <1>4 DEF StartFirst

(* Whatever is compiled, bridged, thrown or freed, in whatever order, each *)
(* code page is in one list or in one hand, and the counts of the runtimes *)
(* agree with their lists (ReleaseCodePage's assertion in m3_env.c), the   *)
(* pages that wasm_run_bytes lost on its way to "_start" included.         *)
THEOREM PagesStayPlaced == RuntimeSpec => []PagesPlaced
<1>1. RuntimeInit => RtInv
  BY RtInitInv
<1>2. RtInv /\ [RuntimeNext]_runtimeVars => RtInv'
  BY RtNextInv
<1>3. RtInv => PagesPlaced
  BY SeenIs, SeenPlaced
<1> QED BY <1>1, <1>2, <1>3, PTL DEF RuntimeSpec

(* Code that can be called is whole on the pages of its runtime, a         *)
(* compilation can always bridge out of its page (the assertion of         *)
(* EnsureCodePageNumLines), and the start function runs first and once     *)
(* (m3_CallV, m3_RunStart).                                                *)
THEOREM CallsStaySound == RuntimeSpec => []CallsSound
<1>1. RuntimeInit => RtInv
  BY RtInitInv
<1>2. RtInv /\ [RuntimeNext]_runtimeVars => RtInv'
  BY RtNextInv
<1>3. RtInv => CallsSound
  BY SeenIs, SeenKept, StartedFirst DEF CallsSound
<1> QED BY <1>1, <1>2, <1>3, PTL DEF RuntimeSpec
=============================================================================
