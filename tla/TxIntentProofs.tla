--------------------------- MODULE TxIntentProofs ---------------------------
(***************************************************************************)
(* Proofs about TxIntent for any amount, rates, losses, holdings and       *)
(* number of changes to what the client is offered.                        *)
(***************************************************************************)
EXTENDS TxIntent, BudgetProofs, FiniteSetTheorems, SequenceTheorems

-----------------------------------------------------------------------------
(* A transaction, instruction by instruction.                               *)

Start == [ok |-> TRUE, bal |-> Before, burned |-> 0, rent |-> "none"]
After(st, ix, m) == IF st.ok THEN Step(st, ix, m) ELSE st

\* A set of finite sets has a member none of whose proper subsets is in it.
LEMMA SmallestSet ==
    ASSUME NEW S, IsFiniteSet(S), NEW B \in SUBSET SUBSET S, B # {}
    PROVE  \E T \in B : \A U \in B : U \subseteq T => U = T
<1>1. SUBSET S = FiniteSubsetsOf(S)
  BY FS_FiniteSubsetsOfFinite
<1>2. IsWellFoundedOn(StrictSubsetOrdering(S), SUBSET S)
  BY <1>1, FS_StrictSubsetOrderingWellFounded
<1>3. \E T \in B : \A U \in B : ~ (<<U, T>> \in StrictSubsetOrdering(S))
  BY <1>2, WFMin
<1> QED  BY <1>3 DEF StrictSubsetOrdering

\* A set of naturals has a least member.
LEMMA LeastNumber ==
    ASSUME NEW S \in SUBSET Nat, S # {}
    PROVE  \E x \in S : \A y \in S : x <= y
<1>1. \E x \in S : \A y \in S : ~ (<<y, x>> \in OpToRel(<, Nat))
  BY NatLessThanWellFounded, WFMin, Zenon
<1>2. ASSUME NEW x \in S, NEW y \in S, ~ (<<y, x>> \in OpToRel(<, Nat))
      PROVE  x <= y
  <2>1. ~ (y < x)
    BY <1>2, Zenon DEF OpToRel
  <2> QED  BY <2>1
<1> QED  BY <1>1, <1>2

\* A set of numbers below a bound has a greatest member.
LEMMA MaxIsMember ==
    ASSUME NEW n \in Nat, NEW S \in SUBSET (1 .. n), S # {}
    PROVE  Max(S) \in S /\ \A y \in S : Max(S) >= y
<1> DEFINE R == {n - x : x \in S}
<1>1. R \in SUBSET Nat /\ R # {}
  OBVIOUS
<1>2. \E x \in R : \A y \in R : x <= y
  <2> HIDE DEF R
  <2> QED  BY <1>1, LeastNumber
<1>3. PICK x \in S : \A y \in S : n - x <= n - y
  BY <1>2
<1>4. \A y \in S : x >= y
  BY <1>3
<1> QED  BY <1>4 DEF Max

\* g is the state after the instructions at each set of positions.
Runs(g, ixs, m, S) ==
    g = [s \in SUBSET S |->
           IF s = {} THEN Start ELSE After(g[s \ {Max(s)}], ixs[Max(s)], m)]

\* The library's fold is the function its definition chooses.
LEMMA ExecutedUnfolded ==
    ASSUME NEW ixs, NEW m
    PROVE  Executed(ixs, m) = (CHOOSE g : Runs(g, ixs, m, DOMAIN ixs))[DOMAIN ixs]
BY DEF Executed, FoldLeft, MapThenFoldSet, Runs, After, Start

\* The last of any positions is one of them.
Sorted(S) == IsFiniteSet(S) /\ \A s \in SUBSET S : s # {} => Max(s) \in s

\* Two such functions agree wherever both are defined.
LEMMA RunsAgree ==
    ASSUME NEW ixs, NEW m, NEW S, Sorted(S), NEW T, T \subseteq S,
           NEW g, Runs(g, ixs, m, S), NEW h, Runs(h, ixs, m, T)
    PROVE  g[T] = h[T]
<1> DEFINE Bad == {s \in SUBSET T : g[s] # h[s]}
<1>1. SUFFICES ASSUME Bad # {} PROVE FALSE
  OBVIOUS
<1>2. IsFiniteSet(T)
  BY FS_Subset DEF Sorted
<1>3. PICK s \in Bad : \A u \in Bad : u \subseteq s => u = s
  <2>1. Bad \in SUBSET SUBSET T
    OBVIOUS
  <2> HIDE DEF Bad
  <2> QED  BY <1>1, <1>2, <2>1, SmallestSet
<1>4. CASE s = {}
  <2>1. g[s] = Start /\ h[s] = Start
    BY <1>4 DEF Runs
  <2> QED  BY <2>1, <1>3
<1>5. CASE s # {}
  <2> DEFINE r == s \ {Max(s)}
  <2>1. Max(s) \in s
    BY <1>5, <1>3 DEF Sorted
  <2>2. r \in SUBSET T /\ r # s /\ r \subseteq s
    BY <2>1, <1>3
  <2>3. g[r] = h[r]
    BY <2>2, <1>3
  <2>4. g[s] = After(g[r], ixs[Max(s)], m) /\ h[s] = After(h[r], ixs[Max(s)], m)
    BY <1>5, <1>3 DEF Runs
  <2> QED  BY <2>3, <2>4, <1>3
<1> QED  BY <1>4, <1>5

\* There is one.
LEMMA RunsExists ==
    ASSUME NEW ixs, NEW m, NEW S, Sorted(S)
    PROVE  \E g : Runs(g, ixs, m, S)
<1> DEFINE Bad == {s \in SUBSET S : ~ \E g : Runs(g, ixs, m, s)}
<1>1. SUFFICES ASSUME Bad # {} PROVE FALSE
  OBVIOUS
<1>2. PICK T \in Bad : \A u \in Bad : u \subseteq T => u = T
  <2>1. Bad \in SUBSET SUBSET S
    OBVIOUS
  <2>2. IsFiniteSet(S)
    BY DEF Sorted
  <2> HIDE DEF Bad
  <2> QED  BY <1>1, <2>1, <2>2, SmallestSet
<1>3. Sorted(T) /\ T \subseteq S /\ ~ \E g : Runs(g, ixs, m, T)
  BY <1>2, FS_Subset DEF Sorted
<1> DEFINE G(s) == CHOOSE g : Runs(g, ixs, m, s)
           V(s) == G(s)[s]
           Next1(s) == IF s = {} THEN Start ELSE After(V(s \ {Max(s)}), ixs[Max(s)], m)
           g == [s \in SUBSET T |-> IF s = T THEN Next1(s) ELSE V(s)]
<1>4. ASSUME NEW s \in SUBSET T, s # T PROVE Runs(G(s), ixs, m, s)
  <2>1. \E f : Runs(f, ixs, m, s)
    BY <1>2, <1>3, <1>4
  <2> HIDE DEF Runs
  <2> QED  BY <2>1
<1>5. ASSUME NEW s \in SUBSET T, s # T PROVE V(s) = Next1(s)
  <2>1. CASE s = {}
    <3>1. Runs(G(s), ixs, m, s)
      BY <1>4, <1>5
    <3> HIDE DEF G
    <3> QED  BY <2>1, <3>1 DEF Runs
  <2>2. CASE s # {}
    <3> DEFINE r == s \ {Max(s)}
    <3>1. Max(s) \in s /\ r \in SUBSET T /\ r \subseteq s /\ r # T
      BY <2>2, <1>3, <1>5 DEF Sorted
    <3>2. Runs(G(s), ixs, m, s) /\ Runs(G(r), ixs, m, r) /\ Sorted(s)
      BY <1>3, <1>4, <1>5, <3>1, FS_Subset DEF Sorted
    <3>3. G(s)[r] = G(r)[r]
      <4> HIDE DEF r, G
      <4> QED  BY <3>1, <3>2, RunsAgree
    <3>4. G(s)[s] = After(G(s)[r], ixs[Max(s)], m)
      <4> HIDE DEF G
      <4> QED  BY <2>2, <3>2 DEF Runs
    <3> QED  BY <2>2, <3>3, <3>4
  <2> QED  BY <2>1, <2>2
<1>6. ASSUME NEW s \in SUBSET T PROVE g[s] = Next1(s)
  <2> HIDE DEF V
  <2> QED  BY <1>5
<1>7. ASSUME NEW s \in SUBSET T, s # {} PROVE g[s \ {Max(s)}] = V(s \ {Max(s)})
  <2>2. Max(s) \in s
    BY <1>3, <1>7 DEF Sorted
  <2>3. s \ {Max(s)} \in SUBSET T /\ s \ {Max(s)} # T
    BY <2>2
  <2> HIDE DEF V
  <2> QED  BY <2>3
<1>8. ASSUME NEW s \in SUBSET T
      PROVE  g[s] = IF s = {} THEN Start ELSE After(g[s \ {Max(s)}], ixs[Max(s)], m)
  <2> HIDE DEF g, V
  <2> QED  BY <1>6, <1>7
<1>9. g = [s \in SUBSET T |->
             IF s = {} THEN Start ELSE After(g[s \ {Max(s)}], ixs[Max(s)], m)]
  <2>1. DOMAIN g = SUBSET T /\ g = [s \in DOMAIN g |-> g[s]]
    <3> HIDE DEF V, Next1
    <3> QED  OBVIOUS
  <2> HIDE DEF g
  <2> QED  BY <1>8, <2>1
<1> QED
  <2> HIDE DEF g
  <2>1. Runs(g, ixs, m, T)
    BY <1>9 DEF Runs
  <2> QED  BY <2>1, <1>3

\* run[i] is the state after the first i instructions.
IsRun(run, ixs, m) ==
    /\ run[0] = Start
    /\ \A i \in DOMAIN ixs : run[i] = After(run[i - 1], ixs[i], m)

(***************************************************************************)
(* What a transaction does is what its instructions do, one after another. *)
(***************************************************************************)
LEMMA ExecutedRuns ==
    ASSUME NEW ixs, NEW m, NEW n \in Nat, DOMAIN ixs = 1 .. n
    PROVE  \E run : IsRun(run, ixs, m) /\ Executed(ixs, m) = run[n]
<1> DEFINE g == CHOOSE f : Runs(f, ixs, m, 1 .. n)
           run == [i \in 0 .. n |-> g[1 .. i]]
<1>1. Runs(g, ixs, m, 1 .. n)
  <2>1. \E f : Runs(f, ixs, m, 1 .. n)
    <3>1. Sorted(1 .. n)
      <4>1. IsFiniteSet(1 .. n)
        BY FS_Interval
      <4>2. \A s \in SUBSET (1 .. n) : s # {} => Max(s) \in s
        BY MaxIsMember
      <4> QED  BY <4>1, <4>2 DEF Sorted
    <3> QED  BY <3>1, RunsExists
  <2> HIDE DEF Runs
  <2> QED  BY <2>1
<1>2. Executed(ixs, m) = run[n]
  BY ExecutedUnfolded
<1> HIDE DEF g
<1>3. run[0] = Start
  <2>1. 1 .. 0 = {}
    OBVIOUS
  <2> QED  BY <1>1, <2>1 DEF Runs
<1>4. ASSUME NEW i \in 1 .. n
      PROVE  run[i] = After(run[i - 1], ixs[i], m)
  <2>1. 1 .. i \in SUBSET (1 .. n) /\ 1 .. i # {} /\ i \in 1 .. i
    OBVIOUS
  <2>2. Max(1 .. i) = i
    <3>1. Max(1 .. i) \in 1 .. i /\ \A y \in 1 .. i : Max(1 .. i) >= y
      BY <2>1, MaxIsMember
    <3> QED  BY <2>1, <3>1
  <2>3. (1 .. i) \ {i} = 1 .. (i - 1)
    OBVIOUS
  <2>4. g[1 .. i] = After(g[1 .. (i - 1)], ixs[i], m)
    BY <1>1, <2>1, <2>2, <2>3 DEF Runs
  <2>5. i - 1 \in 0 .. n /\ i \in 0 .. n
    OBVIOUS
  <2> QED  BY <2>4, <2>5
<1> HIDE DEF run
<1>5. IsRun(run, ixs, m)
  BY <1>3, <1>4 DEF IsRun
<1> QED  BY <1>2, <1>5

-----------------------------------------------------------------------------
(* Types.                                                                   *)

\* The instructions that are built, or offered after changes.
Known == {<<"computeBudget", "limit">>, <<"computeBudget", "price">>,
          <<"system", "create">>, <<"token", "init">>, <<"token", "transfer">>,
          <<"token", "close">>, <<"farms", "unstake">>, <<"farms", "withdraw">>,
          <<"kvault", "withdraw">>, <<"kvault", "deposit">>, <<"memo", "paymentId">>,
          <<"memo", "other">>, <<"ata", "create">>, <<"other", "any">>}

Programs == {"computeBudget", "system", "token", "farms", "kvault", "memo", "ata", "other"}
Operations == {"limit", "price", "create", "init", "transfer", "close", "unstake",
               "withdraw", "deposit", "paymentId", "other", "any"}
Names == Accounts \cup {"none", "sponsor", "wallet", "stranger", "usdc", "state",
                        "farm", "other", "expected", "pinned"}

Instruction ==
    {ix \in [prog : Programs, op : Operations, owner : Names, from : Names,
             to : Names, n : Nat] : <<ix.prog, ix.op>> \in Known}

Withdrawals == {"withdrawal", "realize"}
Kinds == {"payment", "deposit"} \cup Withdrawals
Stages == {"offered", "signed", "returned", "settled"}
Envelopes == [ixs : Seq(Instruction), feePayer : Names, signers : Names,
              decodes : BOOLEAN]
Intents == [vault : Names, seller : Names, amount : Nat, max : Nat,
            full : BOOLEAN, feePayer : Names, live : BOOLEAN, bound : BOOLEAN]

ShapeOK ==
    /\ kind \in Kinds
    /\ held \in Holdings
    /\ built \in Seq(Instruction)
    /\ intent \in Intents
    /\ offered \in Envelopes
    /\ seen \in Markets
    /\ edits \in Nat
    /\ stage \in Stages

\* The states of an execution.
State == [ok : BOOLEAN, bal : [Accounts -> Nat], burned : Nat, rent : Names]

\* The constants, as the proofs use them.
LEMMA ConstantTypes ==
    /\ Amount \in Nat /\ Amount > 0 /\ RateScale \in Nat /\ RateScale > 0
    /\ \A r \in Rates : r \in Nat /\ r > 0
    /\ \A l \in Losses : l \in Nat
    /\ \A h \in Holdings : h.free \in Nat /\ h.staked \in Nat /\ h.basis \in Nat
    /\ Margin \in Nat /\ Rounding \in Nat /\ MaxUnits \in Nat /\ MaxEdits \in Nat
    /\ PenaltyBps \in Nat /\ PenaltyLamports \in Nat /\ PenaltyBps < FullBps
    /\ Overhead \in Nat
BY TxIntentAssumption, RateScaleAssumption

\* A target covers the amount.
LEMMA TargetType ==
    ASSUME NEW k
    PROVE  /\ Headroom \in Nat /\ Headroom <= Rounding
           /\ Target(k) \in Nat /\ Target(k) >= Amount /\ Target(k) > 0
<1>1. Rounding \in Nat /\ Amount \in Nat /\ Amount > 0
  BY ConstantTypes
<1>2. Rounding \div 2 \in Nat /\ 2 * (Rounding \div 2) <= Rounding
  BY <1>1, DivNat, DivBounds
<1>3. Headroom \in Nat /\ Headroom <= Rounding
  BY <1>1, <1>2 DEF Headroom
<1> QED  BY <1>1, <1>3 DEF Target

\* What comes out of the vault is a number.
LEMMA OutputType ==
    ASSUME NEW n \in Nat, NEW m \in Markets
    PROVE  Output(n, m) \in Nat
<1> DEFINE v == ComputePositionValue(n, m.rate)
           net == NetOf(v, PenaltyBps, PenaltyLamports)
<1>1. m.rate \in Nat /\ m.loss \in Nat
  BY ConstantTypes DEF Markets
<1>2. v \in Nat
  BY <1>1, ValueBounds
<1> HIDE DEF v
<1>3. net \in Int
  BY <1>2, NetType, ConstantTypes
<1>4. Output(n, m) = ClampToZero(net - m.loss)
  BY DEF Output, v
<1> HIDE DEF net
<1> QED  BY <1>1, <1>3, <1>4 DEF ClampToZero

\* An execution starts from what the wallet holds.
LEMMA StartType ==
    ASSUME held \in Holdings
    PROVE  /\ Before \in [Accounts -> Nat] /\ Start \in State /\ Start.ok
           /\ Start.bal = Before /\ Start.burned = 0 /\ Start.rent = "none"
           /\ \A a \in Accounts \ {"walletUsdc", "walletShares", "staked"} : Before[a] = 0
<1>1. held.free \in Nat /\ held.staked \in Nat /\ 2 * Amount \in Nat
  BY ConstantTypes
<1>2. Before \in [Accounts -> Nat]
  BY <1>1 DEF Before
<1>3. \A a \in Accounts \ {"walletUsdc", "walletShares", "staked"} : Before[a] = 0
  BY DEF Before
<1>4. Start \in State
  BY <1>2 DEF Start, State, Names
<1>5. Start.ok /\ Start.bal = Before /\ Start.burned = 0 /\ Start.rent = "none"
  BY DEF Start
<1> QED  BY <1>2, <1>3, <1>4, <1>5

-----------------------------------------------------------------------------
(* What an instruction does.                                                *)

\* n went from one account to another.
Moved(st, t, from, to, n) ==
    /\ n <= st.bal[from]
    /\ t.ok = st.ok /\ t.burned = st.burned /\ t.rent = st.rent
    /\ t.bal[from] = st.bal[from] - n /\ t.bal[to] = st.bal[to] + n
    /\ \A a \in Accounts \ {from, to} : t.bal[a] = st.bal[a]

\* A transfer between two accounts moves the amount or fails.
LEMMA MoveEffect ==
    ASSUME NEW st \in State, NEW from \in Accounts, NEW to \in Accounts, from # to,
           NEW n \in Nat
    PROVE  /\ Move(st, from, to, n) \in State
           /\ Move(st, from, to, n).ok => Moved(st, Move(st, from, to, n), from, to, n)
           /\ st.ok /\ st.bal[from] >= n => Move(st, from, to, n).ok
<1> DEFINE t == Move(st, from, to, n)
           b == [st.bal EXCEPT ![from] = @ - n, ![to] = @ + n]
<1>1. st.bal \in [Accounts -> Nat]
  BY DEF State
<1>2. CASE st.bal[from] < n
  <2>1. t = [st EXCEPT !.ok = FALSE] /\ ~(st.bal[from] >= n)
    BY <1>1, <1>2 DEF Move
  <2>2. t \in State /\ ~t.ok
    <3> HIDE DEF t
    <3> QED  BY <2>1 DEF State
  <2> QED  BY <2>1, <2>2
<1>3. CASE ~(st.bal[from] < n)
  <2>1. t = [st EXCEPT !.bal = b]
    BY <1>3 DEF Move, State
  <2>2. b \in [Accounts -> Nat]
    BY <1>1, <1>3
  <2>3. /\ b[from] = st.bal[from] - n /\ b[to] = st.bal[to] + n
        /\ \A a \in Accounts \ {from, to} : b[a] = st.bal[a]
    BY <1>1
  <2>4. /\ t \in State /\ t.ok = st.ok /\ t.bal = b /\ t.burned = st.burned
        /\ t.rent = st.rent
    <3> HIDE DEF t, b
    <3> QED  BY <2>1, <2>2 DEF State
  <2>5. n <= st.bal[from]
    BY <1>1, <1>3
  <2>6. t \in State /\ Moved(st, t, from, to, n)
    <3> HIDE DEF t, b
    <3> QED  BY <2>3, <2>4, <2>5 DEF Moved
  <2>7. st.ok => t.ok
    <3> HIDE DEF t
    <3> QED  BY <2>4
  <2> QED  BY <2>6, <2>7
<1> QED  BY <1>2, <1>3

\* A transaction that has failed stays failed.
LEMMA FailureStays ==
    ASSUME NEW st, NEW ix, NEW m
    PROVE  /\ After(st, ix, m).ok => st.ok
           /\ ~st.ok => After(st, ix, m) = st
           /\ st.ok => After(st, ix, m) = Step(st, ix, m)
BY DEF After

\* Compute budgets, memos and the creation of accounts move nothing.
LEMMA InertEffect ==
    ASSUME NEW st, NEW ix \in Instruction, NEW m,
           \/ ix.prog \in {"computeBudget", "system", "memo", "ata"}
           \/ ix.op = "init"
    PROVE  After(st, ix, m) = st
<1>1. Step(st, ix, m) = st
  BY DEF Step, Instruction, Known
<1> QED  BY <1>1 DEF After

\* Unstaking makes every staked share pending.
LEMMA UnstakeEffect ==
    ASSUME NEW st \in State, NEW ix \in Instruction, NEW m, st.ok, ix.op = "unstake"
    PROVE  /\ After(st, ix, m) \in State /\ After(st, ix, m).ok
           /\ Moved(st, After(st, ix, m), "staked", "pending", st.bal["staked"])
<1>1. Step(st, ix, m) = Move(st, "staked", "pending", st.bal["staked"])
  BY DEF Step, Instruction, Known
<1>2. /\ "staked" \in Accounts /\ "pending" \in Accounts /\ st.bal["staked"] \in Nat
  BY DEF Accounts, State
<1>3. st.bal["staked"] >= st.bal["staked"]
  BY <1>2
<1> QED  BY <1>1, <1>2, <1>3, MoveEffect, FailureStays

\* The farm gives pending shares back.
LEMMA FarmWithdrawEffect ==
    ASSUME NEW st \in State, NEW ix \in Instruction, NEW m, st.ok,
           ix.prog = "farms", ix.op = "withdraw", ix.to = "walletShares"
    PROVE  /\ After(st, ix, m) \in State /\ After(st, ix, m).ok
           /\ Moved(st, After(st, ix, m), "pending", "walletShares", st.bal["pending"])
<1>1. Step(st, ix, m) = Move(st, "pending", "walletShares", st.bal["pending"])
  BY DEF Step, Instruction, Known
<1>2. /\ "walletShares" \in Accounts /\ "pending" \in Accounts
      /\ st.bal["pending"] \in Nat
  BY DEF Accounts, State
<1>3. st.bal["pending"] >= st.bal["pending"]
  BY <1>2
<1> QED  BY <1>1, <1>2, <1>3, MoveEffect, FailureStays

\* A transfer moves its amount, or fails.
LEMMA TransferEffect ==
    ASSUME NEW st \in State, NEW ix \in Instruction, NEW m, st.ok,
           ix.op = "transfer", ix.from \in Accounts, ix.to \in Accounts, ix.from # ix.to
    PROVE  /\ After(st, ix, m) \in State
           /\ After(st, ix, m).ok => Moved(st, After(st, ix, m), ix.from, ix.to, ix.n)
           /\ st.bal[ix.from] >= ix.n => After(st, ix, m).ok
<1>1. Step(st, ix, m) = Move(st, ix.from, ix.to, ix.n) /\ ix.n \in Nat
  BY DEF Step, Instruction, Known
<1> QED  BY <1>1, MoveEffect, FailureStays

\* n shares were burned for out.
Burnt(st, t, to, n, out) ==
    /\ n <= st.bal["walletShares"]
    /\ t.ok = st.ok /\ t.burned = st.burned + n /\ t.rent = st.rent
    /\ t.bal["walletShares"] = st.bal["walletShares"] - n
    /\ t.bal[to] = st.bal[to] + out
    /\ \A a \in Accounts \ {"walletShares", to} : t.bal[a] = st.bal[a]

\* The shares a redemption burns.
Burn(st, ix) == IF ix.n = FullExit THEN st.bal["walletShares"] ELSE ix.n

\* A redemption burns shares for their output, or fails.
LEMMA RedeemEffect ==
    ASSUME NEW st \in State, NEW ix \in Instruction, NEW m \in Markets, st.ok,
           ix.prog = "kvault", ix.op = "withdraw", ix.from = "walletShares",
           ix.to \in Accounts, ix.to # "walletShares"
    PROVE  /\ Burn(st, ix) \in Nat /\ After(st, ix, m) \in State
           /\ After(st, ix, m).ok =>
                Burnt(st, After(st, ix, m), ix.to, Burn(st, ix), Output(Burn(st, ix), m))
           /\ st.bal["walletShares"] >= Burn(st, ix) => After(st, ix, m).ok
<1> DEFINE n == Burn(st, ix)
           out == Output(n, m)
           t == After(st, ix, m)
           to == ix.to
           b == [st.bal EXCEPT !["walletShares"] = @ - n, ![to] = @ + out]
<1>1. /\ st.bal \in [Accounts -> Nat] /\ "walletShares" \in Accounts /\ ix.n \in Nat
      /\ st.burned \in Nat
  BY DEF State, Accounts, Instruction
<1>2. n \in Nat
  BY <1>1 DEF Burn
<1>3. out \in Nat
  <2> HIDE DEF n
  <2> QED  BY <1>2, OutputType
<1>4. t = IF st.bal["walletShares"] < n THEN Failed(st)
          ELSE [st EXCEPT !.bal["walletShares"] = @ - n, !.bal[to] = @ + out,
                          !.burned = @ + n]
  <2>1. t = Step(st, ix, m)
    BY FailureStays
  <2> QED  BY <2>1 DEF Step, Instruction, Known, Burn
<1> HIDE DEF n, out, t
<1>5. CASE st.bal["walletShares"] < n
  <2>1. t = [st EXCEPT !.ok = FALSE] /\ ~(st.bal["walletShares"] >= n)
    BY <1>1, <1>2, <1>4, <1>5 DEF Failed
  <2>2. t \in State /\ ~t.ok
    BY <2>1 DEF State
  <2> QED  BY <1>2, <2>1, <2>2 DEF n, t
<1>6. CASE ~(st.bal["walletShares"] < n)
  <2>1. t = [st EXCEPT !.bal = b, !.burned = @ + n]
    BY <1>4, <1>6 DEF State
  <2>2. b \in [Accounts -> Nat]
    BY <1>1, <1>2, <1>3, <1>6
  <2>3. /\ b["walletShares"] = st.bal["walletShares"] - n /\ b[to] = st.bal[to] + out
        /\ \A a \in Accounts \ {"walletShares", to} : b[a] = st.bal[a]
    BY <1>1
  <2>4. st.burned + n \in Nat
    BY <1>1, <1>2
  <2>5. /\ t \in State /\ t.ok = st.ok /\ t.bal = b /\ t.burned = st.burned + n
        /\ t.rent = st.rent
    <3> HIDE DEF b
    <3> QED  BY <2>1, <2>2, <2>4 DEF State
  <2>6. n <= st.bal["walletShares"]
    BY <1>1, <1>2, <1>6
  <2>7. Burnt(st, t, to, n, out)
    <3> HIDE DEF b
    <3> QED  BY <2>3, <2>5, <2>6 DEF Burnt
  <2>8. t.ok
    BY <2>5
  <2> QED  BY <1>2, <2>5, <2>7, <2>8 DEF n, t, out
<1> QED  BY <1>5, <1>6

\* USDC became shares.
Invested(st, t, n, shares) ==
    /\ n <= st.bal["walletUsdc"]
    /\ t.ok = st.ok /\ t.burned = st.burned /\ t.rent = st.rent
    /\ t.bal["walletUsdc"] = st.bal["walletUsdc"] - n
    /\ t.bal["walletShares"] = st.bal["walletShares"] + shares
    /\ \A a \in Accounts \ {"walletShares", "walletUsdc"} : t.bal[a] = st.bal[a]

\* A deposit invests its amount for the depositor, or fails.
LEMMA InvestEffect ==
    ASSUME NEW st \in State, NEW ix \in Instruction, NEW m \in Markets, st.ok,
           ix.prog = "kvault", ix.op = "deposit", ix.from = "walletUsdc"
    PROVE  /\ After(st, ix, m) \in State
           /\ After(st, ix, m).ok =>
                \E shares \in Nat : Invested(st, After(st, ix, m), ix.n, shares)
           /\ st.bal["walletUsdc"] >= ix.n /\ ix.to = "walletShares"
                => After(st, ix, m).ok
<1> DEFINE n == ix.n
           shares == (n * RateScale) \div m.rate
           t == After(st, ix, m)
           b == [st.bal EXCEPT !["walletUsdc"] = @ - n, !["walletShares"] = @ + shares]
<1>1. /\ st.bal \in [Accounts -> Nat] /\ "walletShares" \in Accounts
      /\ "walletUsdc" \in Accounts /\ n \in Nat
  BY DEF State, Accounts, Instruction
<1>2. shares \in Nat
  <2>1. n * RateScale \in Nat /\ m.rate \in Nat \ {0}
    BY <1>1, ConstantTypes DEF Markets
  <2> QED  BY <2>1, DivNat
<1>3. t = IF st.bal["walletUsdc"] < n \/ ix.to # "walletShares" THEN Failed(st)
          ELSE [st EXCEPT !.bal["walletUsdc"] = @ - n, !.bal["walletShares"] = @ + shares]
  <2>1. t = Step(st, ix, m)
    BY FailureStays
  <2> QED  BY <2>1 DEF Step, Instruction, Known
<1> HIDE DEF n, shares, t
<1>4. CASE st.bal["walletUsdc"] < n \/ ix.to # "walletShares"
  <2>1. /\ t = [st EXCEPT !.ok = FALSE]
        /\ ~(st.bal["walletUsdc"] >= n /\ ix.to = "walletShares")
    BY <1>1, <1>3, <1>4 DEF Failed
  <2>2. t \in State /\ ~t.ok
    BY <2>1 DEF State
  <2> QED  BY <2>1, <2>2 DEF n, t
<1>5. CASE ~(st.bal["walletUsdc"] < n \/ ix.to # "walletShares")
  <2>1. t = [st EXCEPT !.bal = b]
    BY <1>3, <1>5 DEF State
  <2>2. b \in [Accounts -> Nat]
    BY <1>1, <1>2, <1>5
  <2>3. /\ b["walletUsdc"] = st.bal["walletUsdc"] - n
        /\ b["walletShares"] = st.bal["walletShares"] + shares
        /\ \A a \in Accounts \ {"walletShares", "walletUsdc"} : b[a] = st.bal[a]
    BY <1>1
  <2>4. /\ t \in State /\ t.ok = st.ok /\ t.bal = b /\ t.burned = st.burned
        /\ t.rent = st.rent
    <3> HIDE DEF b
    <3> QED  BY <2>1, <2>2 DEF State
  <2>5. n <= st.bal["walletUsdc"]
    BY <1>1, <1>5
  <2>6. Invested(st, t, n, shares)
    <3> HIDE DEF b
    <3> QED  BY <2>3, <2>4, <2>5 DEF Invested
  <2>7. t.ok
    BY <2>4
  <2> QED  BY <1>2, <2>4, <2>6, <2>7 DEF n, t
<1> QED  BY <1>4, <1>5

\* Closing an account moves nothing and gives its rent away, or fails.
LEMMA CloseEffect ==
    ASSUME NEW st \in State, NEW ix \in Instruction, NEW m, st.ok, ix.op = "close"
    PROVE  LET t == After(st, ix, m)
           IN  /\ t \in State
               /\ t.bal = st.bal /\ t.burned = st.burned
               /\ t.ok => t.rent = ix.to
               /\ t.ok /\ ix.from \in Accounts => st.bal[ix.from] = 0
               /\ ix.from \in Accounts /\ st.bal[ix.from] = 0 => t.ok
<1> DEFINE t == After(st, ix, m)
<1>1. t = IF st.bal[ix.from] > 0 THEN Failed(st) ELSE [st EXCEPT !.rent = ix.to]
  <2>1. t = Step(st, ix, m)
    BY FailureStays
  <2> QED  BY <2>1 DEF Step, Instruction, Known
<1>2. ix.to \in Names /\ (ix.from \in Accounts => st.bal[ix.from] \in Nat)
  BY DEF Instruction, State
<1> HIDE DEF t
<1>3. CASE st.bal[ix.from] > 0
  <2>1. t = [st EXCEPT !.ok = FALSE]
    BY <1>1, <1>3 DEF Failed
  <2>2. t \in State /\ ~t.ok /\ t.bal = st.bal /\ t.burned = st.burned
    BY <2>1 DEF State
  <2> QED  BY <1>3, <2>2 DEF t
<1>4. CASE ~(st.bal[ix.from] > 0)
  <2>1. t = [st EXCEPT !.rent = ix.to]
    BY <1>1, <1>4
  <2>2. /\ t \in State /\ t.ok = st.ok /\ t.bal = st.bal /\ t.burned = st.burned
        /\ t.rent = ix.to
    BY <1>2, <2>1 DEF State
  <2>3. t.ok
    BY <2>2
  <2> QED  BY <1>2, <1>4, <2>2, <2>3 DEF t
<1> QED  BY <1>3, <1>4

-----------------------------------------------------------------------------
(* Executions.                                                              *)

\* Induction over positions.
LEMMA EveryPosition ==
    ASSUME NEW n \in Nat, NEW P, 0 \in P, \A i \in 1 .. n : i - 1 \in P => i \in P
    PROVE  \A i \in 0 .. n : i \in P
<1> DEFINE Bad == {i \in 0 .. n : i \notin P}
<1>1. SUFFICES ASSUME Bad # {} PROVE FALSE
  OBVIOUS
<1>2. PICK x \in Bad : \A y \in Bad : x <= y
  <2>1. Bad \in SUBSET Nat
    OBVIOUS
  <2> HIDE DEF Bad
  <2> QED  BY <1>1, <2>1, LeastNumber
<1>3. x \in 1 .. n /\ x - 1 \in 0 .. n /\ x - 1 < x
  BY <1>2
<1>4. x - 1 \in P
  BY <1>2, <1>3
<1> QED  BY <1>2, <1>3, <1>4

\* An execution that succeeds has not failed before.
LEMMA OkThroughout ==
    ASSUME NEW ixs, NEW m, NEW n \in Nat, DOMAIN ixs = 1 .. n, NEW run,
           IsRun(run, ixs, m), run[n].ok
    PROVE  \A i \in 0 .. n : run[i].ok
<1> DEFINE P == {j \in 0 .. n : run[n - j].ok}
<1>1. 0 \in P
  <2>1. n - 0 = n
    OBVIOUS
  <2> QED  BY <2>1
<1>2. ASSUME NEW j \in 1 .. n, j - 1 \in P PROVE j \in P
  <2>1. n - (j - 1) \in 1 .. n /\ n - (j - 1) - 1 = n - j
    OBVIOUS
  <2>2. run[n - (j - 1)].ok
    BY <1>2
  <2>3. run[n - (j - 1)] = After(run[n - j], ixs[n - (j - 1)], m)
    BY <2>1 DEF IsRun
  <2>4. run[n - j].ok
    <3> HIDE DEF P
    <3> QED  BY <2>2, <2>3, FailureStays
  <2> QED  BY <2>4
<1>3. \A j \in 0 .. n : j \in P
  <2> HIDE DEF P
  <2> QED  BY <1>1, <1>2, EveryPosition
<1>4. ASSUME NEW i \in 0 .. n PROVE run[i].ok
  <2>1. n - i \in 0 .. n /\ n - (n - i) = i
    OBVIOUS
  <2>2. run[n - (n - i)].ok
    BY <1>3, <2>1
  <2> QED  BY <2>1, <2>2
<1> QED  BY <1>4

\* The wallet's shares are a number.
LEMMA SharesType ==
    ASSUME NEW bal \in [Accounts -> Nat]
    PROVE  WalletShares(bal) \in Nat
<1>1. bal["walletShares"] \in Nat /\ bal["staked"] \in Nat /\ bal["pending"] \in Nat
  BY DEF Accounts
<1> QED  BY <1>1 DEF WalletShares

\* Nothing has left the wallet, or come in.
Untouched(st) ==
    /\ st \in State /\ st.ok /\ st.burned = 0
    /\ \A a \in Accounts \ {"walletShares", "staked", "pending"} : st.bal[a] = Before[a]
    /\ WalletShares(st.bal) = WalletShares(Before)

\* An execution starts so.
LEMMA StartUntouched == ASSUME held \in Holdings PROVE Untouched(Start)
BY StartType DEF Untouched

\* The farm's two instructions only make staked shares free.
LEMMA FarmEffect ==
    ASSUME NEW st \in State, st.ok, NEW ix \in Instruction, NEW m,
           \/ ix.op = "unstake"
           \/ ix.prog = "farms" /\ ix.op = "withdraw" /\ ix.to = "walletShares"
    PROVE  LET t == After(st, ix, m)
           IN  /\ t \in State /\ t.ok /\ t.burned = st.burned /\ t.rent = st.rent
               /\ WalletShares(t.bal) = WalletShares(st.bal)
               /\ \A a \in Accounts \ {"walletShares", "staked", "pending"} :
                    t.bal[a] = st.bal[a]
<1> DEFINE t == After(st, ix, m)
<1>2. /\ t \in State /\ t.ok
      /\ \/ Moved(st, t, "staked", "pending", st.bal["staked"])
         \/ Moved(st, t, "pending", "walletShares", st.bal["pending"])
  BY UnstakeEffect, FarmWithdrawEffect
<1>3. /\ st.bal["walletShares"] \in Nat /\ st.bal["staked"] \in Nat
      /\ st.bal["pending"] \in Nat
      /\ {"walletShares", "staked", "pending"} \subseteq Accounts
  BY DEF State, Accounts
<1> HIDE DEF t
<1>4. CASE Moved(st, t, "staked", "pending", st.bal["staked"])
  <2>1. /\ t.bal["staked"] = st.bal["staked"] - st.bal["staked"]
        /\ t.bal["pending"] = st.bal["pending"] + st.bal["staked"]
        /\ t.bal["walletShares"] = st.bal["walletShares"]
        /\ t.burned = st.burned /\ t.rent = st.rent
    BY <1>3, <1>4 DEF Moved
  <2>2. \A a \in Accounts \ {"walletShares", "staked", "pending"} : t.bal[a] = st.bal[a]
    BY <1>4 DEF Moved
  <2>3. WalletShares(t.bal) = WalletShares(st.bal)
    BY <1>3, <2>1 DEF WalletShares
  <2> QED  BY <1>2, <2>1, <2>2, <2>3 DEF t
<1>5. CASE Moved(st, t, "pending", "walletShares", st.bal["pending"])
  <2>1. /\ t.bal["pending"] = st.bal["pending"] - st.bal["pending"]
        /\ t.bal["walletShares"] = st.bal["walletShares"] + st.bal["pending"]
        /\ t.bal["staked"] = st.bal["staked"]
        /\ t.burned = st.burned /\ t.rent = st.rent
    BY <1>3, <1>5 DEF Moved
  <2>2. \A a \in Accounts \ {"walletShares", "staked", "pending"} : t.bal[a] = st.bal[a]
    BY <1>5 DEF Moved
  <2>3. WalletShares(t.bal) = WalletShares(st.bal)
    BY <1>3, <2>1 DEF WalletShares
  <2> QED  BY <1>2, <2>1, <2>2, <2>3 DEF t
<1> QED  BY <1>2, <1>4, <1>5

\* So they leave the wallet's assets what they were.
LEMMA FarmUntouched ==
    ASSUME NEW st, Untouched(st), NEW ix \in Instruction, NEW m,
           \/ ix.op = "unstake"
           \/ ix.prog = "farms" /\ ix.op = "withdraw" /\ ix.to = "walletShares"
    PROVE  Untouched(After(st, ix, m))
<1> DEFINE t == After(st, ix, m)
<1>1. st \in State /\ st.ok
  BY DEF Untouched
<1>2. /\ t \in State /\ t.ok /\ t.burned = st.burned /\ t.rent = st.rent
      /\ WalletShares(t.bal) = WalletShares(st.bal)
      /\ \A a \in Accounts \ {"walletShares", "staked", "pending"} : t.bal[a] = st.bal[a]
  BY <1>1, FarmEffect
<1> HIDE DEF t
<1>3. Untouched(t)
  BY <1>2 DEF Untouched
<1> QED  BY <1>3 DEF t

-----------------------------------------------------------------------------
(* Payments.                                                                *)

\* The canonical settlement: f farm instructions, w dust sweeps, and the rent to
\* payer.
Canonical(ixs, f, w, payer) ==
    /\ f \in {0, 2} /\ w \in {0, 1} /\ Len(ixs) = 8 + f + w
    /\ ixs[1].prog = "computeBudget" /\ ixs[2].prog = "computeBudget"
    /\ ixs[3].prog = "system" /\ ixs[4].op = "init"
    /\ f = 2 => /\ ixs[5].op = "unstake"
                /\ ixs[6].prog = "farms" /\ ixs[6].op = "withdraw"
                /\ ixs[6].to = "walletShares"
    /\ ixs[f + 5].prog = "kvault" /\ ixs[f + 5].op = "withdraw"
    /\ ixs[f + 5].from = "walletShares" /\ ixs[f + 5].to = "temp"
    /\ ixs[f + 6].op = "transfer" /\ ixs[f + 6].from = "temp"
    /\ ixs[f + 6].to = "sellerUsdc" /\ ixs[f + 6].n = Amount
    /\ w = 1 => /\ ixs[f + 7].op = "transfer" /\ ixs[f + 7].from = "temp"
                /\ ixs[f + 7].to = "walletUsdc"
    /\ ixs[f + w + 7].op = "close" /\ ixs[f + w + 7].from = "temp"
    /\ ixs[f + w + 7].to = payer
    /\ ixs[f + w + 8].prog = "memo"

\* Accounts and the farm pair come first and move nothing out of the wallet.
LEMMA CanonicalOpens ==
    ASSUME held \in Holdings, NEW ixs \in Seq(Instruction), NEW f, NEW w,
           NEW payer, Canonical(ixs, f, w, payer), NEW m \in Markets, NEW run, IsRun(run, ixs, m)
    PROVE  /\ run[4] = Start /\ Untouched(run[f + 4])
           /\ f + 4 \in 0 .. Len(ixs)
<1>1. /\ DOMAIN ixs = 1 .. Len(ixs) /\ Len(ixs) \in Nat /\ Len(ixs) >= 8
      /\ f \in {0, 2}
  BY DEF Canonical
<1>2. \A i \in 1 .. Len(ixs) : run[i] = After(run[i - 1], ixs[i], m) /\ ixs[i] \in Instruction
  BY <1>1 DEF IsRun
<1>3. /\ run[1] = After(run[0], ixs[1], m) /\ run[2] = After(run[1], ixs[2], m)
      /\ run[3] = After(run[2], ixs[3], m) /\ run[4] = After(run[3], ixs[4], m)
      /\ ixs[1] \in Instruction /\ ixs[2] \in Instruction /\ ixs[3] \in Instruction
      /\ ixs[4] \in Instruction
  BY <1>1, <1>2
<1>4. run[0] = Start
  BY DEF IsRun
<1>5. run[1] = Start /\ run[2] = Start
  BY <1>3, <1>4, InertEffect DEF Canonical
<1>6. run[3] = Start
  BY <1>3, <1>5, InertEffect DEF Canonical
<1>7. run[4] = Start
  BY <1>3, <1>6, InertEffect DEF Canonical
<1>8. Untouched(run[4])
  BY <1>7, StartUntouched
<1>9. CASE f = 2
  <2>1. /\ run[5] = After(run[4], ixs[5], m) /\ run[6] = After(run[5], ixs[6], m)
        /\ ixs[5] \in Instruction /\ ixs[6] \in Instruction
    BY <1>1, <1>2
  <2>2. Untouched(run[5])
    BY <1>8, <1>9, <2>1, FarmUntouched DEF Canonical
  <2>3. Untouched(run[6])
    BY <1>9, <2>1, <2>2, FarmUntouched DEF Canonical
  <2> QED  BY <1>1, <1>7, <1>9, <2>3
<1>10. CASE f = 0
  BY <1>1, <1>7, <1>8, <1>10
<1> QED  BY <1>1, <1>9, <1>10

\* The last six instructions, or seven with a sweep.
LEMMA CanonicalSteps ==
    ASSUME NEW ixs \in Seq(Instruction), NEW f, NEW w, NEW payer,
           Canonical(ixs, f, w, payer),
           NEW m, NEW run, IsRun(run, ixs, m)
    PROVE  /\ run[f + 5] = After(run[f + 4], ixs[f + 5], m)
           /\ run[f + 6] = After(run[f + 5], ixs[f + 6], m)
           /\ w = 1 => run[f + w + 6] = After(run[f + 6], ixs[f + 7], m)
                       /\ ixs[f + 7] \in Instruction
           /\ w = 0 => run[f + w + 6] = run[f + 6]
           /\ run[f + w + 7] = After(run[f + w + 6], ixs[f + w + 7], m)
           /\ run[f + w + 8] = After(run[f + w + 7], ixs[f + w + 8], m)
           /\ ixs[f + 5] \in Instruction /\ ixs[f + 6] \in Instruction
           /\ ixs[f + w + 7] \in Instruction /\ ixs[f + w + 8] \in Instruction
           /\ Len(ixs) = f + w + 8 /\ Len(ixs) \in Nat /\ DOMAIN ixs = 1 .. Len(ixs)
<1>1. /\ DOMAIN ixs = 1 .. Len(ixs) /\ Len(ixs) \in Nat /\ Len(ixs) = 8 + f + w
      /\ f \in {0, 2} /\ w \in {0, 1}
  BY DEF Canonical
<1>2. \A i \in 1 .. Len(ixs) : run[i] = After(run[i - 1], ixs[i], m) /\ ixs[i] \in Instruction
  BY <1>1 DEF IsRun
<1>3. /\ f + 5 \in 1 .. Len(ixs) /\ f + 5 - 1 = f + 4
      /\ f + 6 \in 1 .. Len(ixs) /\ f + 6 - 1 = f + 5
      /\ f + 7 \in 1 .. Len(ixs) /\ f + 7 - 1 = f + 6
      /\ f + w + 7 \in 1 .. Len(ixs) /\ f + w + 7 - 1 = f + w + 6
      /\ f + w + 8 \in 1 .. Len(ixs) /\ f + w + 8 - 1 = f + w + 7
      /\ Len(ixs) = f + w + 8
  BY <1>1
<1>4. CASE w = 1
  <2>1. f + w + 6 = f + 7
    BY <1>1, <1>4
  <2> QED  BY <1>1, <1>2, <1>3, <1>4, <2>1
<1>5. CASE w = 0
  <2>1. f + w + 6 = f + 6
    BY <1>1, <1>5
  <2> QED  BY <1>1, <1>2, <1>3, <1>5, <2>1
<1> QED  BY <1>1, <1>4, <1>5

\* What a payment that executes has done: the burn covered the amount and the
\* rest went back to the wallet.
Paid(e, shares, payer) ==
    /\ e \in State
    /\ e.bal["sellerUsdc"] = Amount
    /\ e.bal["strangerUsdc"] = 0 /\ e.bal["strangerShares"] = 0
    /\ e.bal["walletUsdc"] >= Before["walletUsdc"]
    /\ WalletShares(e.bal) = WalletShares(Before) - shares
    /\ e.bal["temp"] = 0 /\ e.rent = payer

\* That is what the canonical sequence does, whatever the market, or it fails.
LEMMA CanonicalPays ==
    ASSUME held \in Holdings, NEW ixs \in Seq(Instruction), NEW f, NEW w,
           NEW payer, Canonical(ixs, f, w, payer), NEW m \in Markets, Executed(ixs, m).ok
    PROVE  \E shares \in Nat :
              /\ Paid(Executed(ixs, m), shares, payer)
              /\ ixs[f + 5].n # FullExit => shares = ixs[f + 5].n
<1> DEFINE n == Len(ixs)
<1>1. n \in Nat /\ DOMAIN ixs = 1 .. n
  OBVIOUS
<1>2. PICK run : IsRun(run, ixs, m) /\ Executed(ixs, m) = run[n]
  BY <1>1, ExecutedRuns
<1>3. f \in {0, 2} /\ w \in {0, 1} /\ n = f + w + 8
  BY DEF Canonical
<1>4. \A i \in 0 .. n : run[i].ok
  BY <1>1, <1>2, OkThroughout
<1> DEFINE s == run[f + 4]  r == run[f + 5]  p == run[f + 6]
           q == run[f + w + 6]  c == run[f + w + 7]  e == run[f + w + 8]
           burn == Burn(s, ixs[f + 5])
<1>5. r.ok /\ p.ok /\ q.ok /\ c.ok /\ e.ok
  BY <1>3, <1>4
<1>6. /\ r = After(s, ixs[f + 5], m) /\ p = After(r, ixs[f + 6], m)
      /\ w = 1 => q = After(p, ixs[f + 7], m) /\ ixs[f + 7] \in Instruction
      /\ w = 0 => q = p
      /\ c = After(q, ixs[f + w + 7], m) /\ e = After(c, ixs[f + w + 8], m)
      /\ ixs[f + 5] \in Instruction /\ ixs[f + 6] \in Instruction
      /\ ixs[f + w + 7] \in Instruction /\ ixs[f + w + 8] \in Instruction
  BY <1>2, CanonicalSteps
<1>7. Untouched(s)
  BY <1>2, CanonicalOpens
<1>8. Executed(ixs, m) = e
  BY <1>2, <1>3
<1>9. /\ {"walletShares", "staked", "pending", "temp", "sellerUsdc", "walletUsdc",
         "strangerUsdc", "strangerShares"} \subseteq Accounts
  BY DEF Accounts
<1> HIDE DEF n, s, r, p, q, c, e
<1>10. s \in State /\ s.ok
  BY <1>7 DEF Untouched
<1>11. /\ burn \in Nat /\ r \in State
       /\ \E out \in Nat : Burnt(s, r, "temp", burn, out)
  <2>1. /\ ixs[f + 5].prog = "kvault" /\ ixs[f + 5].op = "withdraw"
        /\ ixs[f + 5].from = "walletShares" /\ ixs[f + 5].to = "temp"
    BY DEF Canonical
  <2>2. burn \in Nat /\ r \in State /\ Burnt(s, r, "temp", burn, Output(burn, m))
    BY <1>5, <1>6, <1>9, <1>10, <2>1, RedeemEffect
  <2>3. Output(burn, m) \in Nat
    BY <2>2, OutputType
  <2> QED  BY <2>2, <2>3
<1>12. PICK out \in Nat : Burnt(s, r, "temp", burn, out)
  BY <1>11
<1>13. p \in State /\ Moved(r, p, "temp", "sellerUsdc", Amount)
  <2>1. /\ ixs[f + 6].op = "transfer" /\ ixs[f + 6].from = "temp"
        /\ ixs[f + 6].to = "sellerUsdc" /\ ixs[f + 6].n = Amount
    BY DEF Canonical
  <2> QED  BY <1>5, <1>6, <1>9, <1>11, <2>1, TransferEffect
<1>14. q \in State /\ \E d \in Nat : Moved(p, q, "temp", "walletUsdc", d)
  <2>1. CASE w = 1
    <3>1. /\ ixs[f + 7].op = "transfer" /\ ixs[f + 7].from = "temp"
          /\ ixs[f + 7].to = "walletUsdc"
      BY <2>1 DEF Canonical
    <3>2. ixs[f + 7].n \in Nat
      BY <1>6, <2>1 DEF Instruction
    <3> QED  BY <1>5, <1>6, <1>9, <1>13, <2>1, <3>1, <3>2, TransferEffect
  <2>2. CASE w = 0
    <3>1. p.bal["temp"] \in Nat /\ p.bal["walletUsdc"] \in Nat
      BY <1>9, <1>13 DEF State
    <3>2. Moved(p, q, "temp", "walletUsdc", 0)
      BY <1>6, <2>2, <3>1 DEF Moved
    <3> QED  BY <1>6, <1>13, <2>2, <3>2
  <2> QED  BY <1>3, <2>1, <2>2
<1>15. PICK d \in Nat : Moved(p, q, "temp", "walletUsdc", d)
  BY <1>14
<1>16. c \in State /\ c.bal = q.bal /\ c.rent = payer /\ q.bal["temp"] = 0
  <2>1. /\ ixs[f + w + 7].op = "close" /\ ixs[f + w + 7].from = "temp"
        /\ ixs[f + w + 7].to = payer
    BY DEF Canonical
  <2> QED  BY <1>5, <1>6, <1>9, <1>14, <2>1, CloseEffect
<1>17. e = c
  <2>1. ixs[f + w + 8].prog = "memo"
    BY DEF Canonical
  <2> QED  BY <1>6, <2>1, InertEffect
<1>18. /\ Before["sellerUsdc"] = 0 /\ Before["strangerUsdc"] = 0
       /\ Before["strangerShares"] = 0 /\ \A a \in Accounts : Before[a] \in Nat
       /\ \A a \in Accounts : s.bal[a] \in Nat
       /\ Amount \in Nat
  BY <1>9, <1>10, StartType, ConstantTypes DEF State
<1>19. /\ s.bal["sellerUsdc"] = 0 /\ s.bal["strangerUsdc"] = 0
       /\ s.bal["strangerShares"] = 0 /\ s.bal["walletUsdc"] = Before["walletUsdc"]
       /\ WalletShares(s.bal) = WalletShares(Before)
  BY <1>7, <1>9, <1>18 DEF Untouched
<1>20. /\ r.bal["walletShares"] = s.bal["walletShares"] - burn
       /\ r.bal["staked"] = s.bal["staked"] /\ r.bal["pending"] = s.bal["pending"]
       /\ r.bal["sellerUsdc"] = 0 /\ r.bal["strangerUsdc"] = 0
       /\ r.bal["strangerShares"] = 0 /\ r.bal["walletUsdc"] = Before["walletUsdc"]
  BY <1>9, <1>12, <1>19 DEF Burnt
<1>21. /\ p.bal["walletShares"] = s.bal["walletShares"] - burn
       /\ p.bal["staked"] = s.bal["staked"] /\ p.bal["pending"] = s.bal["pending"]
       /\ p.bal["sellerUsdc"] = 0 + Amount /\ p.bal["strangerUsdc"] = 0
       /\ p.bal["strangerShares"] = 0 /\ p.bal["walletUsdc"] = Before["walletUsdc"]
  BY <1>9, <1>13, <1>20 DEF Moved
<1>22. /\ q.bal["walletShares"] = s.bal["walletShares"] - burn
       /\ q.bal["staked"] = s.bal["staked"] /\ q.bal["pending"] = s.bal["pending"]
       /\ q.bal["sellerUsdc"] = 0 + Amount /\ q.bal["strangerUsdc"] = 0
       /\ q.bal["strangerShares"] = 0 /\ q.bal["walletUsdc"] = Before["walletUsdc"] + d
  BY <1>9, <1>15, <1>21 DEF Moved
<1>23. WalletShares(q.bal) = WalletShares(Before) - burn
  <2>1. /\ s.bal["walletShares"] \in Nat /\ s.bal["staked"] \in Nat
        /\ s.bal["pending"] \in Nat
    BY <1>9, <1>18
  <2>2. WalletShares(q.bal) = WalletShares(s.bal) - burn
    <3> HIDE DEF burn
    <3> QED  BY <1>11, <1>22, <2>1 DEF WalletShares
  <2> QED  BY <1>19, <2>2
<1>24. q.bal["walletUsdc"] >= Before["walletUsdc"] /\ q.bal["sellerUsdc"] = Amount
  <2>1. Before["walletUsdc"] \in Nat
    BY <1>9, <1>18
  <2> QED  BY <1>18, <1>22, <2>1
<1>25. Paid(Executed(ixs, m), burn, payer)
  <2> HIDE DEF burn
  <2> QED  BY <1>8, <1>16, <1>17, <1>22, <1>23, <1>24 DEF Paid
<1> QED  BY <1>11, <1>25 DEF Burn

\* The validator accepts only that sequence, and no more than the approved shares.
LEMMA AcceptedIsCanonical ==
    ASSUME ShapeOK, PaymentAccepted, intent.amount = Amount
    PROVE  \E f, w : /\ Canonical(offered.ixs, f, w, intent.feePayer)
                     /\ offered.ixs[f + 5].n <= intent.max
                     /\ offered.ixs[f + 5].n # FullExit
<1> DEFINE ixs == offered.ixs
           f == IF Len(ixs) > 4 /\ ixs[5].prog = "farms" THEN 2 ELSE 0
           w == IF Len(ixs) > f + 6 /\ ixs[f + 7].op = "transfer" THEN 1 ELSE 0
<1>1. /\ intent.seller = "sellerUsdc"
      /\ Len(ixs) = 8 + f + w
      /\ BudgetOK(ixs[1]) /\ BudgetOK(ixs[2])
      /\ TempOK(ixs[3], ixs[4])
      /\ f = 2 => UnstakeOK(ixs[5]) /\ FarmWithdrawOK(ixs[6], ixs[5])
      /\ RedeemOK(ixs[f + 5], "temp", FALSE)
      /\ TransferOK(ixs[f + 6], intent.seller, intent.amount)
      /\ w = 1 => SweepOK(ixs[f + 7])
      /\ CloseOK(ixs[f + w + 7])
      /\ MemoOK(ixs[f + w + 8])
  BY DEF PaymentAccepted
<1>2. f \in {0, 2} /\ w \in {0, 1}
  OBVIOUS
<1> HIDE DEF f, w, ixs
<1>3. /\ Canonical(ixs, f, w, intent.feePayer) /\ ixs[f + 5].n <= intent.max
      /\ ixs[f + 5].n # FullExit
  BY <1>1, <1>2 DEF Canonical, BudgetOK, TempOK, UnstakeOK, FarmWithdrawOK, RedeemOK,
     TransferOK, SweepOK, IsTransfer, CloseOK, MemoOK
<1> QED  BY <1>3 DEF ixs

\* An accepted payment pays exactly the amount to the seller, or does nothing.
LEMMA PaymentDoesAsAsked ==
    ASSUME ShapeOK, kind = "payment", IntentAccepted, PaymentAccepted,
           NEW m \in Markets, Executed(offered.ixs, m).ok
    PROVE  AsAsked(Executed(offered.ixs, m))
<1> DEFINE e == Executed(offered.ixs, m)
<1>1. PICK f, w : /\ Canonical(offered.ixs, f, w, intent.feePayer)
                  /\ offered.ixs[f + 5].n <= intent.max /\ offered.ixs[f + 5].n # FullExit
  BY AcceptedIsCanonical DEF IntentAccepted
<1> DEFINE n == offered.ixs[f + 5].n
<1>2. held \in Holdings /\ offered.ixs \in Seq(Instruction) /\ intent.max \in Nat
  BY DEF ShapeOK, Envelopes, Intents
<1>3. Paid(e, n, intent.feePayer)
  BY <1>1, <1>2, CanonicalPays
<1>4. n \in Nat
  <2>1. f + 5 \in DOMAIN offered.ixs
    BY <1>1, <1>2 DEF Canonical
  <2>2. offered.ixs[f + 5] \in Instruction
    BY <1>2, <2>1
  <2> QED  BY <2>2 DEF Instruction
<1>5. \A a \in Accounts : Before[a] \in Nat
  BY <1>2, StartType
<1>6. WalletShares(Before) \in Nat
  BY <1>5 DEF WalletShares, Accounts
<1> HIDE DEF e, n
<1>7. WalletShares(Before) - WalletShares(e.bal) <= intent.max
  <2>1. WalletShares(e.bal) = WalletShares(Before) - n /\ n <= intent.max
    BY <1>1, <1>3 DEF Paid, n
  <2> QED  BY <1>2, <1>4, <1>6, <2>1
<1>8. {a \in Foreign : e.bal[a] > 0} = {"sellerUsdc"}
  BY <1>3, ConstantTypes DEF Paid, Foreign
<1>9. AsAsked(e)
  BY <1>3, <1>7, <1>8 DEF AsAsked, Paid
<1> QED  BY <1>9 DEF e

-----------------------------------------------------------------------------
(* Deposits.                                                                *)

\* A set with one member.
LEMMA OneMember ==
    ASSUME NEW S, IsFiniteSet(S), Cardinality(S) = 1
    PROVE  \E x : S = {x}
BY FS_Singleton

\* The amount has been invested and nothing else has happened.
Deposited(st) ==
    /\ st \in State /\ st.ok
    /\ \A a \in Foreign : st.bal[a] = 0
    /\ st.bal["walletUsdc"] = Before["walletUsdc"] - Amount
    /\ WalletShares(st.bal) >= WalletShares(Before)

\* The deposit itself.
LEMMA InvestDeposits ==
    ASSUME held \in Holdings, NEW st, Untouched(st), NEW ix \in Instruction,
           NEW m \in Markets, ix.prog = "kvault", ix.op = "deposit",
           ix.from = "walletUsdc", ix.n = Amount, After(st, ix, m).ok
    PROVE  Deposited(After(st, ix, m))
<1> DEFINE t == After(st, ix, m)
<1>1. st \in State /\ st.ok
  BY DEF Untouched
<1>2. t \in State /\ t.ok /\ \E shares \in Nat : Invested(st, t, Amount, shares)
  BY <1>1, InvestEffect
<1>3. PICK shares \in Nat : Invested(st, t, Amount, shares)
  BY <1>2
<1> HIDE DEF t
<1>4. /\ {"walletShares", "staked", "pending", "sellerUsdc", "walletUsdc",
          "strangerUsdc", "strangerShares"} \subseteq Accounts
      /\ \A a \in Accounts : st.bal[a] \in Nat
  BY <1>1 DEF Accounts, State
<1>5. /\ Before["sellerUsdc"] = 0 /\ Before["strangerUsdc"] = 0
      /\ Before["strangerShares"] = 0
  BY <1>4, StartType
<1>6. /\ t.bal["sellerUsdc"] = 0 /\ t.bal["strangerUsdc"] = 0
      /\ t.bal["strangerShares"] = 0
      /\ t.bal["walletUsdc"] = Before["walletUsdc"] - Amount
  BY <1>3, <1>4, <1>5 DEF Invested, Untouched
<1>7. /\ t.bal["walletShares"] = st.bal["walletShares"] + shares
      /\ t.bal["staked"] = st.bal["staked"] /\ t.bal["pending"] = st.bal["pending"]
  BY <1>3, <1>4 DEF Invested
<1>8. WalletShares(t.bal) >= WalletShares(st.bal)
  BY <1>4, <1>7 DEF WalletShares
<1>9. WalletShares(t.bal) >= WalletShares(Before)
  BY <1>8 DEF Untouched
<1>10. Deposited(t)
  BY <1>2, <1>6, <1>9 DEF Deposited, Foreign
<1> QED  BY <1>10 DEF t

\* An accepted deposit invests exactly the amount for the wallet, or does nothing.
LEMMA DepositDoesAsAsked ==
    ASSUME ShapeOK, kind = "deposit", IntentAccepted, DepositAccepted,
           NEW m \in Markets, Executed(offered.ixs, m).ok
    PROVE  AsAsked(Executed(offered.ixs, m))
<1> DEFINE ixs == offered.ixs
           n == Len(ixs)
<1>1. /\ held \in Holdings /\ ixs \in Seq(Instruction) /\ intent.amount = Amount
  BY DEF ShapeOK, Envelopes, IntentAccepted
<1>2. n \in Nat /\ DOMAIN ixs = 1 .. n /\ \A i \in 1 .. n : ixs[i] \in Instruction
  <2> HIDE DEF ixs
  <2> QED  BY <1>1
<1>3. IsFiniteSet(Of("kvault"))
  <2>1. Of("kvault") \subseteq 1 .. n /\ IsFiniteSet(1 .. n)
    BY <1>2, FS_Interval DEF Of
  <2> HIDE DEF n
  <2> QED  BY <2>1, FS_Subset
<1>4. PICK k : Of("kvault") = {k}
  BY <1>3, OneMember DEF DepositAccepted
<1>5. k \in 1 .. n /\ \A i \in 1 .. n : ixs[i].prog = "kvault" => i = k
  BY <1>2, <1>4 DEF Of
<1>6. ASSUME NEW i \in 1 .. n
      PROVE  \/ i # k /\ ixs[i].prog \in {"computeBudget", "ata", "memo"}
             \/ /\ i = k /\ ixs[i].prog = "kvault" /\ ixs[i].op = "deposit"
                /\ ixs[i].n = Amount /\ ixs[i].from = "walletUsdc"
  <2>1. CASE ixs[i].prog = "kvault"
    BY <1>1, <1>2, <1>5, <2>1 DEF DepositAccepted
  <2>2. CASE ixs[i].prog # "kvault"
    <3>1. i # k
      BY <1>4, <2>2 DEF Of
    <3>2. ixs[i].prog \in {"computeBudget", "ata", "memo"}
      BY <1>2, <2>2 DEF DepositAccepted
    <3> QED  BY <3>1, <3>2
  <2> QED  BY <2>1, <2>2
<1> HIDE DEF ixs, n
<1>7. PICK run : IsRun(run, ixs, m) /\ Executed(ixs, m) = run[n]
  BY <1>2, ExecutedRuns
<1>8. run[n].ok
  BY <1>7 DEF ixs
<1>9. \A i \in 0 .. n : run[i].ok
  BY <1>2, <1>7, <1>8, OkThroughout
<1> DEFINE P == {i \in 0 .. n : IF i < k THEN Untouched(run[i]) ELSE Deposited(run[i])}
<1>10. 0 \in P
  <2>1. Untouched(run[0]) /\ 0 < k /\ 0 \in 0 .. n
    BY <1>1, <1>2, <1>5, <1>7, StartUntouched DEF IsRun
  <2> QED  BY <2>1
<1>11. ASSUME NEW i \in 1 .. n, i - 1 \in P PROVE i \in P
  <2>1. /\ run[i] = After(run[i - 1], ixs[i], m) /\ run[i].ok /\ ixs[i] \in Instruction
        /\ i \in 0 .. n /\ i \in Nat /\ k \in Nat
    BY <1>2, <1>5, <1>7, <1>9 DEF IsRun
  <2>2. CASE i # k /\ ixs[i].prog \in {"computeBudget", "ata", "memo"}
    <3>1. run[i] = run[i - 1]
      BY <2>1, <2>2, InertEffect
    <3>2. i < k <=> i - 1 < k
      BY <2>1, <2>2
    <3> QED  BY <1>11, <2>1, <3>1, <3>2
  <2>3. CASE /\ i = k /\ ixs[i].prog = "kvault" /\ ixs[i].op = "deposit"
             /\ ixs[i].n = Amount /\ ixs[i].from = "walletUsdc"
    <3>1. i - 1 < k /\ ~(i < k)
      BY <2>1, <2>3
    <3>2. Untouched(run[i - 1])
      BY <1>11, <3>1
    <3>3. Deposited(run[i])
      BY <1>1, <2>1, <2>3, <3>2, InvestDeposits
    <3> QED  BY <2>1, <3>1, <3>3
  <2> QED  BY <1>6, <2>2, <2>3
<1>12. n \in P
  <2>1. \A i \in 0 .. n : i \in P
    <3> HIDE DEF P
    <3> QED  BY <1>2, <1>10, <1>11, EveryPosition
  <2> QED  BY <1>2, <2>1
<1>13. Deposited(run[n])
  BY <1>2, <1>5, <1>12
<1>14. AsAsked(run[n])
  <2>1. /\ \A a \in Foreign : run[n].bal[a] = 0
        /\ run[n].bal["walletUsdc"] = Before["walletUsdc"] - Amount
        /\ WalletShares(run[n].bal) >= WalletShares(Before)
        /\ run[n] \in State
    BY <1>13 DEF Deposited
  <2>2. {a \in Foreign : run[n].bal[a] > 0} = {}
    BY <2>1
  <2>3. /\ WalletShares(run[n].bal) \in Nat /\ WalletShares(Before) \in Nat
    <3>1. run[n].bal \in [Accounts -> Nat] /\ Before \in [Accounts -> Nat]
      BY <1>1, <2>1, StartType DEF State
    <3> QED  BY <3>1, SharesType
  <2>4. WalletShares(Before) - WalletShares(run[n].bal) <= 0
    BY <2>1, <2>3
  <2> QED  BY <2>1, <2>2, <2>4 DEF AsAsked
<1> QED  BY <1>7, <1>14 DEF ixs

-----------------------------------------------------------------------------
(* Withdrawals.                                                             *)

\* Shares have left the wallet only by being burned, and no USDC has.
Withdrawing(st) ==
    /\ st \in State /\ st.ok
    /\ \A a \in Foreign : st.bal[a] = 0
    /\ st.bal["walletUsdc"] >= Before["walletUsdc"]
    /\ WalletShares(st.bal) + st.burned = WalletShares(Before)

\* The redemption itself.
LEMMA RedeemWithdraws ==
    ASSUME held \in Holdings, NEW st, Withdrawing(st), NEW ix \in Instruction,
           NEW m \in Markets, ix.prog = "kvault", ix.op = "withdraw",
           ix.from = "walletShares", ix.to = "walletUsdc", After(st, ix, m).ok
    PROVE  /\ Withdrawing(After(st, ix, m))
           /\ After(st, ix, m).burned = st.burned + Burn(st, ix)
           /\ Burn(st, ix) \in Nat
<1> DEFINE t == After(st, ix, m)
           n == Burn(st, ix)
           out == Output(n, m)
<1>1. st \in State /\ st.ok
  BY DEF Withdrawing
<1>2. /\ {"walletShares", "staked", "pending", "sellerUsdc", "walletUsdc",
          "strangerUsdc", "strangerShares"} \subseteq Accounts
      /\ \A a \in Accounts : st.bal[a] \in Nat
      /\ st.burned \in Nat
  BY <1>1 DEF Accounts, State
<1>3. t \in State /\ t.ok /\ n \in Nat /\ Burnt(st, t, "walletUsdc", n, out)
  BY <1>1, <1>2, RedeemEffect
<1>4. out \in Nat
  <2> HIDE DEF n
  <2> QED  BY <1>3, OutputType
<1>5. Before["walletUsdc"] \in Nat
  BY <1>2, StartType
<1> HIDE DEF t, n, out
<1>6. /\ t.bal["sellerUsdc"] = 0 /\ t.bal["strangerUsdc"] = 0
      /\ t.bal["strangerShares"] = 0
      /\ t.bal["walletUsdc"] = st.bal["walletUsdc"] + out
      /\ t.bal["walletShares"] = st.bal["walletShares"] - n
      /\ t.bal["staked"] = st.bal["staked"] /\ t.bal["pending"] = st.bal["pending"]
      /\ t.burned = st.burned + n
  BY <1>2, <1>3 DEF Burnt, Withdrawing, Foreign
<1>7. t.bal["walletUsdc"] >= Before["walletUsdc"]
  <2>1. st.bal["walletUsdc"] \in Nat /\ st.bal["walletUsdc"] >= Before["walletUsdc"]
    BY <1>2 DEF Withdrawing
  <2> QED  BY <1>4, <1>5, <1>6, <2>1
<1>8. WalletShares(t.bal) + t.burned = WalletShares(st.bal) + st.burned
  <2>1. /\ st.bal["walletShares"] \in Nat /\ st.bal["staked"] \in Nat
        /\ st.bal["pending"] \in Nat
    BY <1>2
  <2> QED  BY <1>2, <1>3, <1>6, <2>1 DEF WalletShares
<1>9. Withdrawing(t)
  <2>1. WalletShares(t.bal) + t.burned = WalletShares(Before)
    BY <1>8 DEF Withdrawing
  <2> QED  BY <1>3, <1>6, <1>7, <2>1 DEF Withdrawing, Foreign
<1> QED  BY <1>3, <1>6, <1>9 DEF t, n

\* The farm's instructions and closing accounts burn nothing.
LEMMA OthersWithdraw ==
    ASSUME NEW st, Withdrawing(st), NEW ix \in Instruction, NEW m,
           \/ ix.prog \in {"computeBudget", "ata", "memo"}
           \/ ix.op = "unstake"
           \/ ix.prog = "farms" /\ ix.op = "withdraw" /\ ix.to = "walletShares"
           \/ ix.op = "close",
           After(st, ix, m).ok
    PROVE  /\ Withdrawing(After(st, ix, m))
           /\ After(st, ix, m).burned = st.burned
<1> DEFINE t == After(st, ix, m)
<1>1. st \in State /\ st.ok
  BY DEF Withdrawing
<1>2. CASE ix.prog \in {"computeBudget", "ata", "memo"}
  <2>1. t = st
    BY <1>2, InertEffect
  <2> QED  BY <2>1
<1>3. CASE \/ ix.op = "unstake"
           \/ ix.prog = "farms" /\ ix.op = "withdraw" /\ ix.to = "walletShares"
  <2>1. /\ t \in State /\ t.ok /\ t.burned = st.burned
        /\ WalletShares(t.bal) = WalletShares(st.bal)
        /\ \A a \in Accounts \ {"walletShares", "staked", "pending"} : t.bal[a] = st.bal[a]
    BY <1>1, <1>3, FarmEffect
  <2>2. "walletUsdc" \in Accounts \ {"walletShares", "staked", "pending"}
        /\ Foreign \subseteq Accounts \ {"walletShares", "staked", "pending"}
    BY DEF Accounts, Foreign
  <2> HIDE DEF t
  <2>3. Withdrawing(t)
    BY <2>1, <2>2 DEF Withdrawing
  <2> QED  BY <2>1, <2>3 DEF t
<1>4. CASE ix.op = "close"
  <2>1. t \in State /\ t.bal = st.bal /\ t.burned = st.burned
    BY <1>1, <1>4, CloseEffect
  <2>2. Withdrawing(t)
    <3> HIDE DEF t
    <3> QED  BY <2>1 DEF Withdrawing, t
  <2> QED  BY <2>1, <2>2
<1> QED  BY <1>2, <1>3, <1>4

\* An accepted withdrawal burns no more than approved and returns what it
\* redeems to the wallet, or does nothing.
LEMMA WithdrawalDoesAsAsked ==
    ASSUME ShapeOK, kind \in Withdrawals, IntentAccepted, PreparedOK, WithdrawalAccepted,
           NEW m \in Markets, Executed(offered.ixs, m).ok
    PROVE  AsAsked(Executed(offered.ixs, m))
<1> DEFINE ixs == offered.ixs
           n == Len(ixs)
<1>1. held \in Holdings /\ ixs \in Seq(Instruction) /\ intent.max \in Nat
  BY DEF ShapeOK, Envelopes, Intents
<1>2. n \in Nat /\ DOMAIN ixs = 1 .. n /\ \A i \in 1 .. n : ixs[i] \in Instruction
  <2> HIDE DEF ixs
  <2> QED  BY <1>1
<1>3. IsFiniteSet(Of("kvault"))
  <2>1. Of("kvault") \subseteq 1 .. n /\ IsFiniteSet(1 .. n)
    BY <1>2, FS_Interval DEF Of
  <2> HIDE DEF n
  <2> QED  BY <2>1, FS_Subset
<1>4. PICK k : Of("kvault") = {k}
  BY <1>3, OneMember DEF WithdrawalAccepted
<1>5. k \in 1 .. n /\ \A i \in 1 .. n : ixs[i].prog = "kvault" => i = k
  BY <1>2, <1>4 DEF Of
<1>6. ASSUME NEW i \in 1 .. n
      PROVE  \/ /\ i # k
                /\ \/ ixs[i].prog \in {"computeBudget", "ata", "memo"}
                   \/ ixs[i].op = "unstake"
                   \/ /\ ixs[i].prog = "farms" /\ ixs[i].op = "withdraw"
                      /\ ixs[i].to = "walletShares"
                   \/ ixs[i].op = "close"
             \/ /\ i = k /\ ixs[i].prog = "kvault" /\ ixs[i].op = "withdraw"
                /\ ixs[i].from = "walletShares" /\ ixs[i].to = "walletUsdc"
                /\ ixs[i].n = FullExit => intent.full
                /\ ixs[i].n # FullExit => ixs[i].n <= intent.max
  <2>1. CASE ixs[i].prog = "kvault"
    <3>1. RedeemOK(ixs[i], "walletUsdc", intent.full)
      BY <1>2, <2>1 DEF WithdrawalAccepted
    <3> QED  BY <1>5, <2>1, <3>1 DEF RedeemOK
  <2>2. CASE ixs[i].prog # "kvault"
    <3>1. i # k
      BY <1>4, <2>2 DEF Of
    <3>2. \/ ixs[i].prog \in {"computeBudget", "ata", "memo"}
          \/ ixs[i].prog = "token" /\ ixs[i].op = "close"
          \/ ixs[i].prog = "farms" /\ (UnstakeOK(ixs[i]) \/ \E u : FarmWithdrawOK(ixs[i], u))
      BY <1>2, <2>2 DEF WithdrawalAccepted
    <3> QED  BY <3>1, <3>2 DEF UnstakeOK, FarmWithdrawOK
  <2> QED  BY <2>1, <2>2
<1> HIDE DEF ixs, n
<1>7. PICK run : IsRun(run, ixs, m) /\ Executed(ixs, m) = run[n]
  BY <1>2, ExecutedRuns
<1>8. run[n].ok
  BY <1>7 DEF ixs
<1>9. \A i \in 0 .. n : run[i].ok
  BY <1>2, <1>7, <1>8, OkThroughout
<1> DEFINE Q(i) == IF i < k THEN run[i].burned = 0
                   ELSE run[i].burned <= intent.max \/ intent.full
           P == {i \in 0 .. n : Withdrawing(run[i]) /\ Q(i)}
<1>10. 0 \in P
  <2>1. /\ run[0] = Start /\ 0 < k /\ 0 \in 0 .. n
        /\ Start \in State /\ Start.ok /\ Start.bal = Before /\ Start.burned = 0
        /\ \A a \in Accounts \ {"walletUsdc", "walletShares", "staked"} : Before[a] = 0
        /\ Before \in [Accounts -> Nat]
    BY <1>1, <1>2, <1>5, <1>7, StartType DEF IsRun
  <2>2. WalletShares(Before) \in Nat
    BY <2>1, SharesType
  <2>3. /\ "walletUsdc" \in Accounts
        /\ Foreign \subseteq Accounts \ {"walletUsdc", "walletShares", "staked"}
    BY DEF Foreign, Accounts
  <2>4. Before["walletUsdc"] >= Before["walletUsdc"]
    BY <2>1, <2>3
  <2>5. Withdrawing(Start)
    BY <2>1, <2>2, <2>3, <2>4 DEF Withdrawing
  <2> QED  BY <2>1, <2>5
<1>11. ASSUME NEW i \in 1 .. n, i - 1 \in P PROVE i \in P
  <2>1. /\ run[i] = After(run[i - 1], ixs[i], m) /\ run[i].ok /\ ixs[i] \in Instruction
        /\ i \in 0 .. n /\ i \in Nat /\ k \in Nat
        /\ Withdrawing(run[i - 1]) /\ Q(i - 1)
    BY <1>2, <1>5, <1>7, <1>9, <1>11 DEF IsRun
  <2>2. CASE /\ i # k
             /\ \/ ixs[i].prog \in {"computeBudget", "ata", "memo"}
                \/ ixs[i].op = "unstake"
                \/ /\ ixs[i].prog = "farms" /\ ixs[i].op = "withdraw"
                   /\ ixs[i].to = "walletShares"
                \/ ixs[i].op = "close"
    <3>1. Withdrawing(run[i]) /\ run[i].burned = run[i - 1].burned
      BY <2>1, <2>2, OthersWithdraw
    <3>2. i < k <=> i - 1 < k
      BY <2>1, <2>2
    <3> QED  BY <2>1, <3>1, <3>2
  <2>3. CASE /\ i = k /\ ixs[i].prog = "kvault" /\ ixs[i].op = "withdraw"
             /\ ixs[i].from = "walletShares" /\ ixs[i].to = "walletUsdc"
             /\ ixs[i].n = FullExit => intent.full
             /\ ixs[i].n # FullExit => ixs[i].n <= intent.max
    <3>1. i - 1 < k /\ ~(i < k)
      BY <2>1, <2>3
    <3>2. run[i - 1].burned = 0
      BY <2>1, <3>1
    <3>3. /\ Withdrawing(run[i]) /\ Burn(run[i - 1], ixs[i]) \in Nat
          /\ run[i].burned = run[i - 1].burned + Burn(run[i - 1], ixs[i])
      BY <1>1, <2>1, <2>3, RedeemWithdraws
    <3>4. run[i].burned <= intent.max \/ intent.full
      <4>1. run[i].burned = Burn(run[i - 1], ixs[i])
        BY <3>2, <3>3
      <4> QED  BY <2>3, <4>1 DEF Burn
    <3> QED  BY <2>1, <3>1, <3>3, <3>4
  <2> QED  BY <1>6, <2>2, <2>3
<1>12. n \in P
  <2>1. \A i \in 0 .. n : i \in P
    <3> HIDE DEF P
    <3> QED  BY <1>2, <1>10, <1>11, EveryPosition
  <2> QED  BY <1>2, <2>1
<1>13. Withdrawing(run[n]) /\ (run[n].burned <= intent.max \/ intent.full)
  BY <1>2, <1>5, <1>12
<1>14. AsAsked(run[n])
  <2>1. /\ \A a \in Foreign : run[n].bal[a] = 0
        /\ run[n].bal["walletUsdc"] >= Before["walletUsdc"]
        /\ WalletShares(run[n].bal) + run[n].burned = WalletShares(Before)
        /\ run[n].burned \in Nat /\ run[n].bal \in [Accounts -> Nat]
    BY <1>13 DEF Withdrawing, State
  <2>2. {a \in Foreign : run[n].bal[a] > 0} = {}
    BY <2>1
  <2>3. WalletShares(Before) - WalletShares(run[n].bal) = run[n].burned
    BY <2>1, SharesType
  <2>4. kind # "payment" /\ kind # "deposit" /\ (kind = "realize" => ~intent.full)
    BY DEF Withdrawals, PreparedOK
  <2> QED  BY <1>13, <2>1, <2>2, <2>3, <2>4 DEF AsAsked
<1> QED  BY <1>7, <1>14 DEF ixs

-----------------------------------------------------------------------------
(* What is built, and what a change makes of it.                            *)

\* The instructions are instructions.
LEMMA InstructionTypes ==
    /\ \A n \in Nat : Limit(n) \in Instruction /\ Price(n) \in Instruction
    /\ \A a \in Names, n \in Nat : CreateTemp(a, n) \in Instruction
    /\ \A a \in Names : InitTemp(a) \in Instruction /\ CreateAta(a) \in Instruction
    /\ Unstake("state") \in Instruction
    /\ \A a, b \in Names : FarmWithdraw(a, b) \in Instruction /\ Close(a, b) \in Instruction
    /\ \A a \in Names, n \in Nat : Redeem(a, n) \in Instruction
    /\ \A a, b \in Names, n \in Nat : /\ Invest(a, b, n) \in Instruction
                                      /\ Transfer(a, b, n) \in Instruction
    /\ Memo("paymentId") \in Instruction /\ Memo("other") \in Instruction
    /\ OtherProgram \in Instruction
<1> USE DEF Instruction, Known, Programs, Operations, Ix
<1>1. \A n \in Nat : Limit(n) \in Instruction /\ Price(n) \in Instruction
  BY DEF Names, Accounts, Limit, Price
<1>9. \A a \in Names, n \in Nat : CreateTemp(a, n) \in Instruction
  <2>1. "temp" \in Names
    BY DEF Names, Accounts
  <2> QED  BY <2>1 DEF CreateTemp
<1>2. \A a \in Names : InitTemp(a) \in Instruction /\ CreateAta(a) \in Instruction
  <2>1. {"usdc", "temp", "none"} \subseteq Names
    BY DEF Names, Accounts
  <2> QED  BY <2>1 DEF InitTemp, CreateAta
<1>3. Unstake("state") \in Instruction
  BY DEF Names, Accounts, Unstake
<1>4. \A a, b \in Names : FarmWithdraw(a, b) \in Instruction /\ Close(a, b) \in Instruction
  <2>1. "wallet" \in Names
    BY DEF Names
  <2> QED  BY <2>1 DEF FarmWithdraw, Close
<1>5. \A a \in Names, n \in Nat : Redeem(a, n) \in Instruction
  <2>1. "wallet" \in Names /\ "walletShares" \in Names
    BY DEF Names, Accounts
  <2> QED  BY <2>1 DEF Redeem
<1>6. \A a, b \in Names, n \in Nat : /\ Invest(a, b, n) \in Instruction
                                     /\ Transfer(a, b, n) \in Instruction
  <2>1. "wallet" \in Names
    BY DEF Names
  <2> QED  BY <2>1 DEF Invest, Transfer
<1>7. Memo("paymentId") \in Instruction /\ Memo("other") \in Instruction
  BY DEF Names, Memo
<1>8. OtherProgram \in Instruction
  BY DEF Names, Accounts, OtherProgram
<1> QED  BY <1>1, <1>2, <1>3, <1>4, <1>5, <1>6, <1>7, <1>8, <1>9

\* What a change may put in.
LEMMA AlphabetType == Alphabet \subseteq Instruction
<1>1. {"stranger", "state", "walletShares", "strangerShares", "other", "walletUsdc",
       "temp", "strangerUsdc", "sellerUsdc", "wallet", "sponsor"} \subseteq Names
  BY DEF Names, Accounts
<1>2. /\ 1 \in Nat /\ 3 \in Nat /\ FullExit \in Nat /\ MaxUnits + 1 \in Nat
      /\ Amount \in Nat /\ Amount + 1 \in Nat
  BY ConstantTypes DEF FullExit
<1>3. /\ Limit(MaxUnits + 1) \in Instruction
      /\ CreateTemp("sponsor", MaxUnits + 1) \in Instruction
      /\ CreateTemp("wallet", 1) \in Instruction
      /\ InitTemp("stranger") \in Instruction /\ CreateAta("stranger") \in Instruction
      /\ Unstake("state") \in Instruction
      /\ FarmWithdraw("state", "walletShares") \in Instruction
      /\ FarmWithdraw("state", "strangerShares") \in Instruction
      /\ FarmWithdraw("other", "walletShares") \in Instruction
  BY <1>1, <1>2, InstructionTypes
<1>4. /\ Redeem("walletUsdc", 1) \in Instruction /\ Redeem("temp", 3) \in Instruction
      /\ Redeem("strangerUsdc", 1) \in Instruction
      /\ Redeem("walletUsdc", FullExit) \in Instruction
      /\ Invest("walletUsdc", "walletShares", Amount) \in Instruction
      /\ Invest("walletUsdc", "strangerShares", Amount) \in Instruction
  BY <1>1, <1>2, InstructionTypes
<1>5. /\ Transfer("temp", "sellerUsdc", Amount + 1) \in Instruction
      /\ Transfer("temp", "walletUsdc", 1) \in Instruction
      /\ Transfer("walletUsdc", "strangerUsdc", 1) \in Instruction
      /\ Transfer("walletUsdc", "sellerUsdc", Amount) \in Instruction
      /\ Close("temp", "stranger") \in Instruction /\ Close("temp", "wallet") \in Instruction
      /\ Close("walletShares", "wallet") \in Instruction
      /\ Memo("other") \in Instruction /\ OtherProgram \in Instruction
  BY <1>1, <1>2, InstructionTypes
<1> QED  BY <1>3, <1>4, <1>5 DEF Alphabet

\* A change to the instructions leaves instructions.
LEMMA EditedType ==
    ASSUME NEW ixs \in Seq(Instruction), NEW i \in 1 .. Len(ixs), NEW x \in Instruction
    PROVE  /\ [ixs EXCEPT ![i] = x] \in Seq(Instruction)
           /\ InsertAt(ixs, i, x) \in Seq(Instruction)
           /\ RemoveAt(ixs, i) \in Seq(Instruction)
<1>1. Len(ixs) \in Nat /\ \A j \in 1 .. Len(ixs) : ixs[j] \in Instruction
  OBVIOUS
<1>2. [ixs EXCEPT ![i] = x] \in Seq(Instruction)
  BY ExceptSeq
<1>3. SubSeq(ixs, 1, i - 1) \in Seq(Instruction)
  <2>1. \A j \in 1 .. (i - 1) : ixs[j] \in Instruction
    BY <1>1
  <2> QED  BY <1>1, <2>1, SubSeqProperties
<1>4. SubSeq(ixs, i, Len(ixs)) \in Seq(Instruction)
  <2>1. \A j \in i .. Len(ixs) : ixs[j] \in Instruction
    BY <1>1
  <2> QED  BY <1>1, <2>1, SubSeqProperties
<1>5. SubSeq(ixs, i + 1, Len(ixs)) \in Seq(Instruction)
  <2>1. \A j \in i + 1 .. Len(ixs) : ixs[j] \in Instruction
    BY <1>1
  <2> QED  BY <1>1, <2>1, SubSeqProperties
<1>6. <<x>> \in Seq(Instruction)
  OBVIOUS
<1>7. SubSeq(ixs, 1, i - 1) \o <<x>> \in Seq(Instruction)
  BY <1>3, <1>6, ConcatProperties
<1>8. InsertAt(ixs, i, x) \in Seq(Instruction)
  BY <1>4, <1>7, ConcatProperties DEF InsertAt
<1>9. RemoveAt(ixs, i) \in Seq(Instruction)
  BY <1>3, <1>5, ConcatProperties DEF RemoveAt
<1> QED  BY <1>2, <1>8, <1>9

\* The gross withdrawal is worth its target.
LEMMA GrossType ==
    ASSUME NEW target \in Nat, target > 0
    PROVE  /\ Gross(target) \in Nat /\ Gross(target) > 0
           /\ NetOf(Gross(target), PenaltyBps, PenaltyLamports) = target
<1> DEFINE g == GrossFloor(target, PenaltyBps, PenaltyLamports)
<1>1. PenaltyBps \in Nat /\ PenaltyLamports \in Nat /\ PenaltyBps < FullBps
  BY ConstantTypes
<1>2. Gross(target) = g
  BY <1>1, GrossWithdrawIsFloor DEF Gross
<1>3. g \in Nat /\ g >= target + PenaltyLamports
  BY <1>1, GrossFloorType
<1>4. /\ NetOf(g, PenaltyBps, PenaltyLamports) >= target
      /\ NetOf(g, PenaltyBps, PenaltyLamports) <= target
  BY <1>1, GrossFloorNetsTarget, GrossFloorNetsNoMore
<1> HIDE DEF g
<1>5. NetOf(g, PenaltyBps, PenaltyLamports) \in Int
  BY <1>1, <1>3, NetType
<1> QED  BY <1>1, <1>2, <1>3, <1>4, <1>5

\* The quote covers the gross withdrawal, and by less than one share.
LEMMA QuoteBounds ==
    ASSUME NEW target \in Nat, target > 0, NEW r \in Rates
    PROVE  /\ Quote(target, r) \in Nat
           /\ Gross(target) * RateScale <= Quote(target, r) * r
           /\ Quote(target, r) * r < Gross(target) * RateScale + r
<1> DEFINE a == Gross(target) * RateScale
           q == CeilDiv(a, r)
<1>1. Gross(target) \in Nat /\ RateScale \in Nat /\ r \in Nat \ {0}
  BY GrossType, ConstantTypes
<1>2. a \in Nat
  BY <1>1
<1>3. Quote(target, r) = q
  BY DEF Quote, SharesToRedeem
<1> HIDE DEF a
<1>4. q \in Nat /\ a <= r * q /\ r * q < a + r
  BY <1>1, <1>2, CeilDivBounds
<1> HIDE DEF q
<1>5. r * q = q * r
  BY <1>1, <1>4
<1> QED  BY <1>3, <1>4, <1>5 DEF a

\* The first burn tried, and the next one.
FirstTry(rate, max) == MinBigInt(Quote(Amount, rate), max)
Raised(s, rate, m, max) ==
    LET deficit == Amount - Output(s, m)
        bump    == MaxBigInt(CeilDiv(deficit * RateScale, rate), 1)
    IN  IF s = 0 \/ deficit <= 0 THEN s ELSE IF s + bump > max THEN 0 ELSE s + bump

\* tried is the burns the probe loop tries.
Tries(tried, rate, m, max) ==
    tried = [n \in 0 .. 3 |-> IF n = 0 THEN FirstTry(rate, max)
                              ELSE Raised(tried[n - 1], rate, m, max)]

\* The loop of the model is the function its definition chooses.
LEMMA ProbeUnfolded ==
    ASSUME NEW rate, NEW m, NEW max
    PROVE  Probe(rate, m, max) =
             LET tried == CHOOSE g : Tries(g, rate, m, max)
             IN  IF Output(tried[3], m) >= Amount THEN tried[3] ELSE 0
BY DEF Probe, Tries, FirstTry, Raised

\* There is such a function.
LEMMA TriesExist ==
    ASSUME NEW rate, NEW m, NEW max
    PROVE  \E tried : Tries(tried, rate, m, max)
<1> DEFINE R(s) == Raised(s, rate, m, max)
           a == FirstTry(rate, max)
           b == R(a)
           c == R(b)
           d == R(c)
           g == [n \in 0 .. 3 |-> IF n = 0 THEN a ELSE IF n = 1 THEN b
                                  ELSE IF n = 2 THEN c ELSE d]
<1>1. g[0] = a /\ g[1] = b /\ g[2] = c /\ g[3] = d
  <2> HIDE DEF a, b, c, d
  <2> QED  OBVIOUS
<1>2. b = R(a) /\ c = R(b) /\ d = R(c)
  OBVIOUS
<1>3. DOMAIN g = 0 .. 3 /\ g = [n \in DOMAIN g |-> g[n]]
  <2> HIDE DEF a, b, c, d
  <2> QED  OBVIOUS
<1> HIDE DEF a, b, c, d, g
<1>4. \A n \in 0 .. 3 : g[n] = IF n = 0 THEN a ELSE R(g[n - 1])
  <2>1. \A n \in 0 .. 3 : n = 0 \/ n = 1 \/ n = 2 \/ n = 3
    OBVIOUS
  <2>2. 1 - 1 = 0 /\ 2 - 1 = 1 /\ 3 - 1 = 2
    OBVIOUS
  <2> HIDE DEF R
  <2> QED  BY <1>1, <1>2, <2>1, <2>2
<1>5. g = [n \in 0 .. 3 |-> IF n = 0 THEN a ELSE R(g[n - 1])]
  <2> HIDE DEF R
  <2> QED  BY <1>3, <1>4
<1>6. Tries(g, rate, m, max)
  BY <1>5 DEF Tries, a
<1> QED  BY <1>6

\* A raised burn is a number within what the signer approves.
LEMMA RaisedBounds ==
    ASSUME NEW rate \in Rates, NEW m \in Markets, NEW max \in Nat, NEW s \in 0 .. max
    PROVE  Raised(s, rate, m, max) \in 0 .. max
<1> DEFINE deficit == Amount - Output(s, m)
           b == CeilDiv(deficit * RateScale, rate)
           bump == MaxBigInt(b, 1)
<1>1. Raised(s, rate, m, max) = IF s = 0 \/ deficit <= 0 THEN s
                                ELSE IF s + bump > max THEN 0 ELSE s + bump
  BY DEF Raised
<1>2. rate \in Nat /\ rate > 0 /\ Amount \in Nat /\ RateScale \in Nat /\ Output(s, m) \in Nat
  BY ConstantTypes, OutputType
<1>3. deficit \in Int
  BY <1>2
<1>4. CASE s = 0 \/ deficit <= 0
  BY <1>1, <1>4
<1>5. CASE ~(s = 0 \/ deficit <= 0)
  <2>1. deficit \in Nat
    BY <1>3, <1>5
  <2> HIDE DEF deficit
  <2>2. deficit * RateScale \in Nat
    BY <1>2, <2>1
  <2>4. b \in Nat
    <3>1. rate \in Nat \ {0}
      BY <1>2
    <3> QED  BY <2>2, <3>1, CeilDivBounds
  <2> HIDE DEF b
  <2>5. bump \in Nat
    BY <2>4 DEF MaxBigInt
  <2> HIDE DEF bump
  <2> QED  BY <1>1, <2>5
<1> QED  BY <1>4, <1>5

\* What the probe settles on is within what the signer approves and covers the
\* payment, or is nothing.
LEMMA ProbeBounds ==
    ASSUME NEW rate \in Rates, NEW m \in Markets, NEW max \in Nat
    PROVE  /\ Probe(rate, m, max) \in 0 .. max
           /\ Probe(rate, m, max) > 0 => Output(Probe(rate, m, max), m) >= Amount
<1> DEFINE tried == CHOOSE g : Tries(g, rate, m, max)
<1>1. Tries(tried, rate, m, max)
  <2>1. \E g : Tries(g, rate, m, max)
    BY TriesExist
  <2> HIDE DEF Tries
  <2> QED  BY <2>1
<1>2. Probe(rate, m, max) = IF Output(tried[3], m) >= Amount THEN tried[3] ELSE 0
  BY ProbeUnfolded
<1> HIDE DEF tried
<1>3. /\ tried[0] = FirstTry(rate, max)
      /\ tried[1] = Raised(tried[0], rate, m, max)
      /\ tried[2] = Raised(tried[1], rate, m, max)
      /\ tried[3] = Raised(tried[2], rate, m, max)
  BY <1>1 DEF Tries
<1>4. tried[0] \in 0 .. max
  <2>1. Quote(Amount, rate) \in Nat
    BY QuoteBounds, ConstantTypes
  <2> QED  BY <1>3, <2>1 DEF FirstTry, MinBigInt
<1>5. tried[1] \in 0 .. max
  BY <1>3, <1>4, RaisedBounds
<1>6. tried[2] \in 0 .. max
  BY <1>3, <1>5, RaisedBounds
<1>7. tried[3] \in 0 .. max
  BY <1>3, <1>6, RaisedBounds
<1> QED  BY <1>2, <1>7

\* One more instruction.
LEMMA OneMore ==
    ASSUME NEW s \in Seq(Instruction), NEW n \in Nat, Len(s) = n, NEW x \in Instruction
    PROVE  /\ s \o <<x>> \in Seq(Instruction) /\ Len(s \o <<x>>) = n + 1
           /\ (s \o <<x>>)[n + 1] = x
           /\ \A i \in 1 .. n : (s \o <<x>>)[i] = s[i]
<1>1. <<x>> \in Seq(Instruction) /\ Len(<<x>>) = 1 /\ <<x>>[1] = x
  OBVIOUS
<1>2. /\ s \o <<x>> \in Seq(Instruction) /\ Len(s \o <<x>>) = n + 1
      /\ \A i \in 1 .. n + 1 : (s \o <<x>>)[i] = IF i <= n THEN s[i] ELSE <<x>>[i - n]
  BY <1>1, ConcatProperties
<1>3. n + 1 \in 1 .. n + 1 /\ ~(n + 1 <= n) /\ (n + 1) - n = 1
  OBVIOUS
<1>4. (s \o <<x>>)[n + 1] = x
  BY <1>1, <1>2, <1>3
<1>5. \A i \in 1 .. n : i \in 1 .. n + 1 /\ i <= n
  OBVIOUS
<1>6. \A i \in 1 .. n : (s \o <<x>>)[i] = s[i]
  BY <1>2, <1>5
<1> QED  BY <1>2, <1>4, <1>6

\* Two more instructions.
LEMMA TwoMore ==
    ASSUME NEW s \in Seq(Instruction), NEW n \in Nat, Len(s) = n,
           NEW x \in Instruction, NEW y \in Instruction
    PROVE  /\ s \o <<x, y>> \in Seq(Instruction) /\ Len(s \o <<x, y>>) = n + 2
           /\ (s \o <<x, y>>)[n + 1] = x /\ (s \o <<x, y>>)[n + 2] = y
           /\ \A i \in 1 .. n : (s \o <<x, y>>)[i] = s[i]
<1> DEFINE t == <<x, y>>
<1>1. t \in Seq(Instruction) /\ Len(t) = 2 /\ t[1] = x /\ t[2] = y
  OBVIOUS
<1> HIDE DEF t
<1>2. /\ s \o t \in Seq(Instruction) /\ Len(s \o t) = n + 2
      /\ \A i \in 1 .. n + 2 : (s \o t)[i] = IF i <= n THEN s[i] ELSE t[i - n]
  <2>1. /\ s \o t \in Seq(Instruction) /\ Len(s \o t) = Len(s) + Len(t)
        /\ \A i \in 1 .. Len(s) + Len(t) :
             (s \o t)[i] = IF i <= Len(s) THEN s[i] ELSE t[i - Len(s)]
    BY <1>1, ConcatProperties
  <2> QED  BY <1>1, <2>1
<1>3. /\ n + 1 \in 1 .. n + 2 /\ ~(n + 1 <= n) /\ (n + 1) - n = 1
      /\ n + 2 \in 1 .. n + 2 /\ ~(n + 2 <= n) /\ (n + 2) - n = 2
  OBVIOUS
<1>4. (s \o t)[n + 1] = x /\ (s \o t)[n + 2] = y
  BY <1>1, <1>2, <1>3
<1>5. \A i \in 1 .. n : i \in 1 .. n + 2 /\ i <= n
  OBVIOUS
<1>6. \A i \in 1 .. n : (s \o t)[i] = s[i]
  BY <1>2, <1>5
<1> QED  BY <1>2, <1>4, <1>6 DEF t

\* The farm pair after the instructions s.
LEMMA FarmPairAfter ==
    ASSUME NEW s \in Seq(Instruction), NEW shares
    PROVE  LET f == IF shares > Before["walletShares"] THEN 2 ELSE 0
               t == s \o FarmPair(shares)
           IN  /\ t \in Seq(Instruction) /\ Len(t) = Len(s) + f
               /\ f = 2 => /\ t[Len(s) + 1] = Unstake("state")
                           /\ t[Len(s) + 2] = FarmWithdraw("state", "walletShares")
               /\ \A i \in 1 .. Len(s) : t[i] = s[i]
<1>1. /\ Unstake("state") \in Instruction
      /\ FarmWithdraw("state", "walletShares") \in Instruction
  BY InstructionTypes DEF Names, Accounts
<1>2. CASE shares > Before["walletShares"]
  <2>1. FarmPair(shares) = <<Unstake("state"), FarmWithdraw("state", "walletShares")>>
    BY <1>2 DEF FarmPair
  <2> QED  BY <1>1, <1>2, <2>1, TwoMore
<1>3. CASE ~(shares > Before["walletShares"])
  <2>1. FarmPair(shares) = <<>>
    BY <1>3 DEF FarmPair
  <2>2. s \o FarmPair(shares) = s
    BY <2>1, ConcatEmptySeq
  <2> QED  BY <1>3, <2>2
<1> QED  BY <1>2, <1>3

\* The instructions of the canonical settlement, one by one.
Laid(ixs, f, w, shares, dust) ==
    /\ f \in {0, 2} /\ w \in {0, 1} /\ Len(ixs) = 8 + f + w
    /\ ixs[1] = Limit(1) /\ ixs[2] = Price(1)
    /\ ixs[3] = CreateTemp("sponsor", 1) /\ ixs[4] = InitTemp("wallet")
    /\ f = 2 => /\ ixs[5] = Unstake("state")
                /\ ixs[6] = FarmWithdraw("state", "walletShares")
    /\ ixs[f + 5] = Redeem("temp", shares)
    /\ ixs[f + 6] = Transfer("temp", "sellerUsdc", Amount)
    /\ w = 1 => ixs[f + 7] = Transfer("temp", "walletUsdc", dust)
    /\ ixs[f + w + 7] = Close("temp", "sponsor")
    /\ ixs[f + w + 8] = Memo("paymentId")

\* That is what the builder lays out.
LEMMA SettlementLaid ==
    ASSUME NEW shares \in Nat, NEW m \in Markets
    PROVE  LET dust == Output(shares, m) - Amount
               f == IF shares > Before["walletShares"] THEN 2 ELSE 0
               w == IF dust > 0 THEN 1 ELSE 0
               ixs == CanonicalSettlement(shares, m)
           IN  ixs \in Seq(Instruction) /\ Laid(ixs, f, w, shares, dust)
<1> DEFINE dust == Output(shares, m) - Amount
           f == IF shares > Before["walletShares"] THEN 2 ELSE 0
           w == IF dust > 0 THEN 1 ELSE 0
           A == <<Limit(1), Price(1), CreateTemp("sponsor", 1), InitTemp("wallet")>>
           B == A \o FarmPair(shares)
           C == B \o <<Redeem("temp", shares)>>
           D == C \o <<Transfer("temp", "sellerUsdc", Amount)>>
           E == D \o (IF dust > 0 THEN <<Transfer("temp", "walletUsdc", dust)>> ELSE <<>>)
           F == E \o <<Close("temp", "sponsor"), Memo("paymentId")>>
<1>1. CanonicalSettlement(shares, m) = F
  BY DEF CanonicalSettlement
<1>2. /\ Limit(1) \in Instruction /\ Price(1) \in Instruction
      /\ CreateTemp("sponsor", 1) \in Instruction /\ InitTemp("wallet") \in Instruction
      /\ Redeem("temp", shares) \in Instruction
      /\ Transfer("temp", "sellerUsdc", Amount) \in Instruction
      /\ \A d \in Nat : Transfer("temp", "walletUsdc", d) \in Instruction
      /\ Close("temp", "sponsor") \in Instruction /\ Memo("paymentId") \in Instruction
  <2>1. /\ {"wallet", "temp", "sellerUsdc", "walletUsdc", "sponsor"} \subseteq Names
        /\ 1 \in Nat /\ Amount \in Nat
    BY ConstantTypes DEF Names, Accounts
  <2> QED  BY <2>1, InstructionTypes
<1>3. dust > 0 => dust \in Nat
  <2>1. Output(shares, m) \in Nat /\ Amount \in Nat
    BY OutputType, ConstantTypes
  <2> QED  BY <2>1
<1>4. /\ A \in Seq(Instruction) /\ Len(A) = 4
      /\ A[1] = Limit(1) /\ A[2] = Price(1) /\ A[3] = CreateTemp("sponsor", 1)
      /\ A[4] = InitTemp("wallet")
  BY <1>2
<1>5. f \in {0, 2} /\ w \in {0, 1}
  OBVIOUS
<1> HIDE DEF A
<1>6. /\ B \in Seq(Instruction) /\ Len(B) = 4 + f
      /\ f = 2 => B[4 + 1] = Unstake("state") /\ B[4 + 2] = FarmWithdraw("state", "walletShares")
      /\ \A i \in 1 .. 4 : B[i] = A[i]
  <2>1. /\ B \in Seq(Instruction) /\ Len(B) = Len(A) + f
        /\ f = 2 => /\ B[Len(A) + 1] = Unstake("state")
                    /\ B[Len(A) + 2] = FarmWithdraw("state", "walletShares")
        /\ \A i \in 1 .. Len(A) : B[i] = A[i]
    BY <1>4, FarmPairAfter
  <2> HIDE DEF f, B
  <2> QED  BY <1>4, <2>1
<1> HIDE DEF B, f
<1>7. /\ C \in Seq(Instruction) /\ Len(C) = 4 + f + 1
      /\ C[4 + f + 1] = Redeem("temp", shares)
      /\ \A i \in 1 .. 4 + f : C[i] = B[i]
  <2>1. 4 + f \in Nat
    BY <1>5
  <2> QED  BY <1>2, <1>6, <2>1, OneMore
<1> HIDE DEF C
<1>8. /\ D \in Seq(Instruction) /\ Len(D) = 5 + f + 1
      /\ D[5 + f + 1] = Transfer("temp", "sellerUsdc", Amount)
      /\ \A i \in 1 .. 5 + f : D[i] = C[i]
  <2>1. 5 + f \in Nat /\ Len(C) = 5 + f
    BY <1>5, <1>7
  <2> QED  BY <1>2, <1>7, <2>1, OneMore
<1> HIDE DEF D
<1>9. /\ E \in Seq(Instruction) /\ Len(E) = 6 + f + w
      /\ w = 1 => E[6 + f + 1] = Transfer("temp", "walletUsdc", dust)
      /\ \A i \in 1 .. 6 + f : E[i] = D[i]
  <2>1. 6 + f \in Nat /\ Len(D) = 6 + f
    BY <1>5, <1>8
  <2>2. CASE dust > 0
    <3>1. E = D \o <<Transfer("temp", "walletUsdc", dust)>> /\ w = 1
      BY <2>2
    <3>2. Transfer("temp", "walletUsdc", dust) \in Instruction
      BY <1>2, <1>3, <2>2
    <3> HIDE DEF E, w, dust
    <3> QED  BY <1>8, <2>1, <3>1, <3>2, OneMore
  <2>3. CASE ~(dust > 0)
    <3>1. E = D \o <<>> /\ w = 0
      BY <2>3
    <3>2. E = D
      BY <1>8, <3>1, ConcatEmptySeq
    <3> HIDE DEF E, w, dust
    <3> QED  BY <1>8, <2>1, <3>1, <3>2
  <2> QED  BY <2>2, <2>3
<1> HIDE DEF E, w, dust
<1>10. /\ F \in Seq(Instruction) /\ Len(F) = 6 + f + w + 2
       /\ F[6 + f + w + 1] = Close("temp", "sponsor")
       /\ F[6 + f + w + 2] = Memo("paymentId")
       /\ \A i \in 1 .. 6 + f + w : F[i] = E[i]
  <2>1. 6 + f + w \in Nat
    BY <1>5
  <2> QED  BY <1>2, <1>9, <2>1, TwoMore
<1> HIDE DEF F
<1>11. /\ \A i \in 1 .. 4 : F[i] = A[i]
       /\ \A i \in 1 .. 4 + f : F[i] = B[i]
       /\ F[5 + f] = C[5 + f]
       /\ F[6 + f] = D[6 + f]
       /\ w = 1 => F[7 + f] = E[7 + f]
  <2>1. /\ \A i \in 1 .. 6 + f : i \in 1 .. 6 + f + w
        /\ \A i \in 1 .. 5 + f : i \in 1 .. 6 + f
        /\ \A i \in 1 .. 4 + f : i \in 1 .. 5 + f
        /\ \A i \in 1 .. 4 : i \in 1 .. 4 + f
        /\ 5 + f \in 1 .. 5 + f /\ 6 + f \in 1 .. 6 + f
        /\ w = 1 => 7 + f \in 1 .. 6 + f + w
    BY <1>5
  <2>2. \A i \in 1 .. 6 + f : F[i] = D[i]
    BY <1>9, <1>10, <2>1
  <2>3. \A i \in 1 .. 5 + f : F[i] = C[i]
    BY <1>8, <2>1, <2>2
  <2>4. \A i \in 1 .. 4 + f : F[i] = B[i]
    BY <1>7, <2>1, <2>3
  <2>5. \A i \in 1 .. 4 : F[i] = A[i]
    BY <1>6, <2>1, <2>4
  <2>6. w = 1 => F[7 + f] = E[7 + f]
    BY <1>10, <2>1
  <2> QED  BY <2>1, <2>2, <2>3, <2>4, <2>5, <2>6
<1>12. Laid(F, f, w, shares, dust)
  <2>1. /\ 4 + f + 1 = 5 + f /\ 5 + f + 1 = 6 + f /\ 6 + f + 1 = 7 + f
        /\ f + 5 = 5 + f /\ f + 6 = 6 + f /\ f + 7 = 7 + f
        /\ f + w + 7 = 6 + f + w + 1 /\ f + w + 8 = 6 + f + w + 2
        /\ 8 + f + w = 6 + f + w + 2 /\ 4 + 1 = 5 /\ 4 + 2 = 6
    BY <1>5
  <2>2. F[1] = Limit(1) /\ F[2] = Price(1) /\ F[3] = CreateTemp("sponsor", 1) /\ F[4] = InitTemp("wallet")
    BY <1>4, <1>11
  <2>3. f = 2 => F[5] = Unstake("state") /\ F[6] = FarmWithdraw("state", "walletShares")
    <3>1. f = 2 => 5 \in 1 .. 4 + f /\ 6 \in 1 .. 4 + f
      OBVIOUS
    <3> QED  BY <1>6, <1>11, <2>1, <3>1
  <2>4. /\ F[f + 5] = Redeem("temp", shares)
        /\ F[f + 6] = Transfer("temp", "sellerUsdc", Amount)
        /\ w = 1 => F[f + 7] = Transfer("temp", "walletUsdc", dust)
    BY <1>7, <1>8, <1>9, <1>11, <2>1
  <2>5. /\ F[f + w + 7] = Close("temp", "sponsor") /\ F[f + w + 8] = Memo("paymentId")
        /\ Len(F) = 8 + f + w
    BY <1>10, <2>1
  <2> QED  BY <1>5, <2>2, <2>3, <2>4, <2>5 DEF Laid
<1> QED  BY <1>1, <1>10, <1>12 DEF f, w, dust

\* The settlement that is laid out is the one the validator expects.
LEMMA LaidIsCanonical ==
    ASSUME NEW ixs, NEW f, NEW w, NEW shares, NEW dust, Laid(ixs, f, w, shares, dust)
    PROVE  Canonical(ixs, f, w, "sponsor") /\ ixs[f + 5].n = shares
BY DEF Laid, Canonical, Limit, Price, CreateTemp, InitTemp, Unstake, FarmWithdraw,
   Redeem, Transfer, Close, Memo, Ix

\* The instructions of a withdrawal, one by one.
Exits(ixs, f, x, n) ==
    /\ f \in {0, 2} /\ x \in {0, 1} /\ Len(ixs) = 4 + f + x
    /\ ixs[1] = Limit(1) /\ ixs[2] = Price(1) /\ ixs[3] = CreateAta("wallet")
    /\ f = 2 => /\ ixs[4] = Unstake("state")
                /\ ixs[5] = FarmWithdraw("state", "walletShares")
    /\ ixs[f + 4] = Redeem("walletUsdc", n)
    /\ x = 1 => ixs[f + 5] = Close("walletShares", "wallet")

\* That is what is built.
LEMMA WithdrawalLaid ==
    ASSUME NEW shares \in Nat, NEW exit \in BOOLEAN, NEW n \in Nat
    PROVE  LET f == IF shares > Before["walletShares"] THEN 2 ELSE 0
               x == IF exit THEN 1 ELSE 0
               ixs == <<Limit(1), Price(1), CreateAta("wallet")>> \o FarmPair(shares)
                      \o <<Redeem("walletUsdc", n)>>
                      \o (IF exit THEN <<Close("walletShares", "wallet")>> ELSE <<>>)
           IN  ixs \in Seq(Instruction) /\ Exits(ixs, f, x, n)
<1> DEFINE f == IF shares > Before["walletShares"] THEN 2 ELSE 0
           x == IF exit THEN 1 ELSE 0
           A == <<Limit(1), Price(1), CreateAta("wallet")>>
           B == A \o FarmPair(shares)
           C == B \o <<Redeem("walletUsdc", n)>>
           D == C \o (IF exit THEN <<Close("walletShares", "wallet")>> ELSE <<>>)
<1>2. /\ Limit(1) \in Instruction /\ Price(1) \in Instruction
      /\ CreateAta("wallet") \in Instruction
      /\ Redeem("walletUsdc", n) \in Instruction
      /\ Close("walletShares", "wallet") \in Instruction
  <2>1. {"wallet", "walletShares", "walletUsdc"} \subseteq Names /\ 1 \in Nat
    BY DEF Names, Accounts
  <2> QED  BY <2>1, InstructionTypes
<1>4. /\ A \in Seq(Instruction) /\ Len(A) = 3
      /\ A[1] = Limit(1) /\ A[2] = Price(1) /\ A[3] = CreateAta("wallet")
  BY <1>2
<1>5. f \in {0, 2} /\ x \in {0, 1}
  OBVIOUS
<1> HIDE DEF A
<1>6. /\ B \in Seq(Instruction) /\ Len(B) = 3 + f
      /\ f = 2 => B[4] = Unstake("state") /\ B[5] = FarmWithdraw("state", "walletShares")
      /\ \A i \in 1 .. 3 : B[i] = A[i]
  <2>1. /\ B \in Seq(Instruction) /\ Len(B) = Len(A) + f
        /\ f = 2 => /\ B[Len(A) + 1] = Unstake("state")
                    /\ B[Len(A) + 2] = FarmWithdraw("state", "walletShares")
        /\ \A i \in 1 .. Len(A) : B[i] = A[i]
    BY <1>4, FarmPairAfter
  <2> HIDE DEF f, B
  <2> QED  BY <1>4, <2>1
<1> HIDE DEF B, f
<1>7. /\ C \in Seq(Instruction) /\ Len(C) = 3 + f + 1
      /\ C[3 + f + 1] = Redeem("walletUsdc", n)
      /\ \A i \in 1 .. 3 + f : C[i] = B[i]
  <2>1. 3 + f \in Nat
    BY <1>5
  <2> QED  BY <1>2, <1>6, <2>1, OneMore
<1> HIDE DEF C
<1>8. /\ D \in Seq(Instruction) /\ Len(D) = 4 + f + x
      /\ x = 1 => D[4 + f + 1] = Close("walletShares", "wallet")
      /\ \A i \in 1 .. 4 + f : D[i] = C[i]
  <2>1. 4 + f \in Nat /\ Len(C) = 4 + f
    BY <1>5, <1>7
  <2>2. CASE exit
    <3>1. D = C \o <<Close("walletShares", "wallet")>> /\ x = 1
      BY <2>2
    <3> HIDE DEF D, x
    <3> QED  BY <1>2, <1>7, <2>1, <3>1, OneMore
  <2>3. CASE ~exit
    <3>1. D = C \o <<>> /\ x = 0
      BY <2>3
    <3>2. D = C
      BY <1>7, <3>1, ConcatEmptySeq
    <3> HIDE DEF D, x
    <3> QED  BY <1>7, <2>1, <3>1, <3>2
  <2> QED  BY <2>2, <2>3
<1> HIDE DEF D, x
<1>9. Exits(D, f, x, n)
  <2>1. /\ \A i \in 1 .. 3 + f : i \in 1 .. 4 + f
        /\ \A i \in 1 .. 3 : i \in 1 .. 3 + f
        /\ 4 + f \in 1 .. 4 + f /\ 3 + f + 1 = 4 + f /\ f + 4 = 4 + f /\ f + 5 = 4 + f + 1
        /\ f = 2 => 4 \in 1 .. 3 + f /\ 5 \in 1 .. 3 + f
    BY <1>5
  <2>2. \A i \in 1 .. 3 + f : D[i] = B[i]
    BY <1>7, <1>8, <2>1
  <2>3. \A i \in 1 .. 3 : D[i] = A[i]
    BY <1>6, <2>1, <2>2
  <2>4. D[1] = Limit(1) /\ D[2] = Price(1) /\ D[3] = CreateAta("wallet")
    BY <1>4, <2>3
  <2>5. f = 2 => D[4] = Unstake("state") /\ D[5] = FarmWithdraw("state", "walletShares")
    BY <1>6, <2>1, <2>2
  <2>6. /\ D[f + 4] = Redeem("walletUsdc", n)
        /\ x = 1 => D[f + 5] = Close("walletShares", "wallet")
    BY <1>7, <1>8, <2>1
  <2> QED  BY <1>5, <1>8, <2>4, <2>5, <2>6 DEF Exits
<1> QED  BY <1>8, <1>9 DEF D, C, B, A, f, x

-----------------------------------------------------------------------------
(* The invariant.                                                           *)

\* What the client checked, without the preview of a withdrawal.
Checked ==
    /\ IntentAccepted
    /\ CASE kind = "payment" -> PaymentAccepted
         [] kind = "deposit" -> DepositAccepted
         [] OTHER -> PreparedOK /\ WithdrawalAccepted

\* The relayer builds canonical settlements within the shares it asks for.
CanonicalBuilt ==
    kind = "payment" =>
        \E f, w : Canonical(built, f, w, "sponsor") /\ built[f + 5].n <= intent.max

SignedChecked == stage = "signed" => Checked
SettledIsBuilt == stage = "settled" => offered.ixs = built

IntentInv == ShapeOK /\ CanonicalBuilt /\ SignedChecked /\ SettledIsBuilt

\* An intent and an envelope are what their types say.
LEMMA BuildTypes ==
    /\ \A max \in Nat : Intent(max) \in Intents /\ Intent(max).max = max
    /\ \A max \in Nat, exit \in BOOLEAN : [Intent(max) EXCEPT !.full = exit] \in Intents
    /\ \A ixs \in Seq(Instruction) : Envelope(ixs) \in Envelopes /\ Envelope(ixs).ixs = ixs
<1>1. {"pinned", "sellerUsdc", "sponsor", "expected"} \subseteq Names
  BY DEF Names, Accounts
<1>2. Amount \in Nat
  BY ConstantTypes
<1>3. \A max \in Nat : Intent(max) \in Intents /\ Intent(max).max = max
  BY <1>1, <1>2 DEF Intent, Intents
<1>4. \A max \in Nat, exit \in BOOLEAN : [Intent(max) EXCEPT !.full = exit] \in Intents
  BY <1>3 DEF Intents
<1>5. \A ixs \in Seq(Instruction) : Envelope(ixs) \in Envelopes /\ Envelope(ixs).ixs = ixs
  BY <1>1 DEF Envelope, Envelopes
<1> QED  BY <1>3, <1>4, <1>5

\* What Build establishes.
LEMMA BuildShape ==
    ASSUME held \in Holdings, NEW k \in Kinds, NEW ixs \in Seq(Instruction),
           NEW i \in Intents, NEW m \in Markets, Build(k, ixs, i, m)
    PROVE  /\ ShapeOK /\ kind = k /\ built = ixs /\ intent = i /\ stage = "offered"
<1>1. Envelope(ixs) \in Envelopes
  BY BuildTypes
<1> QED  BY <1>1 DEF Build, ShapeOK, Stages

\* It holds of what is built.
LEMMA InitInv ==
    ASSUME Init
    PROVE  IntentInv
<1>1. held \in Holdings /\ (BuildPayment \/ BuildDeposit \/ \E k \in Withdrawals : BuildWithdrawal(k))
  BY DEF Init, Withdrawals
<1>2. CASE BuildPayment
  <2>1. PICK quoted \in Rates, rate \in Rates, m \in Markets :
          Build("payment", CanonicalSettlement(ProbeShares(quoted, rate, m), m),
                Intent(Quote(Amount, quoted) + Margin), m)
    BY <1>2 DEF BuildPayment
  <2> DEFINE max == Quote(Amount, quoted) + Margin
             shares == ProbeShares(quoted, rate, m)
             ixs == CanonicalSettlement(shares, m)
             dust == Output(shares, m) - Amount
             f == IF shares > Before["walletShares"] THEN 2 ELSE 0
             w == IF dust > 0 THEN 1 ELSE 0
  <2>2. max \in Nat
    BY QuoteBounds, ConstantTypes
  <2>3. shares \in 0 .. max
    <3> HIDE DEF max
    <3>1. shares = Probe(rate, m, max)
      BY DEF ProbeShares, max
    <3> HIDE DEF shares
    <3> QED  BY <2>2, <3>1, ProbeBounds
  <2> HIDE DEF max, shares
  <2>4. shares \in Nat /\ shares <= max
    BY <2>2, <2>3
  <2>5. ixs \in Seq(Instruction) /\ Laid(ixs, f, w, shares, dust)
    BY <2>4, SettlementLaid
  <2> HIDE DEF ixs, f, w, dust
  <2>6. Canonical(ixs, f, w, "sponsor") /\ ixs[f + 5].n = shares
    BY <2>5, LaidIsCanonical
  <2>7. Build("payment", ixs, Intent(max), m)
    BY <2>1 DEF ixs, max, shares
  <2>8. Intent(max) \in Intents /\ Intent(max).max = max /\ "payment" \in Kinds
    BY <2>2, BuildTypes DEF Kinds
  <2>9. ShapeOK /\ built = ixs /\ intent = Intent(max) /\ stage = "offered"
    BY <1>1, <2>5, <2>7, <2>8, BuildShape
  <2> QED  BY <2>4, <2>6, <2>8, <2>9 DEF IntentInv, CanonicalBuilt, SignedChecked, SettledIsBuilt
<1>3. CASE BuildDeposit
  <2> DEFINE ixs == <<Limit(1), Price(1), CreateAta("wallet"),
                      Invest("walletUsdc", "walletShares", Amount)>>
  <2>1. PICK m \in Markets : Build("deposit", ixs, Intent(0), m)
    BY <1>3 DEF BuildDeposit
  <2>2. ixs \in Seq(Instruction)
    <3>1. {"wallet", "walletShares", "walletUsdc"} \subseteq Names /\ 1 \in Nat /\ Amount \in Nat
      BY ConstantTypes DEF Names, Accounts
    <3>2. /\ Limit(1) \in Instruction /\ Price(1) \in Instruction
          /\ CreateAta("wallet") \in Instruction
          /\ Invest("walletUsdc", "walletShares", Amount) \in Instruction
      BY <3>1, InstructionTypes
    <3> QED  BY <3>2
  <2> HIDE DEF ixs
  <2>3. Intent(0) \in Intents /\ "deposit" \in Kinds
    BY BuildTypes DEF Kinds
  <2>4. ShapeOK /\ kind = "deposit" /\ stage = "offered"
    BY <1>1, <2>1, <2>2, <2>3, BuildShape
  <2> QED  BY <2>4 DEF IntentInv, CanonicalBuilt, SignedChecked, SettledIsBuilt
<1>4. ASSUME NEW k \in Withdrawals, BuildWithdrawal(k) PROVE IntentInv
  <2>1. PICK m \in Markets :
          LET n    == RequestedShares(k, m.rate)
              exit == n >= WalletShares(Before)
          IN  Build(k,
                    <<Limit(1), Price(1), CreateAta("wallet")>> \o FarmPair(n)
                    \o <<Redeem("walletUsdc", IF exit THEN FullExit ELSE n)>>
                    \o (IF exit THEN <<Close("walletShares", "wallet")>> ELSE <<>>),
                    [Intent(n) EXCEPT !.full = exit], m)
    BY <1>4 DEF BuildWithdrawal
  <2> DEFINE n == RequestedShares(k, m.rate)
             exit == n >= WalletShares(Before)
             burn == IF exit THEN FullExit ELSE n
             ixs == <<Limit(1), Price(1), CreateAta("wallet")>> \o FarmPair(n)
                    \o <<Redeem("walletUsdc", burn)>>
                    \o (IF exit THEN <<Close("walletShares", "wallet")>> ELSE <<>>)
             i == [Intent(n) EXCEPT !.full = exit]
  <2>2. n \in Nat /\ exit \in BOOLEAN
    <3>1. m.rate \in Rates /\ Target(k) \in Nat /\ Target(k) > 0
      BY TargetType DEF Markets
    <3>2. Quote(Target(k), m.rate) \in Nat /\ WalletShares(Before) \in Nat
      BY <1>1, <3>1, QuoteBounds, StartType, SharesType
    <3> QED  BY <3>2 DEF RequestedShares, MinBigInt
  <2>3. Build(k, ixs, i, m)
    BY <2>1
  <2> HIDE DEF n, exit
  <2>4. burn \in Nat
    BY <2>2 DEF FullExit
  <2> HIDE DEF burn
  <2>5. ixs \in Seq(Instruction)
    BY <2>2, <2>4, WithdrawalLaid
  <2>6. i \in Intents /\ k \in Kinds /\ k # "payment"
    BY <2>2, BuildTypes DEF Kinds, Withdrawals
  <2> HIDE DEF ixs, i
  <2>7. ShapeOK /\ kind = k /\ stage = "offered"
    BY <1>1, <2>3, <2>5, <2>6, BuildShape
  <2> QED  BY <2>6, <2>7 DEF IntentInv, CanonicalBuilt, SignedChecked, SettledIsBuilt
<1> QED  BY <1>1, <1>2, <1>3, <1>4

\* A change leaves a transaction and an intent, and never raises the burn that
\* the intent approves.
LEMMA EditShape ==
    ASSUME ShapeOK, Edit
    PROVE  /\ ShapeOK' /\ stage' = "offered" /\ kind' = kind /\ built' = built
           /\ intent'.max = intent.max /\ edits' = edits + 1
<1>1. /\ stage = "offered" /\ edits' = edits + 1 /\ kind' = kind /\ held' = held
      /\ built' = built /\ seen' = seen /\ stage' = stage
      /\ EditInstructions \/ EditEnvelope \/ EditIntent
  BY DEF Edit
<1>2. offered \in Envelopes /\ intent \in Intents /\ edits \in Nat
  BY DEF ShapeOK
<1>3. offered' \in Envelopes /\ intent' \in Intents /\ intent'.max = intent.max
  <2>1. CASE EditInstructions
    <3> DEFINE ixs == offered.ixs
    <3>1. ixs \in Seq(Instruction)
      BY <1>2 DEF Envelopes
    <3>2. PICK i \in 1 .. Len(ixs) :
            \/ \E x \in Alphabet :
                 \/ offered' = [offered EXCEPT !.ixs[i] = x]
                 \/ offered' = [offered EXCEPT !.ixs = InsertAt(ixs, i, x)]
            \/ offered' = [offered EXCEPT !.ixs = RemoveAt(ixs, i)]
      BY <2>1 DEF EditInstructions
    <3>3. \E s \in Seq(Instruction) : offered' = [offered EXCEPT !.ixs = s]
      <4>1. CASE \E x \in Alphabet : \/ offered' = [offered EXCEPT !.ixs[i] = x]
                                     \/ offered' = [offered EXCEPT !.ixs = InsertAt(ixs, i, x)]
        <5>1. PICK x \in Alphabet : \/ offered' = [offered EXCEPT !.ixs[i] = x]
                                    \/ offered' = [offered EXCEPT !.ixs = InsertAt(ixs, i, x)]
          BY <4>1
        <5>2. x \in Instruction
          BY AlphabetType
        <5>3. [ixs EXCEPT ![i] = x] \in Seq(Instruction) /\ InsertAt(ixs, i, x) \in Seq(Instruction)
          <6> HIDE DEF ixs
          <6> QED  BY <3>1, <5>2, EditedType
        <5>4. [offered EXCEPT !.ixs[i] = x] = [offered EXCEPT !.ixs = [ixs EXCEPT ![i] = x]]
          BY <1>2 DEF Envelopes
        <5> QED  BY <5>1, <5>3, <5>4
      <4>2. CASE offered' = [offered EXCEPT !.ixs = RemoveAt(ixs, i)]
        <5>1. Limit(1) \in Instruction
          BY InstructionTypes
        <5>2. RemoveAt(ixs, i) \in Seq(Instruction)
          <6> HIDE DEF ixs
          <6> QED  BY <3>1, <5>1, EditedType
        <5> QED  BY <4>2, <5>2
      <4> QED  BY <3>2, <4>1, <4>2
    <3>4. offered' \in Envelopes
      BY <1>2, <3>3 DEF Envelopes
    <3>5. intent' = intent
      BY <2>1 DEF EditInstructions
    <3> QED  BY <1>2, <3>4, <3>5
  <2>2. CASE EditEnvelope
    <3>1. /\ \/ offered' = [offered EXCEPT !.feePayer = "wallet"]
             \/ offered' = [offered EXCEPT !.signers = "other"]
             \/ offered' = [offered EXCEPT !.decodes = FALSE]
          /\ intent' = intent
      BY <2>2 DEF EditEnvelope
    <3>2. "wallet" \in Names /\ "other" \in Names
      BY DEF Names
    <3>3. offered' \in Envelopes
      BY <1>2, <3>1, <3>2 DEF Envelopes
    <3> QED  BY <1>2, <3>1, <3>3
  <2>3. CASE EditIntent
    <3>1. /\ \/ intent' = [intent EXCEPT !.vault = "other"]
             \/ intent' = [intent EXCEPT !.seller = "strangerUsdc"]
             \/ intent' = [intent EXCEPT !.amount = @ + 1]
             \/ intent' = [intent EXCEPT !.full = TRUE]
             \/ intent' = [intent EXCEPT !.feePayer = "wallet"]
             \/ intent' = [intent EXCEPT !.live = FALSE]
             \/ intent' = [intent EXCEPT !.bound = FALSE]
          /\ offered' = offered
      BY <2>3 DEF EditIntent
    <3>2. "strangerUsdc" \in Names /\ "other" \in Names /\ "wallet" \in Names
      BY DEF Names, Accounts
    <3>3. intent' \in Intents /\ intent'.max = intent.max
      <4>1. CASE intent' = [intent EXCEPT !.amount = @ + 1]
        <5>1. intent.amount + 1 \in Nat
          BY <1>2 DEF Intents
        <5>2. intent' = [intent EXCEPT !.amount = intent.amount + 1]
          BY <4>1
        <5> QED  BY <1>2, <5>1, <5>2 DEF Intents
      <4>2. CASE \/ intent' = [intent EXCEPT !.vault = "other"]
                 \/ intent' = [intent EXCEPT !.seller = "strangerUsdc"]
                 \/ intent' = [intent EXCEPT !.feePayer = "wallet"]
        BY <1>2, <3>2, <4>2 DEF Intents
      <4>3. CASE \/ intent' = [intent EXCEPT !.full = TRUE]
                 \/ intent' = [intent EXCEPT !.live = FALSE]
                 \/ intent' = [intent EXCEPT !.bound = FALSE]
        BY <1>2, <4>3 DEF Intents
      <4> QED  BY <3>1, <4>1, <4>2, <4>3
    <3> QED  BY <1>2, <3>1, <3>3
  <2> QED  BY <1>1, <2>1, <2>2, <2>3
<1> QED  BY <1>1, <1>2, <1>3 DEF ShapeOK

\* The checks look at the kind, the intent and the transaction alone.
LEMMA CheckedStays ==
    ASSUME Checked, kind' = kind, intent' = intent, offered' = offered
    PROVE  Checked'
<1>1. IntentAccepted' = IntentAccepted
  BY DEF IntentAccepted
<1>2. PaymentAccepted' = PaymentAccepted
  BY DEF PaymentAccepted, EnvelopeOK, RedeemOK, TempOK, CloseOK
<1>3. DepositAccepted' = DepositAccepted
  BY DEF DepositAccepted, EnvelopeOK, Of
<1>4. WithdrawalAccepted' = WithdrawalAccepted
  BY DEF WithdrawalAccepted, EnvelopeOK, Of, RedeemOK
<1>5. PreparedOK' = PreparedOK
  BY DEF PreparedOK
<1> QED  BY <1>1, <1>2, <1>3, <1>4, <1>5 DEF Checked

\* Every step keeps the invariant.
LEMMA StepInv ==
    ASSUME IntentInv, [Next]_vars
    PROVE  IntentInv'
<1>1. ShapeOK /\ CanonicalBuilt /\ SignedChecked /\ SettledIsBuilt
  BY DEF IntentInv
<1>2. CASE Edit
  <2>1. /\ ShapeOK' /\ stage' = "offered" /\ kind' = kind /\ built' = built
        /\ intent'.max = intent.max
    BY <1>1, <1>2, EditShape
  <2>2. CanonicalBuilt'
    BY <1>1, <2>1 DEF CanonicalBuilt
  <2> QED  BY <2>1, <2>2 DEF IntentInv, SignedChecked, SettledIsBuilt
<1>3. CASE Sign
  <2>1. /\ kind' = kind /\ held' = held /\ built' = built /\ intent' = intent
        /\ offered' = offered /\ edits' = edits /\ stage' = "signed"
        /\ \E m \in Markets : Accepted(m) /\ seen' = m
    BY <1>3 DEF Sign
  <2>2. Checked
    BY <2>1 DEF Accepted, Checked
  <2>3. Checked'
    BY <2>1, <2>2, CheckedStays
  <2>4. ShapeOK'
    BY <1>1, <2>1 DEF ShapeOK, Stages
  <2>5. CanonicalBuilt'
    BY <1>1, <2>1 DEF CanonicalBuilt
  <2> QED  BY <2>1, <2>3, <2>4, <2>5 DEF IntentInv, SignedChecked, SettledIsBuilt
<1>4. CASE SignBlindly
  <2>1. /\ kind' = kind /\ held' = held /\ built' = built /\ intent' = intent
        /\ offered' = offered /\ edits' = edits /\ stage' = "returned" /\ seen' = seen
    BY <1>4 DEF SignBlindly
  <2>2. ShapeOK'
    BY <1>1, <2>1 DEF ShapeOK, Stages
  <2>3. CanonicalBuilt'
    BY <1>1, <2>1 DEF CanonicalBuilt
  <2> QED  BY <2>1, <2>2, <2>3 DEF IntentInv, SignedChecked, SettledIsBuilt
<1>5. CASE Settle
  <2>1. /\ kind' = kind /\ held' = held /\ built' = built /\ intent' = intent
        /\ offered' = offered /\ edits' = edits /\ stage' = "settled" /\ seen' = seen
        /\ offered.ixs = built
    BY <1>5 DEF Settle, PayloadVerified, FlowVerified, MessagePrepared
  <2>2. ShapeOK'
    BY <1>1, <2>1 DEF ShapeOK, Stages
  <2>3. CanonicalBuilt'
    BY <1>1, <2>1 DEF CanonicalBuilt
  <2> QED  BY <2>1, <2>2, <2>3 DEF IntentInv, SignedChecked, SettledIsBuilt
<1>6. CASE UNCHANGED vars
  <2>1. /\ kind' = kind /\ held' = held /\ built' = built /\ intent' = intent
        /\ offered' = offered /\ edits' = edits /\ stage' = stage /\ seen' = seen
    BY <1>6 DEF vars
  <2>2. ShapeOK'
    BY <1>1, <2>1 DEF ShapeOK
  <2>3. CanonicalBuilt' /\ SettledIsBuilt'
    BY <1>1, <2>1 DEF CanonicalBuilt, SettledIsBuilt
  <2>4. SignedChecked'
    BY <1>1, <2>1, CheckedStays DEF SignedChecked
  <2> QED  BY <2>2, <2>3, <2>4 DEF IntentInv
<1> QED  BY <1>2, <1>3, <1>4, <1>5, <1>6 DEF Next

(***************************************************************************)
(* What a client has signed passed its checks, what the relayer settles is *)
(* what it built, and what it builds for a payment is canonical.           *)
(***************************************************************************)
THEOREM IntentInvariant == Spec => []IntentInv
BY InitInv, StepInv, PTL DEF Spec

(***************************************************************************)
(* Whatever the relayer or the network makes of a transaction, a client    *)
(* that validates signs only what does as it asked, at any rate and with   *)
(* any rounding (validate*IntentTransaction).                              *)
(***************************************************************************)
THEOREM SignedAlwaysDoesAsAsked == Spec => []SignedDoesAsAsked
<1>1. ASSUME IntentInv PROVE SignedDoesAsAsked
  <2>1. SUFFICES ASSUME stage = "signed", NEW m \in Markets, Executed(offered.ixs, m).ok
                 PROVE  AsAsked(Executed(offered.ixs, m))
    BY DEF SignedDoesAsAsked
  <2>2. ShapeOK /\ Checked
    BY <1>1, <2>1 DEF IntentInv, SignedChecked
  <2>3. IntentAccepted
    BY <2>2 DEF Checked
  <2>4. kind = "payment" \/ kind = "deposit" \/ kind \in Withdrawals
    BY <2>2 DEF ShapeOK, Kinds
  <2>5. CASE kind = "payment"
    <3>1. PaymentAccepted
      BY <2>2, <2>5 DEF Checked
    <3> QED  BY <2>1, <2>2, <2>3, <2>5, <3>1, PaymentDoesAsAsked
  <2>6. CASE kind = "deposit"
    <3>1. DepositAccepted
      BY <2>2, <2>6 DEF Checked
    <3> QED  BY <2>1, <2>2, <2>3, <2>6, <3>1, DepositDoesAsAsked
  <2>7. CASE kind \in Withdrawals
    <3>1. PreparedOK /\ WithdrawalAccepted
      BY <2>2, <2>7 DEF Checked, Withdrawals
    <3> QED  BY <2>1, <2>2, <2>3, <2>7, <3>1, WithdrawalDoesAsAsked
  <2> QED  BY <2>4, <2>5, <2>6, <2>7
<1>2. IntentInv => SignedDoesAsAsked
  BY <1>1
<1> QED  BY <1>2, IntentInvariant, PTL

\* A settled payment paid the seller exactly the amount, returned the rest to
\* the wallet and the rent to the sponsor, whatever its client checked.
SettledPays ==
    stage = "settled" /\ kind = "payment" =>
        \A m \in Markets : LET e == Executed(offered.ixs, m)
                           IN  e.ok => \E shares \in Nat : Paid(e, shares, "sponsor")

(***************************************************************************)
(* A client that signs blindly pays the same as one that validates: the    *)
(* relayer settles only what it built (StrictPaymentPayloadVerifier).      *)
(***************************************************************************)
THEOREM SettledAlwaysPays == Spec => []SettledPays
<1>1. ASSUME IntentInv PROVE SettledPays
  <2>1. SUFFICES ASSUME stage = "settled", kind = "payment", NEW m \in Markets,
                        Executed(offered.ixs, m).ok
                 PROVE  \E shares \in Nat : Paid(Executed(offered.ixs, m), shares, "sponsor")
    BY DEF SettledPays
  <2>2. /\ ShapeOK /\ offered.ixs = built
        /\ \E f, w : Canonical(built, f, w, "sponsor")
    BY <1>1, <2>1 DEF IntentInv, SettledIsBuilt, CanonicalBuilt
  <2>3. held \in Holdings /\ built \in Seq(Instruction)
    BY <2>2 DEF ShapeOK
  <2> QED  BY <2>1, <2>2, <2>3, CanonicalPays
<1>2. IntentInv => SettledPays
  BY <1>1
<1> QED  BY <1>2, IntentInvariant, PTL

(***************************************************************************)
(* A settlement the sponsor signs gives its rent back                      *)
(* (StrictPaymentPayloadVerifier).                                         *)
(***************************************************************************)
THEOREM SponsorAlwaysKeepsRent == Spec => []SponsorKeepsRent
<1>1. SettledPays => SponsorKeepsRent
  BY DEF SettledPays, SponsorKeepsRent, Paid
<1> QED  BY <1>1, SettledAlwaysPays, PTL

-----------------------------------------------------------------------------
(* What is built is signed.                                                 *)

\* What the quoted shares are worth: the gross withdrawal, and by rounding up
\* to a share at most (r - 1) \div RateScale more.
LEMMA QuoteValue ==
    ASSUME NEW target \in Nat, target > 0, NEW r \in Rates
    PROVE  LET v == ComputePositionValue(Quote(target, r), r)
           IN  /\ v \in Nat /\ Gross(target) <= v
               /\ v <= Gross(target) + (r - 1) \div RateScale
<1> DEFINE g == Gross(target)
           q == Quote(target, r)
           p == q * r
           v == p \div RateScale
           d == (r - 1) \div RateScale
<1>1. /\ g \in Nat /\ RateScale \in Nat \ {0} /\ r \in Nat /\ r > 0
      /\ q \in Nat /\ g * RateScale <= p /\ p < g * RateScale + r
  BY GrossType, ConstantTypes, QuoteBounds
<1>2. ComputePositionValue(q, r) = v
  BY DEF ComputePositionValue, MulDivFloor
<1>3. p \in Nat /\ r - 1 \in Nat
  BY <1>1
<1> HIDE DEF g, q, p
<1>4. v \in Nat /\ RateScale * v <= p /\ d \in Nat
  BY <1>1, <1>3, DivNat, DivBounds
<1>5. g <= v
  <2>1. RateScale * g <= p
    BY <1>1
  <2> QED  BY <1>1, <1>3, <2>1, DivGE
<1> HIDE DEF v
<1>6. v - g <= d
  <2>1. RateScale * (v - g) <= r - 1
    BY <1>1, <1>3, <1>4
  <2>2. v - g \in Int
    BY <1>1, <1>4
  <2> QED  BY <1>1, <1>3, <2>1, <2>2, DivGE
<1> HIDE DEF d
<1>7. v <= g + d
  BY <1>1, <1>4, <1>6
<1> QED  BY <1>2, <1>4, <1>5, <1>7 DEF g, q, d

\* Redeeming the quoted shares gives the amount, up to the preview's rounding;
\* for a realization never less, since the headroom pays for the rounding.
LEMMA QuoteOutput ==
    ASSUME Sensible, NEW k \in Withdrawals, NEW m \in Markets
    PROVE  LET out == Output(Quote(Target(k), m.rate), m)
           IN  /\ Amount - Rounding <= out /\ out <= Amount + Rounding
               /\ out > 0
               /\ k = "realize" => Amount <= out
<1> DEFINE T == Target(k)
           r == m.rate
           g == Gross(T)
           v == ComputePositionValue(Quote(T, r), r)
           d == (r - 1) \div RateScale
           net == NetOf(v, PenaltyBps, PenaltyLamports)
<1>1. /\ r \in Rates /\ m.loss \in Nat /\ m.loss <= Headroom /\ m.loss < Amount
      /\ Amount \in Nat /\ Rounding \in Nat /\ Headroom \in Nat /\ Headroom <= Rounding
      /\ T \in Nat /\ T > 0
  BY ConstantTypes, TargetType DEF Markets, Sensible
<1>2. d \in Nat /\ d <= Rounding - Headroom
  <2>1. r - 1 \in Nat /\ RateScale \in Nat \ {0}
    BY <1>1, ConstantTypes
  <2>2. d \in Nat
    BY <2>1, DivNat
  <2>3. d <= Rounding - Headroom
    BY <1>1 DEF Sensible
  <2> QED  BY <2>2, <2>3
<1>3. g \in Nat /\ g > 0 /\ NetOf(g, PenaltyBps, PenaltyLamports) = T
  BY <1>1, GrossType
<1>4. v \in Nat /\ g <= v /\ v <= g + d
  <2> HIDE DEF T, r
  <2> QED  BY <1>1, QuoteValue
<1>5. T = IF k = "realize" THEN Amount + Headroom ELSE Amount
  BY DEF Target
<1>6. Output(Quote(T, r), m) = ClampToZero(net - m.loss)
  BY DEF Output
<1> HIDE DEF T, r, g, v, d
<1>7. net \in Int /\ T <= net /\ net <= T + (v - g)
  <2>1. PenaltyBps \in Nat /\ PenaltyLamports \in Nat /\ PenaltyBps < FullBps
    BY ConstantTypes
  <2>2. net \in Int
    BY <1>4, <2>1, NetType
  <2>3. T <= net /\ net <= T + (v - g)
    BY <1>3, <1>4, <2>1, NetGrows
  <2> QED  BY <2>2, <2>3
<1> HIDE DEF net
<1>8. ClampToZero(net - m.loss) = net - m.loss /\ net - m.loss > 0
  <2>1. T >= Amount
    BY <1>1, <1>5
  <2>2. net - m.loss \in Int /\ net - m.loss > 0
    BY <1>1, <1>7, <2>1
  <2> QED  BY <2>2 DEF ClampToZero
<1>9. net <= T + d
  BY <1>1, <1>2, <1>3, <1>4, <1>7
<1>10. CASE k = "realize"
  <2>1. T = Amount + Headroom
    BY <1>5, <1>10
  <2>2. /\ Amount - Rounding <= net - m.loss /\ net - m.loss <= Amount + Rounding
        /\ Amount <= net - m.loss
    BY <1>1, <1>2, <1>7, <1>9, <2>1
  <2> QED  BY <1>6, <1>8, <2>2 DEF T, r
<1>11. CASE k # "realize"
  <2>1. T = Amount
    BY <1>5, <1>11
  <2>2. Amount - Rounding <= net - m.loss /\ net - m.loss <= Amount + Rounding
    BY <1>1, <1>2, <1>7, <1>9, <2>1
  <2> QED  BY <1>6, <1>8, <1>11, <2>2 DEF T, r
<1> QED  BY <1>10, <1>11

\* The farm pair frees every share, and is there when it is needed.
LEMMA SharesFreed ==
    ASSUME held \in Holdings, NEW run, NEW m, NEW p \in Nat, NEW f, NEW shares \in Nat,
           f = (IF shares > Before["walletShares"] THEN 2 ELSE 0),
           shares <= WalletShares(Before), run[p] = Start,
           f = 2 => /\ run[p + 1] = After(run[p], Unstake("state"), m)
                    /\ run[p + 2] = After(run[p + 1],
                                          FarmWithdraw("state", "walletShares"), m)
    PROVE  /\ Untouched(run[p + f])
           /\ run[p + f].bal["walletShares"] >= shares
           /\ shares = WalletShares(Before) => run[p + f].bal["walletShares"] = shares
<1>1. /\ Before \in [Accounts -> Nat] /\ Start \in State /\ Start.ok
      /\ Start.bal = Before /\ Before["pending"] = 0
      /\ {"walletShares", "staked", "pending"} \subseteq Accounts
  BY StartType DEF Accounts
<1>2. /\ Before["walletShares"] \in Nat /\ Before["staked"] \in Nat
      /\ WalletShares(Before) = Before["walletShares"] + Before["staked"]
  BY <1>1 DEF WalletShares
<1>3. CASE shares > Before["walletShares"]
  <2> DEFINE u == Unstake("state")
             v == FarmWithdraw("state", "walletShares")
             s == After(Start, u, m)
             t == After(s, v, m)
  <2>1. /\ u \in Instruction /\ v \in Instruction /\ u.op = "unstake"
        /\ v.prog = "farms" /\ v.op = "withdraw" /\ v.to = "walletShares"
    BY InstructionTypes DEF Unstake, FarmWithdraw, Ix, Names, Accounts
  <2>2. run[p + f] = t /\ f = 2
    BY <1>3
  <2> HIDE DEF u, v
  <2>3. s \in State /\ s.ok /\ Moved(Start, s, "staked", "pending", Before["staked"])
    BY <1>1, <2>1, UnstakeEffect
  <2>4. Untouched(s)
    BY <2>1, StartUntouched, FarmUntouched
  <2> HIDE DEF s
  <2>5. t \in State /\ t.ok /\ Moved(s, t, "pending", "walletShares", s.bal["pending"])
    BY <2>1, <2>3, FarmWithdrawEffect
  <2>6. Untouched(t)
    BY <2>1, <2>4, FarmUntouched
  <2> HIDE DEF t
  <2>7. /\ s.bal["pending"] = 0 + Before["staked"]
        /\ s.bal["walletShares"] = Before["walletShares"]
    BY <1>1, <2>3 DEF Moved
  <2>8. t.bal["walletShares"] = s.bal["walletShares"] + s.bal["pending"]
    BY <2>5 DEF Moved
  <2>9. t.bal["walletShares"] = WalletShares(Before)
    BY <1>2, <2>7, <2>8
  <2> QED  BY <1>2, <2>2, <2>6, <2>9
<1>4. CASE ~(shares > Before["walletShares"])
  <2>1. run[p + f] = Start
    BY <1>4
  <2> QED  BY <1>1, <1>2, <1>4, <2>1, StartUntouched
<1> QED  BY <1>3, <1>4

\* A settlement as it was built.
FreshPayment(shares, max, f, w, dust) ==
    /\ kind = "payment" /\ intent = Intent(max) /\ offered = Envelope(built)
    /\ Laid(built, f, w, shares, dust)
    /\ shares \in Nat /\ max \in Nat /\ shares <= max /\ max < FullExit
    /\ shares <= WalletShares(Before)
    /\ f = IF shares > Before["walletShares"] THEN 2 ELSE 0
    /\ dust = Output(shares, seen) - Amount /\ dust >= 0
    /\ w = IF dust > 0 THEN 1 ELSE 0

\* The validator accepts it.
LEMMA FreshPaymentAccepted ==
    ASSUME Sensible, NEW shares, NEW max, NEW f, NEW w, NEW dust,
           FreshPayment(shares, max, f, w, dust)
    PROVE  IntentAccepted /\ PaymentAccepted
<1> DEFINE ixs == offered.ixs
<1>1. /\ ixs = built /\ offered.feePayer = "sponsor" /\ offered.signers = "expected"
      /\ offered.decodes
  BY DEF FreshPayment, Envelope
<1>2. /\ intent.live /\ intent.vault = "pinned" /\ intent.amount = Amount
      /\ intent.seller = "sellerUsdc" /\ intent.bound /\ intent.max = max
      /\ intent.feePayer = "sponsor"
  BY DEF FreshPayment, Intent
<1>3. Laid(ixs, f, w, shares, dust) /\ shares <= max /\ shares # FullExit
  <2>1. shares \in Nat /\ max \in Nat /\ shares <= max /\ max < FullExit /\ FullExit \in Nat
    BY DEF FreshPayment, FullExit
  <2> QED  BY <1>1, <2>1 DEF FreshPayment
<1>4. MaxUnits \in Nat /\ 1 <= MaxUnits /\ 1 > 0
  BY ConstantTypes DEF Sensible
<1> HIDE DEF ixs
<1>5. f \in {0, 2} /\ w \in {0, 1} /\ Len(ixs) = 8 + f + w
  BY <1>3 DEF Laid
<1>6. f = IF Len(ixs) > 4 /\ ixs[5].prog = "farms" THEN 2 ELSE 0
  <2>1. CASE f = 2
    <3>1. ixs[5].prog = "farms"
      BY <1>3, <2>1 DEF Laid, Unstake, Ix
    <3> QED  BY <1>5, <2>1, <3>1
  <2>2. CASE f = 0
    <3>1. ixs[5] = Redeem("temp", shares)
      BY <1>3, <2>2 DEF Laid
    <3>2. ixs[5].prog = "kvault"
      BY <3>1 DEF Redeem, Ix
    <3> QED  BY <2>2, <3>2
  <2> QED  BY <1>5, <2>1, <2>2
<1>7. w = IF Len(ixs) > f + 6 /\ ixs[f + 7].op = "transfer" THEN 1 ELSE 0
  <2>1. Len(ixs) > f + 6
    BY <1>5
  <2>2. CASE w = 1
    <3>1. ixs[f + 7].op = "transfer"
      BY <1>3, <2>2 DEF Laid, Transfer, Ix
    <3> QED  BY <2>1, <2>2, <3>1
  <2>3. CASE w = 0
    <3>1. f + w + 7 = f + 7
      BY <1>5, <2>3
    <3>2. ixs[f + 7] = Close("temp", "sponsor")
      BY <1>3, <3>1 DEF Laid
    <3>3. ixs[f + 7].op = "close"
      BY <3>2 DEF Close, Ix
    <3> QED  BY <2>3, <3>3
  <2> QED  BY <1>5, <2>2, <2>3
<1>8. /\ BudgetOK(ixs[1]) /\ ixs[1].op = "limit"
      /\ BudgetOK(ixs[2]) /\ ixs[2].op = "price"
      /\ TempOK(ixs[3], ixs[4])
  BY <1>2, <1>3, <1>4 DEF Laid, BudgetOK, TempOK, Limit, Price, CreateTemp, InitTemp, Ix
<1>9. f = 2 => UnstakeOK(ixs[5]) /\ FarmWithdrawOK(ixs[6], ixs[5])
  BY <1>3, <1>4 DEF Laid, UnstakeOK, FarmWithdrawOK, Unstake, FarmWithdraw, Ix
<1>10. RedeemOK(ixs[f + 5], "temp", FALSE)
  BY <1>2, <1>3 DEF Laid, RedeemOK, Redeem, Ix
<1>11. /\ TransferOK(ixs[f + 6], intent.seller, intent.amount)
       /\ w = 1 => SweepOK(ixs[f + 7])
  BY <1>2, <1>3 DEF Laid, TransferOK, SweepOK, IsTransfer, Transfer, Ix
<1>12. CloseOK(ixs[f + w + 7]) /\ MemoOK(ixs[f + w + 8])
  BY <1>2, <1>3 DEF Laid, CloseOK, MemoOK, Close, Memo, Ix
<1>13. PaymentAccepted
  BY <1>1, <1>2, <1>5, <1>6, <1>7, <1>8, <1>9, <1>10, <1>11, <1>12
     DEF PaymentAccepted, EnvelopeOK, ixs
<1>14. IntentAccepted
  BY <1>2 DEF IntentAccepted
<1> QED  BY <1>13, <1>14

\* It executes in the market it was simulated in.
LEMMA FreshPaymentExecutes ==
    ASSUME ShapeOK, NEW shares, NEW max, NEW f, NEW w, NEW dust,
           FreshPayment(shares, max, f, w, dust)
    PROVE  Executed(built, seen).ok
<1> DEFINE ixs == built
           m == seen
           n == Len(ixs)
<1>1. /\ held \in Holdings /\ ixs \in Seq(Instruction) /\ m \in Markets
      /\ Laid(ixs, f, w, shares, dust) /\ Canonical(ixs, f, w, "sponsor")
  BY LaidIsCanonical DEF ShapeOK, FreshPayment
<1>2. n \in Nat /\ DOMAIN ixs = 1 .. n
  BY <1>1
<1>3. PICK run : IsRun(run, ixs, m) /\ Executed(ixs, m) = run[n]
  BY <1>2, ExecutedRuns
<1>4. f \in {0, 2} /\ w \in {0, 1} /\ n = f + w + 8
  BY <1>1 DEF Canonical
<1> DEFINE s == run[f + 4]  r == run[f + 5]  p == run[f + 6]
           q == run[f + w + 6]  c == run[f + w + 7]  e == run[f + w + 8]
<1>5. /\ r = After(s, ixs[f + 5], m) /\ p = After(r, ixs[f + 6], m)
      /\ w = 1 => q = After(p, ixs[f + 7], m) /\ ixs[f + 7] \in Instruction
      /\ w = 0 => q = p
      /\ c = After(q, ixs[f + w + 7], m) /\ e = After(c, ixs[f + w + 8], m)
      /\ ixs[f + 5] \in Instruction /\ ixs[f + 6] \in Instruction
      /\ ixs[f + w + 7] \in Instruction /\ ixs[f + w + 8] \in Instruction
  BY <1>1, <1>3, CanonicalSteps
<1>6. /\ run[4] = Start
  BY <1>1, <1>3, CanonicalOpens
<1>7. f = 2 => /\ run[4 + 1] = After(run[4], Unstake("state"), m)
               /\ run[4 + 2] = After(run[4 + 1], FarmWithdraw("state", "walletShares"), m)
  <2>1. SUFFICES ASSUME f = 2
                 PROVE  /\ run[5] = After(run[4], Unstake("state"), m)
                        /\ run[6] = After(run[5], FarmWithdraw("state", "walletShares"), m)
    OBVIOUS
  <2>2. 5 \in DOMAIN ixs /\ 6 \in DOMAIN ixs /\ 5 - 1 = 4 /\ 6 - 1 = 5
    BY <1>2, <1>4
  <2>3. run[5] = After(run[4], ixs[5], m) /\ run[6] = After(run[5], ixs[6], m)
    BY <1>3, <2>2 DEF IsRun
  <2> QED  BY <1>1, <2>1, <2>3 DEF Laid
<1>8. Untouched(s) /\ s.bal["walletShares"] >= shares
  <2>1. /\ shares \in Nat /\ f = (IF shares > Before["walletShares"] THEN 2 ELSE 0)
        /\ shares <= WalletShares(Before)
    BY DEF FreshPayment
  <2> DEFINE k == 4
  <2>2. /\ k \in Nat /\ run[k] = Start
        /\ f = 2 => /\ run[k + 1] = After(run[k], Unstake("state"), m)
                    /\ run[k + 2] = After(run[k + 1], FarmWithdraw("state", "walletShares"), m)
    BY <1>6, <1>7
  <2>3. k + f = f + 4
    BY <1>4
  <2> HIDE DEF k
  <2>4. Untouched(run[k + f]) /\ run[k + f].bal["walletShares"] >= shares
    BY <1>1, <2>1, <2>2, SharesFreed
  <2> QED  BY <2>3, <2>4
<1>9. /\ {"walletShares", "temp", "sellerUsdc", "walletUsdc"} \subseteq Accounts
      /\ Before["temp"] = 0
  BY <1>1, StartType DEF Accounts
<1>10. /\ shares \in Nat /\ shares # FullExit /\ dust = Output(shares, m) - Amount
       /\ dust >= 0 /\ Output(shares, m) \in Nat /\ Amount \in Nat
  <2>1. /\ shares \in Nat /\ max \in Nat /\ shares <= max /\ max < FullExit /\ FullExit \in Nat
        /\ dust = Output(shares, m) - Amount /\ dust >= 0
    BY DEF FreshPayment, FullExit
  <2> QED  BY <1>1, <2>1, OutputType, ConstantTypes
<1>11. dust \in Nat /\ Output(shares, m) >= Amount /\ (w = 1 \/ dust = 0)
  <2>1. w = IF dust > 0 THEN 1 ELSE 0
    BY DEF FreshPayment
  <2> QED  BY <1>10, <2>1
<1>12. /\ ixs[f + 5] = Redeem("temp", shares)
       /\ ixs[f + 6] = Transfer("temp", "sellerUsdc", Amount)
       /\ w = 1 => ixs[f + 7] = Transfer("temp", "walletUsdc", dust)
       /\ ixs[f + w + 7] = Close("temp", "sponsor")
       /\ ixs[f + w + 8] = Memo("paymentId")
  BY <1>1 DEF Laid
<1> HIDE DEF s, r, p, q, c, e, ixs, m, n
<1>13. s \in State /\ s.ok /\ s.bal["temp"] = 0
  BY <1>8, <1>9 DEF Untouched
<1>14. r \in State /\ r.ok /\ r.bal["temp"] = Output(shares, m)
  <2>1. /\ ixs[f + 5].prog = "kvault" /\ ixs[f + 5].op = "withdraw"
        /\ ixs[f + 5].from = "walletShares" /\ ixs[f + 5].to = "temp"
        /\ ixs[f + 5].n = shares
    BY <1>12 DEF Redeem, Ix
  <2>2. Burn(s, ixs[f + 5]) = shares
    BY <1>10, <2>1 DEF Burn
  <2>3. r \in State /\ r.ok /\ Burnt(s, r, "temp", shares, Output(shares, m))
    BY <1>1, <1>5, <1>8, <1>9, <1>13, <2>1, <2>2, RedeemEffect
  <2>4. r.bal["temp"] = s.bal["temp"] + Output(shares, m)
    BY <2>3 DEF Burnt
  <2> QED  BY <1>10, <1>13, <2>3, <2>4
<1>15. p \in State /\ p.ok /\ p.bal["temp"] = dust
  <2>1. /\ ixs[f + 6].op = "transfer" /\ ixs[f + 6].from = "temp"
        /\ ixs[f + 6].to = "sellerUsdc" /\ ixs[f + 6].n = Amount
    BY <1>12 DEF Transfer, Ix
  <2>2. r.bal["temp"] >= Amount
    BY <1>11, <1>14
  <2>3. p \in State /\ p.ok /\ Moved(r, p, "temp", "sellerUsdc", Amount)
    BY <1>5, <1>9, <1>14, <2>1, <2>2, TransferEffect
  <2>4. p.bal["temp"] = r.bal["temp"] - Amount
    BY <2>3 DEF Moved
  <2> QED  BY <1>10, <1>14, <2>3, <2>4
<1>16. q \in State /\ q.ok /\ q.bal["temp"] = 0
  <2>1. CASE w = 1
    <3>1. /\ ixs[f + 7].op = "transfer" /\ ixs[f + 7].from = "temp"
          /\ ixs[f + 7].to = "walletUsdc" /\ ixs[f + 7].n = dust
      BY <1>12, <2>1 DEF Transfer, Ix
    <3>2. p.bal["temp"] >= dust
      BY <1>11, <1>15
    <3>3. q \in State /\ q.ok /\ Moved(p, q, "temp", "walletUsdc", dust)
      BY <1>5, <1>9, <1>15, <2>1, <3>1, <3>2, TransferEffect
    <3>4. q.bal["temp"] = p.bal["temp"] - dust
      BY <3>3 DEF Moved
    <3> QED  BY <1>11, <1>15, <3>3, <3>4
  <2>2. CASE w = 0
    BY <1>5, <1>11, <1>15, <2>2
  <2> QED  BY <1>4, <2>1, <2>2
<1>17. c.ok
  <2>1. ixs[f + w + 7].op = "close" /\ ixs[f + w + 7].from = "temp"
    BY <1>12 DEF Close, Ix
  <2> QED  BY <1>5, <1>9, <1>16, <2>1, CloseEffect
<1>18. e = c
  <2>1. ixs[f + w + 8].prog = "memo"
    BY <1>12 DEF Memo, Ix
  <2> QED  BY <1>5, <2>1, InertEffect
<1>19. Executed(ixs, m) = e
  BY <1>3, <1>4 DEF e
<1>20. Executed(ixs, m).ok
  BY <1>17, <1>18, <1>19
<1> QED  BY <1>20 DEF ixs, m

\* A deposit as it was built.
FreshDeposit ==
    /\ kind = "deposit" /\ intent = Intent(0) /\ offered = Envelope(built)
    /\ built = <<Limit(1), Price(1), CreateAta("wallet"),
                 Invest("walletUsdc", "walletShares", Amount)>>

\* The validator accepts it, and it executes.
LEMMA FreshDepositSigned ==
    ASSUME Sensible, ShapeOK, FreshDeposit
    PROVE  IntentAccepted /\ DepositAccepted /\ Executed(built, seen).ok
<1> DEFINE ixs == built
           m == seen
<1>1. /\ offered.ixs = ixs /\ offered.feePayer = "sponsor" /\ offered.decodes
      /\ intent.live /\ intent.vault = "pinned" /\ intent.amount = Amount
      /\ intent.feePayer = "sponsor"
  BY DEF FreshDeposit, Envelope, Intent
<1>2. /\ Len(ixs) = 4 /\ DOMAIN ixs = 1 .. 4
      /\ ixs[1] = Limit(1) /\ ixs[2] = Price(1) /\ ixs[3] = CreateAta("wallet")
      /\ ixs[4] = Invest("walletUsdc", "walletShares", Amount)
  BY DEF FreshDeposit
<1>3. /\ held \in Holdings /\ ixs \in Seq(Instruction) /\ m \in Markets
  BY DEF ShapeOK
<1>4. MaxUnits \in Nat /\ 1 <= MaxUnits /\ 1 > 0 /\ Amount \in Nat
  BY ConstantTypes DEF Sensible
<1>5. /\ ixs[1] \in Instruction /\ ixs[2] \in Instruction /\ ixs[3] \in Instruction
      /\ ixs[4] \in Instruction
  <2> HIDE DEF ixs
  <2>1. \A i \in 1 .. Len(ixs) : ixs[i] \in Instruction
    BY <1>3
  <2>2. 1 \in 1 .. 4 /\ 2 \in 1 .. 4 /\ 3 \in 1 .. 4 /\ 4 \in 1 .. 4
    OBVIOUS
  <2> QED  BY <1>2, <2>1, <2>2
<1> HIDE DEF ixs, m
<1>6. /\ ixs[1].prog = "computeBudget" /\ BudgetOK(ixs[1])
      /\ ixs[2].prog = "computeBudget" /\ BudgetOK(ixs[2])
      /\ ixs[3].prog = "ata" /\ AtaOK(ixs[3])
      /\ ixs[4].prog = "kvault" /\ ixs[4].op = "deposit" /\ ixs[4].n = Amount
      /\ ixs[4].owner = "wallet" /\ ixs[4].from = "walletUsdc" /\ ixs[4].to = "walletShares"
  BY <1>2, <1>4 DEF BudgetOK, AtaOK, Limit, Price, CreateAta, Invest, Ix
<1>7. \A i \in 1 .. 4 : i = 1 \/ i = 2 \/ i = 3 \/ i = 4
  OBVIOUS
<1>8. Of("kvault") = {4}
  BY <1>1, <1>2, <1>6, <1>7 DEF Of
<1>9. Cardinality(Of("kvault")) = 1
  BY <1>8, FS_Singleton
<1>10. DepositAccepted
  BY <1>1, <1>2, <1>6, <1>7, <1>9 DEF DepositAccepted, EnvelopeOK
<1>11. IntentAccepted
  BY <1>1 DEF IntentAccepted
<1>12. Executed(ixs, m).ok
  <2>1. PICK run : IsRun(run, ixs, m) /\ Executed(ixs, m) = run[4]
    <3> DEFINE n == 4
    <3>1. n \in Nat /\ DOMAIN ixs = 1 .. n
      BY <1>2
    <3> HIDE DEF n
    <3>2. \E run : IsRun(run, ixs, m) /\ Executed(ixs, m) = run[n]
      BY <3>1, ExecutedRuns
    <3> QED  BY <3>2 DEF n
  <2>2. /\ run[0] = Start
        /\ run[1] = After(run[0], ixs[1], m) /\ run[2] = After(run[1], ixs[2], m)
        /\ run[3] = After(run[2], ixs[3], m) /\ run[4] = After(run[3], ixs[4], m)
    BY <1>2, <2>1 DEF IsRun
  <2>3. run[1] = Start
    BY <1>5, <1>6, <2>2, InertEffect
  <2>4. run[2] = Start
    BY <1>5, <1>6, <2>2, <2>3, InertEffect
  <2>5. run[3] = Start
    BY <1>5, <1>6, <2>2, <2>4, InertEffect
  <2>6. Start \in State /\ Start.ok /\ Start.bal = Before
    BY <1>3, StartType
  <2>7. Before["walletUsdc"] >= Amount
    <3>1. Before["walletUsdc"] = 2 * Amount
      BY DEF Before, Accounts
    <3> QED  BY <1>4, <3>1
  <2>8. run[4].ok
    BY <1>3, <1>5, <1>6, <2>2, <2>5, <2>6, <2>7, InvestEffect
  <2> QED  BY <2>1, <2>8
<1> QED  BY <1>10, <1>11, <1>12 DEF ixs, m

\* A withdrawal as it was built, for what the wallet holds.
FreshWithdrawal(f, x, exit) ==
    LET n == Quote(Target(kind), seen.rate)
    IN  /\ kind \in Withdrawals /\ (kind = "realize" => ~exit)
        /\ offered = Envelope(built)
        /\ intent = [Intent(n) EXCEPT !.full = exit]
        /\ Exits(built, f, x, IF exit THEN FullExit ELSE n)
        /\ n <= WalletShares(Before) /\ n < FullExit
        /\ exit \in BOOLEAN /\ (exit <=> n = WalletShares(Before))
        /\ f = IF n > Before["walletShares"] THEN 2 ELSE 0
        /\ x = IF exit THEN 1 ELSE 0

\* The positions of a withdrawal, and what is there.
LEMMA ExitsPositions ==
    ASSUME NEW ixs \in Seq(Instruction), NEW f, NEW x, NEW n, Exits(ixs, f, x, n)
    PROVE  /\ f \in {0, 2} /\ x \in {0, 1} /\ DOMAIN ixs = 1 .. 4 + f + x
           /\ ixs[1].prog = "computeBudget" /\ ixs[2].prog = "computeBudget"
           /\ ixs[3].prog = "ata"
           /\ f = 2 => ixs[4].prog = "farms" /\ ixs[5].prog = "farms"
           /\ ixs[f + 4].prog = "kvault"
           /\ x = 1 => ixs[f + 5].prog = "token"
           /\ \A i \in 1 .. 4 + f + x :
                \/ i = 1 \/ i = 2 \/ i = 3 \/ (f = 2 /\ (i = 4 \/ i = 5))
                \/ i = f + 4 \/ (x = 1 /\ i = f + 5)
<1>1. f \in {0, 2} /\ x \in {0, 1} /\ DOMAIN ixs = 1 .. 4 + f + x
  BY DEF Exits
<1>2. /\ ixs[1].prog = "computeBudget" /\ ixs[2].prog = "computeBudget"
      /\ ixs[3].prog = "ata"
      /\ f = 2 => ixs[4].prog = "farms" /\ ixs[5].prog = "farms"
      /\ ixs[f + 4].prog = "kvault"
      /\ x = 1 => ixs[f + 5].prog = "token"
  BY DEF Exits, Limit, Price, CreateAta, Unstake, FarmWithdraw, Redeem, Close, Ix
<1>3. \A i \in 1 .. 4 + f + x :
        \/ i = 1 \/ i = 2 \/ i = 3 \/ (f = 2 /\ (i = 4 \/ i = 5))
        \/ i = f + 4 \/ (x = 1 /\ i = f + 5)
  BY <1>1
<1> QED  BY <1>1, <1>2, <1>3

\* The validator accepts it.
LEMMA FreshWithdrawalAccepted ==
    ASSUME Sensible, ShapeOK, NEW f, NEW x, NEW exit, FreshWithdrawal(f, x, exit)
    PROVE  IntentAccepted /\ PreparedOK /\ WithdrawalAccepted
<1> DEFINE ixs == offered.ixs
           n == Quote(Target(kind), seen.rate)
           burn == IF exit THEN FullExit ELSE n
<1>1. /\ ixs = built /\ offered.feePayer = "sponsor" /\ offered.decodes
      /\ ixs \in Seq(Instruction)
  BY DEF FreshWithdrawal, Envelope, ShapeOK, Envelopes
<1>2. /\ intent.live /\ intent.vault = "pinned" /\ intent.amount = Amount
      /\ intent.max = n /\ intent.full = exit /\ intent.feePayer = "sponsor"
  BY DEF FreshWithdrawal, Intent
<1>3. Exits(ixs, f, x, burn)
  BY <1>1 DEF FreshWithdrawal
<1>4. n \in Nat /\ n < FullExit /\ FullExit \in Nat /\ exit \in BOOLEAN
  <2>1. seen.rate \in Rates /\ Target(kind) \in Nat /\ Target(kind) > 0
    BY TargetType DEF ShapeOK, Markets
  <2> QED  BY <2>1, QuoteBounds DEF FreshWithdrawal, FullExit
<1>5. MaxUnits \in Nat /\ 1 <= MaxUnits /\ 1 > 0
  BY ConstantTypes DEF Sensible
<1> HIDE DEF ixs, n
<1>6. /\ f \in {0, 2} /\ x \in {0, 1} /\ DOMAIN ixs = 1 .. 4 + f + x
      /\ ixs[1].prog = "computeBudget" /\ ixs[2].prog = "computeBudget"
      /\ ixs[3].prog = "ata"
      /\ f = 2 => ixs[4].prog = "farms" /\ ixs[5].prog = "farms"
      /\ ixs[f + 4].prog = "kvault"
      /\ x = 1 => ixs[f + 5].prog = "token"
      /\ \A i \in 1 .. 4 + f + x :
           \/ i = 1 \/ i = 2 \/ i = 3 \/ (f = 2 /\ (i = 4 \/ i = 5))
           \/ i = f + 4 \/ (x = 1 /\ i = f + 5)
  BY <1>1, <1>3, ExitsPositions
<1>7. /\ BudgetOK(ixs[1]) /\ BudgetOK(ixs[2]) /\ AtaOK(ixs[3])
      /\ f = 2 => UnstakeOK(ixs[4]) /\ FarmWithdrawOK(ixs[5], ixs[4])
      /\ x = 1 => ixs[f + 5].op = "close" /\ ixs[f + 5].to = "wallet" /\ ixs[f + 5].owner = "wallet"
  BY <1>3, <1>5 DEF Exits, BudgetOK, AtaOK, UnstakeOK, FarmWithdrawOK, Limit, Price,
     CreateAta, Unstake, FarmWithdraw, Close, Ix
<1>8. RedeemOK(ixs[f + 4], "walletUsdc", intent.full)
  <2>1. ixs[f + 4] = Redeem("walletUsdc", burn)
    BY <1>3 DEF Exits
  <2>2. /\ ixs[f + 4].prog = "kvault" /\ ixs[f + 4].op = "withdraw"
        /\ ixs[f + 4].n = burn /\ ixs[f + 4].owner = "wallet"
        /\ ixs[f + 4].from = "walletShares" /\ ixs[f + 4].to = "walletUsdc"
    BY <2>1 DEF Redeem, Ix
  <2>3. IF burn = FullExit THEN intent.full ELSE burn <= intent.max
    BY <1>2, <1>4
  <2> QED  BY <2>2, <2>3 DEF RedeemOK
<1>9. Of("kvault") = {f + 4}
  <2>1. \A i \in DOMAIN ixs : ixs[i].prog = "kvault" => i = f + 4
    BY <1>6
  <2>2. f + 4 \in DOMAIN ixs
    BY <1>6
  <2> QED  BY <1>6, <2>1, <2>2 DEF Of, ixs
<1>10. Of("farms") = IF f = 2 THEN {4, 5} ELSE {}
  <2>1. CASE f = 2
    <3>1. \A i \in DOMAIN ixs : ixs[i].prog = "farms" => i = 4 \/ i = 5
      BY <1>6
    <3>2. 4 \in DOMAIN ixs /\ 5 \in DOMAIN ixs
      BY <1>6, <2>1
    <3> QED  BY <1>6, <2>1, <3>1, <3>2 DEF Of, ixs
  <2>2. CASE f # 2
    <3>1. \A i \in DOMAIN ixs : ixs[i].prog # "farms"
      BY <1>6, <2>2
    <3> QED  BY <2>2, <3>1 DEF Of, ixs
  <2> QED  BY <2>1, <2>2
<1>11. Cardinality(Of("kvault")) = 1
  BY <1>9, FS_Singleton
<1>12. Cardinality(Of("farms")) \in {0, 2}
  <2>1. Cardinality({}) = 0
    BY FS_EmptySet
  <2>2. Cardinality({4, 5}) = 2
    <3>1. IsFiniteSet({4}) /\ Cardinality({4}) = 1
      BY FS_Singleton
    <3>2. Cardinality({4} \cup {5}) = Cardinality({4}) + 1
      BY <3>1, FS_AddElement
    <3>3. {4} \cup {5} = {4, 5}
      OBVIOUS
    <3> QED  BY <3>1, <3>2, <3>3
  <2> QED  BY <1>10, <2>1, <2>2
<1> DEFINE OK(i) ==
             LET ix    == ixs[i]
                 first == \A j \in Of("farms") : i <= j
                 prior == CHOOSE j \in Of("farms") : j # i
             IN  CASE ix.prog = "computeBudget" -> BudgetOK(ix)
                   [] ix.prog = "ata" -> AtaOK(ix)
                   [] ix.prog = "memo" -> TRUE
                   [] ix.prog = "farms" -> IF first THEN UnstakeOK(ix)
                                           ELSE FarmWithdrawOK(ix, ixs[prior])
                   [] ix.prog = "token" -> ix.op = "close" /\ ix.to = "wallet"
                                           /\ ix.owner = "wallet"
                   [] ix.prog = "kvault" -> RedeemOK(ix, "walletUsdc", intent.full)
                   [] OTHER -> FALSE
<1>13. ASSUME NEW i \in DOMAIN ixs PROVE OK(i)
  <2>1. CASE i = 1 \/ i = 2
    BY <1>6, <1>7, <2>1
  <2>2. CASE i = 3
    BY <1>6, <1>7, <2>2
  <2>3. CASE f = 2 /\ i = 4
    <3>1. \A j \in Of("farms") : i <= j
      BY <1>10, <2>3
    <3> QED  BY <1>6, <1>7, <2>3, <3>1
  <2>4. CASE f = 2 /\ i = 5
    <3>1. ~ \A j \in Of("farms") : i <= j
      BY <1>10, <2>4
    <3>2. (CHOOSE j \in Of("farms") : j # i) = 4
      BY <1>10, <2>4
    <3> QED  BY <1>6, <1>7, <2>4, <3>1, <3>2
  <2>5. CASE i = f + 4
    BY <1>6, <1>8, <2>5
  <2>6. CASE x = 1 /\ i = f + 5
    BY <1>6, <1>7, <2>6
  <2> QED
    <3> HIDE DEF OK
    <3> QED  BY <1>6, <2>1, <2>2, <2>3, <2>4, <2>5, <2>6
<1>14. WithdrawalAccepted
  BY <1>1, <1>2, <1>11, <1>12, <1>13 DEF WithdrawalAccepted, EnvelopeOK, ixs
<1>15. IntentAccepted /\ PreparedOK
  BY <1>2 DEF IntentAccepted, PreparedOK, FreshWithdrawal
<1> QED  BY <1>14, <1>15

\* It executes in the market it was built for, and returns the amount up to the
\* preview's rounding.
LEMMA FreshWithdrawalExecutes ==
    ASSUME Sensible, ShapeOK, NEW f, NEW x, NEW exit, FreshWithdrawal(f, x, exit)
    PROVE  Executed(built, seen).ok /\ PreviewOK(seen)
<1> DEFINE ixs == built
           m == seen
           n == Quote(Target(kind), m.rate)
           burn == IF exit THEN FullExit ELSE n
           out == Output(n, m)
           len == Len(ixs)
<1>1. /\ held \in Holdings /\ ixs \in Seq(Instruction) /\ m \in Markets
      /\ m.rate \in Rates /\ Exits(ixs, f, x, burn) /\ offered.ixs = ixs
  BY DEF ShapeOK, Markets, FreshWithdrawal, Envelope
<1>2. /\ n \in Nat /\ n < FullExit /\ FullExit \in Nat /\ exit \in BOOLEAN
      /\ n <= WalletShares(Before) /\ (exit <=> n = WalletShares(Before))
      /\ f = (IF n > Before["walletShares"] THEN 2 ELSE 0)
      /\ x = (IF exit THEN 1 ELSE 0)
  <2>1. Target(kind) \in Nat /\ Target(kind) > 0
    BY TargetType
  <2> QED  BY <1>1, <2>1, QuoteBounds DEF FreshWithdrawal, FullExit
<1>3. out \in Nat
  BY <1>1, <1>2, OutputType
<1>4. Minimum <= out /\ out <= Amount + Rounding /\ out > 0
  <2>1. kind \in Withdrawals
    BY DEF FreshWithdrawal
  <2> QED  BY <1>1, <2>1, QuoteOutput DEF Minimum
<1>5. /\ f \in {0, 2} /\ x \in {0, 1} /\ len \in Nat /\ DOMAIN ixs = 1 .. len
      /\ len = 4 + f + x
      /\ ixs[1].prog = "computeBudget" /\ ixs[2].prog = "computeBudget"
      /\ ixs[3].prog = "ata"
  <2> HIDE DEF ixs, burn
  <2>1. /\ f \in {0, 2} /\ x \in {0, 1}
        /\ ixs[1].prog = "computeBudget" /\ ixs[2].prog = "computeBudget"
        /\ ixs[3].prog = "ata"
    BY <1>1, ExitsPositions
  <2>2. len = 4 + f + x
    BY <1>1 DEF Exits
  <2>3. len \in Nat /\ DOMAIN ixs = 1 .. len
    BY <1>1
  <2> QED  BY <2>1, <2>2, <2>3
<1>6. PICK run : IsRun(run, ixs, m) /\ Executed(ixs, m) = run[len]
  BY <1>5, ExecutedRuns
<1> HIDE DEF ixs, m, n, out, len
<1>7. \A i \in 1 .. len : run[i] = After(run[i - 1], ixs[i], m) /\ ixs[i] \in Instruction
  <2>1. \A i \in 1 .. len : ixs[i] \in Instruction
    BY <1>1 DEF len
  <2> QED  BY <1>5, <1>6, <2>1 DEF IsRun
<1>8. run[3] = Start
  <2>1. /\ run[0] = Start
        /\ run[1] = After(run[0], ixs[1], m) /\ run[2] = After(run[1], ixs[2], m)
        /\ run[3] = After(run[2], ixs[3], m)
        /\ ixs[1] \in Instruction /\ ixs[2] \in Instruction /\ ixs[3] \in Instruction
    BY <1>5, <1>6, <1>7 DEF IsRun
  <2>2. run[1] = Start
    BY <1>5, <2>1, InertEffect
  <2>3. run[2] = Start
    BY <1>5, <2>1, <2>2, InertEffect
  <2> QED  BY <1>5, <2>1, <2>3, InertEffect
<1> DEFINE s == run[f + 3]  r == run[f + 4]  e == run[len]
<1>9. /\ Untouched(s) /\ s.bal["walletShares"] >= n
      /\ n = WalletShares(Before) => s.bal["walletShares"] = n
  <2> DEFINE k == 3
  <2>1. f = 2 => /\ run[4] = After(run[3], Unstake("state"), m)
                 /\ run[5] = After(run[4], FarmWithdraw("state", "walletShares"), m)
    <3>1. SUFFICES ASSUME f = 2
                   PROVE  /\ run[4] = After(run[3], Unstake("state"), m)
                          /\ run[5] = After(run[4], FarmWithdraw("state", "walletShares"), m)
      OBVIOUS
    <3>2. 4 \in 1 .. len /\ 5 \in 1 .. len /\ 4 - 1 = 3 /\ 5 - 1 = 4
      BY <1>5, <3>1
    <3>3. run[4] = After(run[3], ixs[4], m) /\ run[5] = After(run[4], ixs[5], m)
      BY <1>7, <3>2
    <3> QED  BY <1>1, <3>1, <3>3 DEF Exits
  <2>2. /\ k \in Nat /\ run[k] = Start
        /\ f = 2 => /\ run[k + 1] = After(run[k], Unstake("state"), m)
                    /\ run[k + 2] = After(run[k + 1], FarmWithdraw("state", "walletShares"), m)
    BY <1>8, <2>1
  <2>3. k + f = f + 3
    BY <1>5
  <2> HIDE DEF k
  <2>4. /\ Untouched(run[k + f]) /\ run[k + f].bal["walletShares"] >= n
        /\ n = WalletShares(Before) => run[k + f].bal["walletShares"] = n
    <3>1. /\ n \in Nat /\ n <= WalletShares(Before) /\ held \in Holdings
          /\ f = (IF n > Before["walletShares"] THEN 2 ELSE 0)
      BY <1>1, <1>2
    <3> QED  BY <2>2, <3>1, SharesFreed
  <2> QED  BY <2>3, <2>4
<1>10. /\ r = After(s, ixs[f + 4], m) /\ ixs[f + 4] \in Instruction
       /\ ixs[f + 4] = Redeem("walletUsdc", burn)
  <2>1. f + 4 \in 1 .. len /\ (f + 4) - 1 = f + 3
    BY <1>5
  <2> QED  BY <1>1, <1>7, <2>1 DEF Exits
<1>11. /\ x = 0 => e = r
       /\ x = 1 => /\ e = After(r, ixs[f + 5], m) /\ ixs[f + 5] \in Instruction
                   /\ ixs[f + 5] = Close("walletShares", "wallet")
  <2>1. CASE x = 0
    <3>1. len = f + 4
      BY <1>5, <2>1
    <3> QED  BY <2>1, <3>1
  <2>2. CASE x = 1
    <3>1. len = f + 5 /\ f + 5 \in 1 .. len /\ (f + 5) - 1 = f + 4
      BY <1>5, <2>2
    <3>2. run[f + 5] = After(run[f + 4], ixs[f + 5], m) /\ ixs[f + 5] \in Instruction
      BY <1>7, <3>1
    <3>3. ixs[f + 5] = Close("walletShares", "wallet")
      BY <1>1, <2>2 DEF Exits
    <3> QED  BY <2>2, <3>1, <3>2, <3>3
  <2> QED  BY <1>5, <2>1, <2>2
<1>12. /\ {"walletShares", "walletUsdc"} \subseteq Accounts
       /\ Before["walletUsdc"] \in Nat
  BY <1>1, StartType DEF Accounts
<1> HIDE DEF s, r, e, burn
<1>13. s \in State /\ s.ok /\ s.bal["walletUsdc"] = Before["walletUsdc"]
  BY <1>9, <1>12 DEF Untouched
<1>14. s.bal["walletShares"] \in Nat
  BY <1>12, <1>13 DEF State
<1>15. /\ ixs[f + 4].prog = "kvault" /\ ixs[f + 4].op = "withdraw"
       /\ ixs[f + 4].from = "walletShares" /\ ixs[f + 4].to = "walletUsdc"
       /\ ixs[f + 4].n = burn
  BY <1>10 DEF Redeem, Ix
<1>16. Burn(s, ixs[f + 4]) = n
  <2>1. CASE exit
    <3>1. burn = FullExit /\ s.bal["walletShares"] = n
      BY <1>2, <1>9, <2>1 DEF burn
    <3> QED  BY <1>15, <3>1 DEF Burn
  <2>2. CASE ~exit
    <3>1. burn = n /\ n # FullExit
      BY <1>2, <2>2 DEF burn
    <3> QED  BY <1>15, <3>1 DEF Burn
  <2> QED  BY <1>2, <2>1, <2>2
<1>17. r \in State /\ r.ok /\ Burnt(s, r, "walletUsdc", n, out)
  <2>1. out = Output(n, m)
    BY DEF out
  <2> QED  BY <1>1, <1>9, <1>10, <1>12, <1>13, <1>15, <1>16, <2>1, RedeemEffect
<1>18. /\ r.bal["walletUsdc"] = Before["walletUsdc"] + out
       /\ r.bal["walletShares"] = s.bal["walletShares"] - n
  BY <1>13, <1>17 DEF Burnt
<1>19. e.ok /\ e.bal = r.bal
  <2>1. CASE x = 0
    BY <1>11, <1>17, <2>1
  <2>2. CASE x = 1
    <3>1. exit
      BY <1>2, <2>2
    <3>2. r.bal["walletShares"] = 0
      BY <1>2, <1>9, <1>14, <1>18, <3>1
    <3>3. ixs[f + 5].op = "close" /\ ixs[f + 5].from = "walletShares"
      BY <1>11, <2>2 DEF Close, Ix
    <3> QED  BY <1>11, <1>12, <1>17, <2>2, <3>2, <3>3, CloseEffect
  <2> QED  BY <1>5, <2>1, <2>2
<1>20. e.bal["walletUsdc"] - Before["walletUsdc"] = out
  BY <1>3, <1>12, <1>18, <1>19
<1>21. Executed(ixs, m) = e /\ offered.ixs = ixs
  BY <1>1, <1>6 DEF e
<1>22. PreviewOK(m)
  BY <1>4, <1>19, <1>20, <1>21 DEF PreviewOK
<1> QED  BY <1>19, <1>21, <1>22 DEF ixs, m

\* Until it is changed, the client is offered what was built.
Unedited ==
    edits = 0 /\ stage = "offered" =>
        \/ \E shares, max, f, w, dust : FreshPayment(shares, max, f, w, dust)
        \/ FreshDeposit
        \/ \E f, x, exit : FreshWithdrawal(f, x, exit)

\* A realization within the yield leaves shares: the principal's.
LEMMA YieldIsNotAll ==
    ASSUME Sensible, held \in Holdings, NEW r \in Rates, WithinYield(r)
    PROVE  Quote(Target("realize"), r) < WalletShares(Before)
<1> DEFINE g == Gross(Target("realize"))
           s == WalletShares(Before)
           position == [shares |-> s, rate |-> r,
                        basis |-> held.basis, reserved |-> 0, feeDebt |-> 0,
                        buffer |-> 0, capacity |-> g]
           c == SharesToRedeem(g, r)
<1>1. g \in Nat /\ s \in Nat /\ r \in Nat /\ held.basis \in Nat /\ held.basis > 0
  BY TargetType, GrossType, ConstantTypes, StartType, SharesType DEF Sensible
<1>2. EvaluatePaymentBudget(position, g, Overhead, 0) = "ok"
  BY DEF WithinYield
<1>3. Quote(Target("realize"), r) = c
  BY DEF Quote
<1>4. r <= RateScale * Overhead + 1 /\ Overhead \in Nat
  BY ConstantTypes DEF Sensible
<1> HIDE DEF g, s
<1>5. position \in BudgetPositions
  BY <1>1 DEF BudgetPositions
<1>6. /\ position.shares = s /\ position.rate = r /\ position.basis = held.basis
      /\ position.buffer = 0 /\ position.reserved = 0 /\ position.feeDebt = 0
  OBVIOUS
<1> HIDE DEF position
<1>7. /\ c \in 0 .. s
      /\ held.basis + 0 + 0 + 0 <= ComputePositionValue(s - c, r)
  <2>1. /\ SharesToRedeem(g, position.rate) \in 0 .. position.shares
        /\ position.basis + position.buffer + position.reserved + position.feeDebt
             <= ComputePositionValue(position.shares - SharesToRedeem(g, position.rate),
                                     position.rate)
    BY <1>1, <1>2, <1>4, <1>5, <1>6, AcceptedBudgetKeepsPrincipal
  <2> QED  BY <1>6, <2>1
<1> HIDE DEF c
<1>8. CASE c = s
  <2>1. s - c = 0
    BY <1>1, <1>8
  <2>2. ComputePositionValue(0, r) \in Nat /\ RateScale * ComputePositionValue(0, r) <= 0 * r
    BY <1>1, ValueBounds
  <2>3. ComputePositionValue(0, r) >= held.basis
    BY <1>1, <1>7, <2>1, <2>2
  <2>4. RateScale \in Nat /\ RateScale > 0 /\ 0 * r = 0
    BY <1>1, ConstantTypes
  <2>5. ComputePositionValue(0, r) > 0
    BY <1>1, <2>2, <2>3
  <2>6. RateScale * ComputePositionValue(0, r) > 0
    BY <2>2, <2>4, <2>5
  <2> QED  BY <2>2, <2>4, <2>6
<1>9. CASE c # s
  BY <1>1, <1>3, <1>7, <1>9 DEF s
<1> QED  BY <1>8, <1>9

\* So it is at first.
LEMMA InitUnedited ==
    ASSUME Sensible, Init
    PROVE  Unedited
<1>1. held \in Holdings /\ (BuildPayment \/ BuildDeposit \/ \E k \in Withdrawals : BuildWithdrawal(k))
  BY DEF Init, Withdrawals
<1>2. CASE BuildPayment
  <2>1. PICK quoted \in Rates, rate \in Rates, m \in Markets :
          LET shares == ProbeShares(quoted, rate, m)
          IN  /\ 0 < shares /\ shares <= WalletShares(Before)
              /\ Build("payment", CanonicalSettlement(shares, m),
                       Intent(Quote(Amount, quoted) + Margin), m)
    BY <1>2 DEF BuildPayment
  <2> DEFINE max == Quote(Amount, quoted) + Margin
             shares == ProbeShares(quoted, rate, m)
             ixs == CanonicalSettlement(shares, m)
             dust == Output(shares, m) - Amount
             f == IF shares > Before["walletShares"] THEN 2 ELSE 0
             w == IF dust > 0 THEN 1 ELSE 0
  <2>2. max \in Nat /\ max < FullExit
    BY QuoteBounds, ConstantTypes DEF Sensible
  <2>3. 0 < shares /\ shares <= WalletShares(Before) /\ Build("payment", ixs, Intent(max), m)
    BY <2>1
  <2>4. shares \in 0 .. max /\ (shares > 0 => Output(shares, m) >= Amount)
    <3> HIDE DEF max
    <3>1. shares = Probe(rate, m, max)
      BY DEF ProbeShares, max
    <3> HIDE DEF shares
    <3> QED  BY <2>2, <3>1, ProbeBounds
  <2> HIDE DEF max, shares
  <2>5. shares \in Nat /\ shares <= max /\ Output(shares, m) >= Amount
    BY <2>2, <2>3, <2>4
  <2>6. Laid(ixs, f, w, shares, dust)
    BY <2>5, SettlementLaid
  <2>7. dust >= 0
    <3>1. Output(shares, m) \in Nat /\ Amount \in Nat
      BY <2>5, OutputType, ConstantTypes
    <3> QED  BY <2>5, <3>1
  <2>8. /\ kind = "payment" /\ built = ixs /\ intent = Intent(max)
        /\ offered = Envelope(built) /\ seen = m
    BY <2>3 DEF Build
  <2>9. FreshPayment(shares, max, f, w, dust)
    <3>1. /\ f = (IF shares > Before["walletShares"] THEN 2 ELSE 0)
          /\ w = (IF dust > 0 THEN 1 ELSE 0) /\ dust = Output(shares, m) - Amount
      OBVIOUS
    <3> HIDE DEF ixs, f, w, dust
    <3> QED  BY <2>2, <2>3, <2>5, <2>6, <2>7, <2>8, <3>1 DEF FreshPayment
  <2> HIDE DEF ixs, f, w, dust
  <2> QED  BY <2>9 DEF Unedited
<1>3. CASE BuildDeposit
  BY <1>3 DEF BuildDeposit, Build, FreshDeposit, Unedited
<1>4. ASSUME NEW k \in Withdrawals, BuildWithdrawal(k) PROVE Unedited
  <2>1. PICK m \in Markets :
          LET n    == RequestedShares(k, m.rate)
              exit == n >= WalletShares(Before)
          IN  /\ k = "realize" => WithinYield(m.rate)
              /\ Build(k,
                    <<Limit(1), Price(1), CreateAta("wallet")>> \o FarmPair(n)
                    \o <<Redeem("walletUsdc", IF exit THEN FullExit ELSE n)>>
                    \o (IF exit THEN <<Close("walletShares", "wallet")>> ELSE <<>>),
                    [Intent(n) EXCEPT !.full = exit], m)
    BY <1>4 DEF BuildWithdrawal
  <2> DEFINE q == Quote(Target(k), m.rate)
             n == RequestedShares(k, m.rate)
             exit == n >= WalletShares(Before)
             burn == IF exit THEN FullExit ELSE n
             ixs == <<Limit(1), Price(1), CreateAta("wallet")>> \o FarmPair(n)
                    \o <<Redeem("walletUsdc", burn)>>
                    \o (IF exit THEN <<Close("walletShares", "wallet")>> ELSE <<>>)
             i == [Intent(n) EXCEPT !.full = exit]
             f == IF n > Before["walletShares"] THEN 2 ELSE 0
             x == IF exit THEN 1 ELSE 0
  <2>2. /\ q \in Nat /\ WalletShares(Before) \in Nat
        /\ q <= WalletShares(Before) /\ q < FullExit /\ FullExit \in Nat
        /\ k = "realize" => q < WalletShares(Before)
    <3>1. m.rate \in Rates /\ Target(k) \in Nat /\ Target(k) > 0
      BY TargetType DEF Markets
    <3>2. q \in Nat /\ WalletShares(Before) \in Nat /\ Margin \in Nat /\ FullExit \in Nat
      BY <1>1, <3>1, QuoteBounds, StartType, SharesType, ConstantTypes DEF FullExit
    <3>3. CASE k = "realize"
      <4>1. q < WalletShares(Before)
        BY <1>1, <2>1, <3>1, <3>3, YieldIsNotAll
      <4>2. q + Margin < FullExit
        BY <3>1, <3>3 DEF Sensible, Target
      <4> HIDE DEF q
      <4> QED  BY <3>2, <4>1, <4>2
    <3>4. CASE k # "realize"
      <4>1. WalletShares(Before) = held.free + held.staked
        <5>1. /\ Before["walletShares"] = held.free /\ Before["staked"] = held.staked
              /\ Before["pending"] = 0
          BY DEF Before, Accounts
        <5>2. held.free \in Nat /\ held.staked \in Nat
          BY <1>1, ConstantTypes
        <5> QED  BY <5>1, <5>2 DEF WalletShares
      <4>2. q <= held.free + held.staked /\ q + Margin < FullExit
        BY <1>1, <3>1, <3>4 DEF Sensible, Target
      <4> HIDE DEF q
      <4> QED  BY <3>2, <3>4, <4>1, <4>2
    <3> QED  BY <3>3, <3>4
  <2>3. Build(k, ixs, i, m)
    BY <2>1
  <2>4. n = q
    <3>1. n = MinBigInt(q, WalletShares(Before))
      BY DEF RequestedShares
    <3> HIDE DEF n, q
    <3> QED  BY <2>2, <3>1 DEF MinBigInt
  <2>5. /\ n \in Nat /\ exit \in BOOLEAN /\ n <= WalletShares(Before) /\ n < FullExit
        /\ (exit <=> n = WalletShares(Before)) /\ (k = "realize" => ~exit)
    <3> HIDE DEF n, q
    <3> QED  BY <2>2, <2>4
  <2> HIDE DEF n, exit
  <2>6. burn \in Nat /\ burn = (IF exit THEN FullExit ELSE n)
    BY <2>2, <2>5
  <2> HIDE DEF burn
  <2>7. Exits(ixs, f, x, burn)
    BY <2>5, <2>6, WithdrawalLaid
  <2>8. /\ f = (IF n > Before["walletShares"] THEN 2 ELSE 0)
        /\ x = (IF exit THEN 1 ELSE 0) /\ i = [Intent(n) EXCEPT !.full = exit]
    OBVIOUS
  <2> HIDE DEF ixs, i, f, x
  <2>9. /\ kind = k /\ built = ixs /\ intent = i
        /\ offered = Envelope(built) /\ seen = m
    BY <2>3 DEF Build
  <2>10. FreshWithdrawal(f, x, exit)
    BY <2>4, <2>5, <2>6, <2>7, <2>8, <2>9 DEF FreshWithdrawal
  <2> QED  BY <2>10 DEF Unedited
<1> QED  BY <1>1, <1>2, <1>3, <1>4

\* Every step changes it, or leaves everything as it was.
LEMMA StepUnedited ==
    ASSUME ShapeOK, Unedited, [Next]_vars
    PROVE  Unedited'
<1>1. CASE Edit
  <2>1. edits \in Nat /\ edits' = edits + 1
    BY <1>1 DEF Edit, ShapeOK
  <2>2. edits' # 0
    BY <2>1
  <2> QED  BY <2>2 DEF Unedited
<1>2. CASE Sign \/ SignBlindly \/ Settle
  <2>1. stage' # "offered"
    BY <1>2 DEF Sign, SignBlindly, Settle
  <2> QED  BY <2>1 DEF Unedited
<1>3. CASE UNCHANGED vars
  <2>1. /\ kind' = kind /\ held' = held /\ built' = built /\ intent' = intent
        /\ offered' = offered /\ edits' = edits /\ stage' = stage /\ seen' = seen
    BY <1>3 DEF vars
  <2>2. Before' = Before
    BY <2>1 DEF Before
  <2>3. ASSUME NEW shares, NEW max, NEW f, NEW w, NEW dust,
               FreshPayment(shares, max, f, w, dust)
        PROVE  FreshPayment(shares, max, f, w, dust)'
    BY <2>1, <2>2, <2>3 DEF FreshPayment
  <2>4. FreshDeposit => FreshDeposit'
    BY <2>1 DEF FreshDeposit
  <2>5. ASSUME NEW f, NEW x, NEW exit, FreshWithdrawal(f, x, exit)
        PROVE  FreshWithdrawal(f, x, exit)'
    BY <2>1, <2>2, <2>5 DEF FreshWithdrawal
  <2> QED  BY <2>1, <2>3, <2>4, <2>5 DEF Unedited
<1> QED  BY <1>1, <1>2, <1>3 DEF Next

(***************************************************************************)
(* The two sides agree: what the relayer builds, the client signs, and it  *)
(* executes in the market it was simulated in, whatever rates the quote    *)
(* and the cached context saw, as long as the constants are sensible       *)
(* (preparePaymentSettlement, prepareDeposit, prepareWithdrawal).          *)
(***************************************************************************)
THEOREM BuiltIsAlwaysSigned == ASSUME Sensible PROVE Spec => []BuiltIsSigned
<1>1. Init => Unedited
  BY InitUnedited
<1>2. IntentInv /\ Unedited /\ [Next]_vars => Unedited'
  BY StepUnedited DEF IntentInv
<1>3. IntentInv /\ Unedited => BuiltIsSigned
  <2>1. SUFFICES ASSUME IntentInv, Unedited, edits = 0, stage = "offered"
                 PROVE  Accepted(seen) /\ Executed(built, seen).ok
    BY DEF BuiltIsSigned
  <2>2. ShapeOK
    BY <2>1 DEF IntentInv
  <2>3. CASE \E shares, max, f, w, dust : FreshPayment(shares, max, f, w, dust)
    <3>1. PICK shares, max, f, w, dust : FreshPayment(shares, max, f, w, dust)
      BY <2>3
    <3>2. IntentAccepted /\ PaymentAccepted /\ Executed(built, seen).ok /\ kind = "payment"
      BY <2>2, <3>1, FreshPaymentAccepted, FreshPaymentExecutes DEF FreshPayment
    <3> QED  BY <3>2 DEF Accepted
  <2>4. CASE FreshDeposit
    <3>1. IntentAccepted /\ DepositAccepted /\ Executed(built, seen).ok /\ kind = "deposit"
      BY <2>2, <2>4, FreshDepositSigned DEF FreshDeposit
    <3> QED  BY <3>1 DEF Accepted
  <2>5. CASE \E f, x, exit : FreshWithdrawal(f, x, exit)
    <3>1. PICK f, x, exit : FreshWithdrawal(f, x, exit)
      BY <2>5
    <3>2. /\ IntentAccepted /\ PreparedOK /\ WithdrawalAccepted /\ PreviewOK(seen)
          /\ Executed(built, seen).ok /\ kind \notin {"payment", "deposit"}
      BY <2>2, <3>1, FreshWithdrawalAccepted, FreshWithdrawalExecutes
         DEF FreshWithdrawal, Withdrawals
    <3> QED  BY <3>2 DEF Accepted
  <2> QED  BY <2>1, <2>3, <2>4, <2>5 DEF Unedited
<1> QED  BY <1>1, <1>2, <1>3, IntentInvariant, PTL DEF Spec
=============================================================================
