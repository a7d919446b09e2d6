----------------------- MODULE AccountExposureProofs ------------------------
(***************************************************************************)
(* The account limits hold for any finite set of proposals and symbols and *)
(* any number of senders: what a sender read, in pieces, overstates what   *)
(* is at stake, and only the owner of the account puts more at stake.      *)
(***************************************************************************)
EXTENDS AccountExposure, FunctionTheorems, FiniteSetTheorems, TLAPS

----------------------------------------------------------------------------
(* Counting shares.                                                         *)

\* What a function onto a set counts is not less than the set.
LEMMA Covered ==
    ASSUME NEW S, IsFiniteSet(S), NEW T, NEW f, \A t \in T : \E u \in S : f[u] = t
    PROVE  IsFiniteSet(T) /\ Cardinality(T) <= Cardinality(S)
<1> DEFINE R == {u \in S : f[u] \in T}
           g == [u \in R |-> f[u]]
<1>1. IsFiniteSet(R) /\ Cardinality(R) <= Cardinality(S) BY FS_Subset
<1>2. g \in [R -> T] /\ \A t \in T : \E u \in R : g[u] = t OBVIOUS
<1>3. g \in Surjection(R, T) BY <1>2, Fun_IsSurj
<1>4. IsFiniteSet(T) /\ Cardinality(T) <= Cardinality(R) BY <1>1, <1>3, FS_Surjection
<1> QED BY <1>1, <1>4, FS_CardinalityType

\* A share is one of those counted for its index.
LEMMA ShareOf ==
    ASSUME NEW S, NEW f \in [S -> Nat]
    PROVE  \A t : t \in SharesIn(f) <=> \E i \in S : \E n \in 1..f[i] : t = <<i, n>>
BY DEF SharesIn

\* Finitely many indices have finitely many shares.
LEMMA TotalType ==
    ASSUME NEW S, IsFiniteSet(S), NEW f \in [S -> Nat]
    PROVE  IsFiniteSet(SharesIn(f)) /\ Total(f) \in Nat
<1> DEFINE Of == [i \in S |-> {i} \X (1..f[i])]
           All == {{i} \X (1..f[i]) : i \in S}
<1>1. IsFiniteSet(All) 
    <2>1. \A t \in All : \E i \in S : Of[i] = t OBVIOUS
    <2> HIDE DEF Of, All
    <2> QED BY <2>1, Covered
<1>2. ASSUME NEW i \in S PROVE IsFiniteSet({i} \X (1..f[i]))
    <2>1. IsFiniteSet(1..f[i]) BY FS_Interval
    <2>2. IsFiniteSet({i}) BY FS_Singleton
    <2> QED BY <2>1, <2>2, FS_Product
<1>3. \A T \in All : IsFiniteSet(T) BY <1>2
<1>4. SharesIn(f) = UNION All BY DEF SharesIn
<1> HIDE DEF All
<1>5. IsFiniteSet(SharesIn(f)) BY <1>1, <1>3, <1>4, FS_UNION
<1> QED BY <1>5, FS_CardinalityType DEF Total

\* Less for each index is less in total.
LEMMA TotalMonotone ==
    ASSUME NEW S, IsFiniteSet(S), NEW f \in [S -> Nat], NEW g \in [S -> Nat],
           \A i \in S : f[i] <= g[i]
    PROVE  Total(f) <= Total(g)
<1>1. SharesIn(f) \subseteq SharesIn(g)
    <2>1. \A i \in S : \A n \in 1..f[i] : n \in 1..g[i] OBVIOUS
    <2> QED BY <2>1, ShareOf
<1> QED BY <1>1, TotalType, FS_Subset DEF Total

\* The shares of a sum are not more than those of its parts together.
LEMMA TotalSum ==
    ASSUME NEW S, IsFiniteSet(S), NEW f \in [S -> Nat], NEW g \in [S -> Nat], NEW h \in [S -> Nat],
           \A i \in S : h[i] <= f[i] + g[i]
    PROVE  Total(h) <= Total(f) + Total(g)
<1> DEFINE Beyond == SharesIn(h) \ SharesIn(f)
           Place == [t \in SharesIn(g) |-> <<t[1], f[t[1]] + t[2]>>]
<1>1. ASSUME NEW t \in Beyond PROVE \E u \in SharesIn(g) : Place[u] = t
    <2>0. PICK i \in S : \E n \in 1..h[i] : t = <<i, n>> BY ShareOf
    <2>1. PICK n \in 1..h[i] : t = <<i, n>> BY <2>0
    <2>2. ~(n \in 1..f[i]) BY <2>1, ShareOf
    <2>3. n - f[i] \in 1..g[i] BY <2>2
    <2>4. <<i, n - f[i]>> \in SharesIn(g) BY <2>3, ShareOf
    <2>5. Place[<<i, n - f[i]>>] = <<i, f[i] + (n - f[i])>> BY <2>4
    <2>6. f[i] + (n - f[i]) = n OBVIOUS
    <2> QED BY <2>1, <2>4, <2>5, <2>6
<1>2. IsFiniteSet(SharesIn(f)) /\ IsFiniteSet(SharesIn(g)) /\ IsFiniteSet(SharesIn(h)) BY TotalType
<1> HIDE DEF Place
<1>3. IsFiniteSet(Beyond) /\ Cardinality(Beyond) <= Total(g) BY <1>1, <1>2, Covered DEF Total
<1>4. SharesIn(h) \subseteq SharesIn(f) \cup Beyond OBVIOUS
<1> HIDE DEF Beyond
<1>5. /\ IsFiniteSet(SharesIn(f) \cup Beyond)
      /\ Cardinality(SharesIn(f) \cup Beyond)
           = Cardinality(SharesIn(f)) + Cardinality(Beyond) - Cardinality(SharesIn(f) \cap Beyond)
    BY <1>2, <1>3, FS_Union
<1>6. Cardinality(SharesIn(f) \cap Beyond) \in Nat BY <1>2, FS_Intersection, FS_CardinalityType
<1>7. Cardinality(Beyond) \in Nat BY <1>3, FS_CardinalityType
<1>8. Total(h) <= Cardinality(SharesIn(f) \cup Beyond) BY <1>4, <1>5, FS_Subset DEF Total
<1> QED BY <1>3, <1>5, <1>6, <1>7, <1>8, TotalType DEF Total

\* One index that grows adds no more than it grew to.
LEMMA TotalAdded ==
    ASSUME NEW S, IsFiniteSet(S), NEW f \in [S -> Nat], NEW g \in [S -> Nat], NEW i \in S, NEW k \in Nat,
           f[i] <= k, \A j \in S \ {i} : f[j] <= g[j]
    PROVE  Total(f) <= Total(g) + k
<1> DEFINE e == [j \in S |-> IF j = i THEN k ELSE 0]
           Ks == 1..k
           Nth == [n \in Ks |-> <<i, n>>]
<1>1. e \in [S -> Nat] /\ \A j \in S : f[j] <= g[j] + e[j] OBVIOUS
<1>2. \A t \in SharesIn(e) : \E n \in Ks : Nth[n] = t BY <1>1, ShareOf
<1>3. IsFiniteSet(Ks) /\ Cardinality(Ks) = k BY FS_Interval
<1> HIDE DEF e, Nth, Ks
<1>4. Total(e) <= k BY <1>2, <1>3, Covered DEF Total
<1>5. Total(f) <= Total(g) + Total(e) BY <1>1, TotalSum
<1> QED BY <1>1, <1>4, <1>5, TotalType

\* Something is counted exactly if some index has a share.
LEMMA TotalPositive ==
    ASSUME NEW S, IsFiniteSet(S), NEW f \in [S -> Nat]
    PROVE  Total(f) > 0 <=> \E i \in S : f[i] > 0
<1>1. SharesIn(f) # {} <=> \E i \in S : f[i] > 0
    <2>1. ASSUME NEW i \in S, f[i] > 0 PROVE SharesIn(f) # {}
        <3>1. 1 \in 1..f[i] BY <2>1
        <3>2. <<i, 1>> \in SharesIn(f) BY <3>1, ShareOf
        <3> QED BY <3>2
    <2>2. ASSUME SharesIn(f) # {} PROVE \E i \in S : f[i] > 0
        BY <2>2, ShareOf
    <2> QED BY <2>1, <2>2
<1>2. Total(f) = 0 <=> SharesIn(f) = {} BY TotalType, FS_EmptySet DEF Total
<1> QED BY <1>1, <1>2, TotalType

\* Counted by groups, nothing is lost.
LEMMA TotalGrouped ==
    ASSUME NEW S, IsFiniteSet(S), NEW f \in [S -> Nat], NEW G, IsFiniteSet(G), NEW Of \in [S -> G],
           NEW sums, sums = [x \in G |-> Total([i \in {j \in S : Of[j] = x} |-> f[i]])]
    PROVE  Total(f) <= Total(sums)
<1> DEFINE Part(x) == {j \in S : Of[j] = x}
           Piece(x) == [i \in Part(x) |-> f[i]]
           Onto(x) == Surjection(1..sums[x], SharesIn(Piece(x)))
           Pick == [x \in G |-> CHOOSE h : h \in Onto(x)]
           Place == [t \in SharesIn(sums) |-> Pick[t[1]][t[2]]]
<1>1. ASSUME NEW x \in G
      PROVE  /\ Piece(x) \in [Part(x) -> Nat] /\ IsFiniteSet(Part(x))
             /\ IsFiniteSet(SharesIn(Piece(x))) /\ sums[x] \in Nat /\ Pick[x] \in Onto(x)
    <2>0. sums[x] = Total(Piece(x)) OBVIOUS
    <2>1. Piece(x) \in [Part(x) -> Nat] OBVIOUS
    <2>2. IsFiniteSet(Part(x)) BY FS_Subset
    <2> HIDE DEF Part, Piece
    <2>3. IsFiniteSet(SharesIn(Piece(x))) /\ Total(Piece(x)) \in Nat BY <2>1, <2>2, TotalType
    <2>4. ExistsBijection(1..sums[x], SharesIn(Piece(x))) BY <2>0, <2>3, FS_CardinalityType DEF Total
    <2>5. PICK h : h \in Bijection(1..sums[x], SharesIn(Piece(x)))
        BY <2>4 DEF ExistsBijection
    <2>6. h \in Onto(x) BY <2>5, Fun_BijectionProperties
    <2>7. Pick[x] \in Onto(x) BY <2>6
    <2> QED BY <2>0, <2>1, <2>2, <2>3, <2>7
<1>2. sums \in [G -> Nat] BY <1>1
<1>3. ASSUME NEW t \in SharesIn(f) PROVE \E u \in SharesIn(sums) : Place[u] = t
    <2>0. PICK i \in S : \E n \in 1..f[i] : t = <<i, n>> BY ShareOf
    <2>1. PICK n \in 1..f[i] : t = <<i, n>> BY <2>0
    <2>2. PICK x \in G : Of[i] = x OBVIOUS
    <2>3. i \in Part(x) /\ n \in 1..Piece(x)[i] BY <2>2
    <2>4. t \in SharesIn(Piece(x)) BY <1>1, <2>1, <2>3, ShareOf
    <2>5. Pick[x] \in Onto(x) BY <1>1
    <2> HIDE DEF Part, Piece, Pick
    <2>6. PICK k \in 1..sums[x] : Pick[x][k] = t BY <2>4, <2>5 DEF Surjection
    <2>7. <<x, k>> \in SharesIn(sums) BY <1>2, <2>6, ShareOf
    <2>8. Place[<<x, k>>] = t BY <2>6, <2>7
    <2> QED BY <2>7, <2>8
<1>4. IsFiniteSet(SharesIn(sums)) BY <1>2, TotalType
<1> HIDE DEF Place
<1>5. Cardinality(SharesIn(f)) <= Cardinality(SharesIn(sums)) BY <1>3, <1>4, Covered
<1> QED BY <1>5 DEF Total

----------------------------------------------------------------------------
(* What an account has at stake.                                            *)

\* What the account is bound to for p: all of it while it may still fill.
Stake == [p \in Proposals |-> IF Coming(p) THEN Qty[p] - sold[p] ELSE Held(p)]

\* The symbols with shares, and the entries that may still open one.
HeldSymbols == {x \in Symbols : \E p \in OfSymbol(x) : Held(p) > 0}
Unfilled == {p \in Proposals : Coming(p) /\ filled[p] = 0}
Slots == Cardinality(HeldSymbols) + Cardinality(Unfilled)

\* The orders of one entry, at the broker and in the ledger.
OrderInv(p) ==
    /\ entry[p] \in Entries /\ intent[p] \in Intents
    /\ filled[p] \in 0..Qty[p] /\ {sold[p], booked[p]} \subseteq 0..filled[p]
    /\ intent[p] = "none" => entry[p] = "none"
    /\ entry[p] \in {"none", "wire"} => filled[p] = 0
    /\ entry[p] = "working" => filled[p] < Qty[p] /\ sold[p] = 0
    /\ entry[p] = "wire" => intent[p] = "pending"

Checking(s) == pc[s] \in Pcs \ {"idle"}

\* The owner of the account found nothing unresolved, and its reads overstate what
\* is at stake now: p was read open before it filled, the shares after.
SenderInv(s) ==
    /\ Checking(s) => owner = s /\ prop[s] \in Proposals /\ intent[prop[s]] = "none" /\ NoneUnresolved
    /\ pc[s] \in {"orders", "read"} => \A p \in Proposals : Coming(p) =>
           open[s][p] >= Qty[p] - filled[p] /\ (filled[p] = 0 => open[s][p] = Qty[p])
    /\ pc[s] = "read" =>
           /\ Total(Stake) <= Committed(s)
           /\ Slots <= Cardinality(HeldIn(last[s])) + PendingSlots(s)
    /\ pc[s] = "cleared" =>
           Total(Stake) + Qty[prop[s]] <= Equity /\ Slots < MaxOpen /\ TradesToday < MaxTrades

Types ==
    /\ entry \in [Proposals -> Entries] /\ intent \in [Proposals -> Intents]
    /\ {filled, sold, booked} \subseteq [Proposals -> Nat]
    /\ pc \in [Senders -> Pcs] /\ prop \in [Senders -> Proposals \cup {Nobody}]
    /\ open \in [Senders -> [Proposals -> Nat]]
    /\ {first, last} \subseteq [Senders -> [Symbols -> Nat]]
    /\ owner \in Senders \cup {Nobody}

AccountInv ==
    /\ Types
    /\ \A p \in Proposals : OrderInv(p)
    /\ \A s \in Senders : SenderInv(s) /\ (Checking(s) <=> owner = s) /\ (prop[s] = Nobody <=> ~Checking(s))
    /\ Total(Stake) <= Equity /\ Slots <= MaxOpen /\ TradesToday <= MaxTrades

\* Finitely many proposals and symbols: what is at stake can be counted.
LEMMA StakeType ==
    ASSUME Types, \A p \in Proposals : OrderInv(p)
    PROVE  /\ Stake \in [Proposals -> Nat] /\ Total(Stake) \in Nat
           /\ [p \in Proposals |-> Held(p)] \in [Proposals -> Nat]
           /\ IsFiniteSet(HeldSymbols) /\ IsFiniteSet(Unfilled)
           /\ Cardinality(HeldSymbols) \in Nat /\ Cardinality(Unfilled) \in Nat
<1>1. \A p \in Proposals : Held(p) \in Nat /\ Qty[p] - sold[p] \in Nat
    <2> SUFFICES ASSUME NEW p \in Proposals PROVE Held(p) \in Nat /\ Qty[p] - sold[p] \in Nat
        OBVIOUS
    <2>1. /\ Qty[p] \in Nat /\ filled[p] \in Nat /\ sold[p] \in Nat
          /\ sold[p] <= filled[p] /\ filled[p] <= Qty[p]
        BY ExposureAssumption DEF OrderInv, Types
    <2> QED BY <2>1 DEF Held
<1>2. Stake \in [Proposals -> Nat] BY <1>1 DEF Stake
<1>3. Total(Stake) \in Nat BY <1>2, TotalType, ExposureAssumption
<1>4. IsFiniteSet(HeldSymbols) BY FS_Subset, ExposureAssumption DEF HeldSymbols
<1>5. IsFiniteSet(Unfilled) BY FS_Subset, ExposureAssumption DEF Unfilled
<1> QED BY <1>1, <1>2, <1>3, <1>4, <1>5, FS_CardinalityType

\* list_positions has a row exactly for each held symbol.
LEMMA HeldInPositions ==
    ASSUME Types, \A p \in Proposals : OrderInv(p)
    PROVE  Positions \in [Symbols -> Nat] /\ HeldIn(Positions) = HeldSymbols
<1>1. ASSUME NEW x \in Symbols
      PROVE  Positions[x] \in Nat /\ (Positions[x] > 0 <=> \E p \in OfSymbol(x) : Held(p) > 0)
    <2> DEFINE h == [p \in OfSymbol(x) |-> Held(p)]
    <2>1. h \in [OfSymbol(x) -> Nat] BY StakeType DEF OfSymbol
    <2>2. IsFiniteSet(OfSymbol(x)) BY FS_Subset, ExposureAssumption DEF OfSymbol
    <2>3. Positions[x] = Total(h) BY DEF Positions
    <2>4. \A p \in OfSymbol(x) : h[p] = Held(p) OBVIOUS
    <2> HIDE DEF h
    <2> QED BY <2>1, <2>2, <2>3, <2>4, TotalType, TotalPositive
<1>2. DOMAIN Positions = Symbols /\ Positions \in [Symbols -> Nat] BY <1>1 DEF Positions
<1> QED BY <1>1, <1>2 DEF HeldIn, HeldSymbols

\* All the shares of all symbols are read when the positions are.
LEMMA HeldIsRead ==
    ASSUME Types, \A p \in Proposals : OrderInv(p)
    PROVE  Total([p \in Proposals |-> Held(p)]) <= Total(Positions)
<1> DEFINE h == [p \in Proposals |-> Held(p)]
<1>1. h \in [Proposals -> Nat] BY StakeType
<1>2. ASSUME NEW x \in Symbols
      PROVE  [p \in {q \in Proposals : SymbolOf[q] = x} |-> h[p]] = [p \in OfSymbol(x) |-> Held(p)]
    BY DEF OfSymbol
<1>3. Positions = [x \in Symbols |-> Total([p \in {q \in Proposals : SymbolOf[q] = x} |-> h[p]])]
    BY <1>2 DEF Positions
<1> HIDE DEF h
<1>4. Total(h) <= Total(Positions) BY <1>1, <1>3, TotalGrouped, ExposureAssumption
<1> QED BY <1>4 DEF h

\* What fills partly is held, so that it needs no slot of its own.
LEMMA SlotsAreCounted ==
    ASSUME Types, \A p \in Proposals : OrderInv(p)
    PROVE  Slots <= MaxOpen <=> SlotsWithinLimit
<1>1. ASSUME NEW p \in Proposals, Coming(p), filled[p] # 0 PROVE SymbolOf[p] \in HeldSymbols
    <2>1. entry[p] = "working" /\ sold[p] = 0 /\ filled[p] \in Nat BY <1>1 DEF Coming, OrderInv, Types
    <2>2. Held(p) > 0 BY <1>1, <2>1 DEF Held
    <2> QED BY <2>2, ExposureAssumption DEF HeldSymbols, OfSymbol
<1>2. Unfilled = {p \in Proposals : Coming(p) /\ (filled[p] = 0 \/ SymbolOf[p] \notin HeldIn(Positions))}
    BY <1>1, HeldInPositions DEF Unfilled
<1> QED BY <1>2, HeldInPositions DEF Slots, SlotsWithinLimit

----------------------------------------------------------------------------
(* Fills, cancellations and sales only lower what is at stake.              *)

\* A step that leaves the senders what their reads overstate.
Eased ==
    /\ Total(Stake)' <= Total(Stake) /\ Slots' <= Slots
    /\ \A q \in Proposals :
          /\ Coming(q)' => Coming(q) /\ filled'[q] >= filled[q]
          /\ intent'[q] = "none" <=> intent[q] = "none"
          /\ intent'[q] = "pending" => intent[q] = "pending"

\* What a step leaves at stake can be counted too.
LEMMA StakeTypeAfter ==
    ASSUME Types', \A p \in Proposals : OrderInv(p)'
    PROVE  Stake' \in [Proposals -> Nat] /\ Total(Stake)' \in Nat /\ Slots' \in Nat
<1>1. Stake' \in [Proposals -> Nat]
    <2> SUFFICES ASSUME NEW p \in Proposals PROVE Stake'[p] \in Nat BY DEF Stake
    <2>1. /\ Qty[p] \in Nat /\ filled'[p] \in Nat /\ sold'[p] \in Nat
          /\ sold'[p] <= filled'[p] /\ filled'[p] <= Qty[p]
        BY ExposureAssumption DEF OrderInv, Types
    <2>2. filled'[p] - sold'[p] \in Nat /\ Qty[p] - sold'[p] \in Nat BY <2>1
    <2> QED BY <2>2 DEF Stake, Held
<1>2. Total(Stake') \in Nat BY <1>1, TotalType, ExposureAssumption
<1>3. Total(Stake)' = Total(Stake') BY DEF Total, SharesIn
<1>4. HeldSymbols' \subseteq Symbols /\ Unfilled' \subseteq Proposals BY DEF HeldSymbols, Unfilled
<1>5. IsFiniteSet(HeldSymbols') /\ IsFiniteSet(Unfilled') BY <1>4, FS_Subset, ExposureAssumption
<1>6. Slots' \in Nat BY <1>5, FS_CardinalityType DEF Slots
<1> QED BY <1>1, <1>2, <1>3, <1>6

\* Less at stake for each entry is less at stake.
LEMMA EasedBy ==
    ASSUME Types, \A p \in Proposals : OrderInv(p), Types', \A p \in Proposals : OrderInv(p)',
           \A p \in Proposals : Stake'[p] <= Stake[p]
    PROVE  Total(Stake)' <= Total(Stake)
<1>1. Stake \in [Proposals -> Nat] /\ Stake' \in [Proposals -> Nat] BY StakeType, StakeTypeAfter
<1>2. Total(Stake') <= Total(Stake) BY <1>1, TotalMonotone, ExposureAssumption
<1> QED BY <1>2 DEF Total, SharesIn

\* What the network, the market and the monitor do to one entry keeps its orders
\* well formed.
LEMMA EntryMoves ==
    ASSUME Types, \A q \in Proposals : OrderInv(q), NEW p \in Proposals, BrokerStep(p) \/ Reconcile(p)
    PROVE  Types' /\ \A q \in Proposals : OrderInv(q)'
<1>0. /\ OrderInv(p) /\ Qty[p] \in Nat \ {0} /\ filled[p] \in Nat /\ sold[p] \in Nat /\ booked[p] \in Nat
      /\ UNCHANGED <<sender, owner>>
    BY ExposureAssumption DEF Types, BrokerStep, Deliver, Fill, Cancel, Sell, Reconcile
<1>1. CASE Deliver(p)
    <2>1. entry' = [entry EXCEPT ![p] = "working"] /\ entry[p] = "wire" /\ UNCHANGED <<filled, sold, ledger>>
        BY <1>1 DEF Deliver
    <2>2. Types' BY <1>0, <2>1 DEF Types, sender, ledger, Entries
    <2>3. OrderInv(p)' BY <1>0, <2>1 DEF OrderInv, Types, ledger, Entries
    <2>4. \A q \in Proposals \ {p} : OrderInv(q)' BY <2>1 DEF OrderInv, Types, ledger
    <2> QED BY <2>2, <2>3, <2>4
<1>2. CASE Fill(p)
    <2>1. /\ entry[p] = "working" /\ filled' = [filled EXCEPT ![p] = @ + 1]
          /\ entry' = [entry EXCEPT ![p] = IF filled'[p] = Qty[p] THEN "filled" ELSE @]
          /\ UNCHANGED <<sold, ledger>>
        BY <1>2 DEF Fill
    <2>2. filled'[p] = filled[p] + 1 BY <2>1 DEF Types
    <2>3. Types' BY <1>0, <2>1, <2>2 DEF Types, sender, ledger, Entries
    <2>4. entry'[p] = IF filled[p] + 1 = Qty[p] THEN "filled" ELSE "working" BY <2>1, <2>2 DEF Types
    <2>5. /\ filled'[p] \in 0..Qty[p] /\ {sold[p], booked[p]} \subseteq 0..filled'[p]
          /\ entry'[p] = "working" => filled'[p] < Qty[p] /\ sold[p] = 0
        BY <1>0, <2>1, <2>2, <2>4 DEF OrderInv
    <2>6. OrderInv(p)'
        BY <1>0, <2>1, <2>4, <2>5 DEF OrderInv, ledger, Entries
    <2>7. \A q \in Proposals \ {p} : OrderInv(q)' BY <2>1 DEF OrderInv, Types, ledger
    <2> QED BY <2>3, <2>6, <2>7
<1>3. CASE Cancel(p)
    <2>1. entry' = [entry EXCEPT ![p] = "cancelled"] /\ entry[p] = "working" /\ UNCHANGED <<filled, sold, ledger>>
        BY <1>3 DEF Cancel
    <2>2. Types' BY <1>0, <2>1 DEF Types, sender, ledger, Entries
    <2>3. OrderInv(p)' BY <1>0, <2>1 DEF OrderInv, Types, ledger, Entries
    <2>4. \A q \in Proposals \ {p} : OrderInv(q)' BY <2>1 DEF OrderInv, Types, ledger
    <2> QED BY <2>2, <2>3, <2>4
<1>4. CASE Sell(p)
    <2>1. /\ sold' = [sold EXCEPT ![p] = @ + 1] /\ entry[p] # "working" /\ filled[p] - sold[p] > 0
          /\ UNCHANGED <<entry, filled, ledger>>
        BY <1>4 DEF Sell, Held
    <2>2. sold'[p] = sold[p] + 1 BY <2>1 DEF Types
    <2>3. Types' BY <1>0, <2>1, <2>2 DEF Types, sender, ledger
    <2>4. sold'[p] \in 0..filled[p] BY <1>0, <2>1, <2>2 DEF OrderInv
    <2>5. OrderInv(p)' BY <1>0, <2>1, <2>4 DEF OrderInv, ledger
    <2>6. \A q \in Proposals \ {p} : OrderInv(q)' BY <2>1 DEF OrderInv, Types, ledger
    <2> QED BY <2>3, <2>5, <2>6
<1>5. CASE Reconcile(p)
    <2>1. /\ intent' = [intent EXCEPT ![p] = "acknowledged"] /\ booked' = [booked EXCEPT ![p] = Held(p)]
          /\ entry[p] \notin {"none", "wire"} /\ UNCHANGED <<entry, filled, sold>>
        BY <1>5 DEF Reconcile, broker
    <2>2. Held(p) \in 0..filled[p]
        <3>1. sold[p] \in 0..filled[p] BY <1>0 DEF OrderInv
        <3> QED BY <1>0, <3>1 DEF Held
    <2>3. Types' BY <1>0, <2>1, <2>2 DEF Types, sender, Intents
    <2>4. OrderInv(p)' BY <1>0, <2>1, <2>2 DEF OrderInv, Types, Intents
    <2>5. \A q \in Proposals \ {p} : OrderInv(q)' BY <2>1 DEF OrderInv, Types
    <2> QED BY <2>3, <2>4, <2>5
<1> QED BY <1>1, <1>2, <1>3, <1>4, <1>5 DEF BrokerStep

\* A first fill takes the slot that its entry already had.
LEMMA SlotsEased ==
    ASSUME Types, \A q \in Proposals : OrderInv(q), NEW p \in Proposals, BrokerStep(p) \/ Reconcile(p)
    PROVE  Slots' <= Slots
<1>0. Types' /\ \A q \in Proposals : OrderInv(q)' BY EntryMoves
<1>1. /\ filled[p] \in Nat /\ sold[p] \in Nat /\ filled[p] >= sold[p] /\ OrderInv(p)
    BY DEF Types, OrderInv
<1>2. /\ IsFiniteSet(HeldSymbols) /\ IsFiniteSet(Unfilled)
      /\ Cardinality(HeldSymbols) \in Nat /\ Cardinality(Unfilled) \in Nat
    BY StakeType
<1>3. ASSUME HeldSymbols' \subseteq HeldSymbols, Unfilled' \subseteq Unfilled PROVE Slots' <= Slots
    <2>1. Cardinality(HeldSymbols') <= Cardinality(HeldSymbols) /\ IsFiniteSet(HeldSymbols')
        BY <1>2, <1>3, FS_Subset
    <2>2. Cardinality(Unfilled') <= Cardinality(Unfilled) /\ IsFiniteSet(Unfilled')
        BY <1>2, <1>3, FS_Subset
    <2>3. Cardinality(HeldSymbols') \in Nat /\ Cardinality(Unfilled') \in Nat
        BY <2>1, <2>2, FS_CardinalityType
    <2> QED BY <1>2, <2>1, <2>2, <2>3 DEF Slots
<1>4. CASE Deliver(p) \/ Cancel(p) \/ Reconcile(p)
    <2>1. UNCHANGED <<filled, sold>> /\ \A q \in Proposals : Coming(q)' => Coming(q)
        BY <1>4 DEF Deliver, Cancel, Reconcile, Coming, Types, broker
    <2>2. HeldSymbols' \subseteq HeldSymbols /\ Unfilled' \subseteq Unfilled
        BY <2>1 DEF HeldSymbols, Unfilled, Held, OfSymbol
    <2> QED BY <2>2, <1>3
<1>5. CASE Sell(p)
    <2>1. sold' = [sold EXCEPT ![p] = @ + 1] /\ UNCHANGED <<entry, filled>> BY <1>5 DEF Sell
    <2>2. \A q \in Proposals : Held(q)' > 0 => Held(q) > 0
        <3>1. sold'[p] = sold[p] + 1 /\ \A q \in Proposals \ {p} : sold'[q] = sold[q] BY <2>1 DEF Types
        <3>2. Held(p)' > 0 => Held(p) > 0 BY <1>1, <2>1, <3>1 DEF Held
        <3>3. \A q \in Proposals \ {p} : Held(q)' = Held(q) BY <2>1, <3>1 DEF Held
        <3> QED BY <3>2, <3>3
    <2>3. HeldSymbols' \subseteq HeldSymbols BY <2>2 DEF HeldSymbols, OfSymbol
    <2>4. Unfilled' \subseteq Unfilled BY <2>1 DEF Unfilled, Coming
    <2> QED BY <2>3, <2>4, <1>3
<1>6. CASE Fill(p)
    <2>1. /\ entry[p] = "working" /\ filled' = [filled EXCEPT ![p] = @ + 1] /\ UNCHANGED sold
          /\ entry' = [entry EXCEPT ![p] = IF filled'[p] = Qty[p] THEN "filled" ELSE @]
        BY <1>6 DEF Fill
    <2>2. filled'[p] = filled[p] + 1 /\ \A q \in Proposals \ {p} : filled'[q] = filled[q] /\ entry'[q] = entry[q]
        BY <2>1 DEF Types
    <2>3. \A q \in Proposals \ {p} : Held(q)' = Held(q) /\ (Coming(q)' <=> Coming(q))
        BY <2>1, <2>2 DEF Held, Coming
    <2>4. sold[p] = 0 /\ Coming(p) BY <1>1, <2>1 DEF OrderInv, Coming
    <2>5. HeldSymbols' \subseteq HeldSymbols \cup {SymbolOf[p]}
        <3> SUFFICES ASSUME NEW x \in Symbols, NEW q \in OfSymbol(x), Held(q)' > 0
                     PROVE  x \in HeldSymbols \cup {SymbolOf[p]}
            BY DEF HeldSymbols, OfSymbol
        <3>1. CASE q = p BY <3>1 DEF OfSymbol
        <3>2. CASE q # p BY <2>3, <3>2 DEF HeldSymbols, OfSymbol
        <3> QED BY <3>1, <3>2
    <2>6. Unfilled' \subseteq Unfilled \ {p} BY <1>1, <2>2, <2>3 DEF Unfilled
    <2>7. CASE filled[p] > 0
        <3>1. SymbolOf[p] \in HeldSymbols
            BY <1>1, <2>4, <2>7, ExposureAssumption DEF HeldSymbols, OfSymbol, Held
        <3> QED BY <1>3, <2>5, <2>6, <3>1
    <2>8. CASE filled[p] = 0
        <3> DEFINE H == HeldSymbols \cup {SymbolOf[p]}
                   U == Unfilled \ {p}
        <3>1. p \in Unfilled BY <2>4, <2>8 DEF Unfilled
        <3>2. IsFiniteSet(U) /\ Cardinality(U) = Cardinality(Unfilled) - 1
            BY <1>2, <3>1, FS_RemoveElement
        <3>a. /\ IsFiniteSet(H)
              /\ Cardinality(H) = IF SymbolOf[p] \in HeldSymbols THEN Cardinality(HeldSymbols)
                                  ELSE Cardinality(HeldSymbols) + 1
            BY <1>2, FS_AddElement
        <3>3. IsFiniteSet(H) /\ Cardinality(H) <= Cardinality(HeldSymbols) + 1 BY <1>2, <3>a
        <3>4. HeldSymbols' \subseteq H /\ Unfilled' \subseteq U BY <2>5, <2>6
        <3> HIDE DEF H, U
        <3>5. Cardinality(HeldSymbols') <= Cardinality(H) /\ Cardinality(HeldSymbols') \in Nat
            BY <3>3, <3>4, FS_Subset, FS_CardinalityType
        <3>6. Cardinality(Unfilled') <= Cardinality(U) /\ Cardinality(Unfilled') \in Nat
            BY <3>2, <3>4, FS_Subset, FS_CardinalityType
        <3>7. Cardinality(H) \in Nat BY <3>3, FS_CardinalityType
        <3>8. Cardinality(HeldSymbols') + Cardinality(Unfilled') <= Cardinality(HeldSymbols) + Cardinality(Unfilled)
            BY <1>2, <3>2, <3>3, <3>5, <3>6, <3>7
        <3> QED BY <3>8 DEF Slots
    <2> QED BY <1>1, <2>7, <2>8
<1> QED BY <1>4, <1>5, <1>6 DEF BrokerStep

\* Whatever happens to an entry once it is at the broker eases the account.
LEMMA EntryEases ==
    ASSUME Types, \A q \in Proposals : OrderInv(q), NEW p \in Proposals, BrokerStep(p) \/ Reconcile(p)
    PROVE  Eased
<1>0. Types' /\ \A q \in Proposals : OrderInv(q)' BY EntryMoves
<1>1. /\ filled[p] \in Nat /\ sold[p] \in Nat /\ OrderInv(p) /\ Qty[p] \in Nat
      /\ filled'[p] \in Nat /\ sold'[p] \in Nat /\ OrderInv(p)'
    BY <1>0, ExposureAssumption DEF Types
<1>2. ASSUME NEW q \in Proposals \ {p}
      PROVE  /\ filled'[q] = filled[q] /\ sold'[q] = sold[q]
             /\ entry'[q] = entry[q] /\ intent'[q] = intent[q]
    BY DEF Types, BrokerStep, Deliver, Fill, Cancel, Sell, Reconcile, ledger, broker
<1>3. /\ Coming(p)' => Coming(p)
      /\ intent'[p] = "none" <=> intent[p] = "none"
      /\ intent'[p] = "pending" => intent[p] = "pending"
    BY <1>1 DEF OrderInv, Types, BrokerStep, Deliver, Fill, Cancel, Sell, Reconcile, Coming, ledger, broker
<1>4. filled'[p] >= filled[p] /\ sold'[p] >= sold[p]
    BY <1>1 DEF Types, BrokerStep, Deliver, Fill, Cancel, Sell, Reconcile, ledger, broker
<1>5. Coming(p) \/ filled'[p] = filled[p]
    BY DEF BrokerStep, Deliver, Fill, Cancel, Sell, Reconcile, Coming, ledger, broker
<1>6. Stake'[p] <= Stake[p]
    <2>1. CASE Coming(p)'
        <3>1. Stake'[p] = Qty[p] - sold'[p] /\ Stake[p] = Qty[p] - sold[p] BY <1>3, <2>1 DEF Stake
        <3> QED BY <1>1, <1>4, <3>1
    <2>2. CASE ~Coming(p)' /\ Coming(p)
        <3>1. Stake'[p] = filled'[p] - sold'[p] /\ Stake[p] = Qty[p] - sold[p] BY <2>2 DEF Stake, Held
        <3>2. filled'[p] <= Qty[p] BY <1>1 DEF OrderInv
        <3> QED BY <1>1, <1>4, <3>1, <3>2
    <2>3. CASE ~Coming(p)
        <3>1. Stake'[p] = filled'[p] - sold'[p] /\ Stake[p] = filled[p] - sold[p]
            BY <1>3, <2>3 DEF Stake, Held
        <3> QED BY <1>1, <1>4, <1>5, <2>3, <3>1
    <2> QED BY <2>1, <2>2, <2>3
<1>7. \A q \in Proposals : Stake'[q] <= Stake[q]
    <2> SUFFICES ASSUME NEW q \in Proposals \ {p} PROVE Stake'[q] <= Stake[q] BY <1>6
    <2>1. Stake'[q] = Stake[q] BY <1>2 DEF Stake, Held, Coming
    <2>2. Stake[q] \in Nat BY StakeType
    <2> QED BY <2>1, <2>2
<1>8. Total(Stake)' <= Total(Stake) BY <1>0, <1>7, EasedBy
<1>9. \A q \in Proposals \ {p} : (Coming(q)' => Coming(q)) /\ filled'[q] >= filled[q]
    BY <1>2 DEF Coming, Types
<1> QED BY <1>2, <1>3, <1>4, <1>8, <1>9, SlotsEased DEF Eased

----------------------------------------------------------------------------
(* The senders.                                                             *)

\* Nobody else than the owner of the account is checking.
LEMMA OneChecks ==
    ASSUME AccountInv, NEW s \in Senders, Checking(s) \/ owner = Nobody
    PROVE  \A t \in Senders \ {s} : ~Checking(t)
BY ExposureAssumption DEF AccountInv

\* The day's count is of the intents, whatever becomes of them.
LEMMA TradesStay ==
    ASSUME Eased
    PROVE  TradesToday' = TradesToday
<1>1. {p \in Proposals : intent'[p] # "none"} = {p \in Proposals : intent[p] # "none"} BY DEF Eased
<1> QED BY <1>1 DEF TradesToday

\* Nothing becomes unresolved while the account is eased.
LEMMA ResolvedStays == ASSUME Eased, NoneUnresolved PROVE NoneUnresolved'
BY DEF Eased, NoneUnresolved, Unresolved

\* The reads of a sender stay good while the account is eased.
LEMMA ReadsStay ==
    ASSUME AccountInv, Types', \A p \in Proposals : OrderInv(p)', Eased, UNCHANGED <<sender, owner>>
    PROVE  AccountInv'
<1>1. Total(Stake)' <= Total(Stake) /\ Slots' <= Slots BY DEF Eased
<1>2. Total(Stake) \in Nat /\ Slots \in Nat /\ Total(Stake)' \in Nat /\ Slots' \in Nat
    BY StakeType, StakeTypeAfter DEF AccountInv, Slots
<1>3. TradesToday' = TradesToday BY TradesStay
<1>4. UNCHANGED <<pc, prop, first, open, last, owner>> BY DEF sender
<1>5. Total(Stake)' <= Equity /\ Slots' <= MaxOpen /\ TradesToday' <= MaxTrades
    BY <1>1, <1>2, <1>3, ExposureAssumption DEF AccountInv
<1>6. ASSUME NEW s \in Senders PROVE SenderInv(s)'
    <2>1. SenderInv(s) BY DEF AccountInv
    <2>2. Checking(s)' => owner' = s /\ prop'[s] \in Proposals /\ intent'[prop'[s]] = "none" /\ NoneUnresolved'
        BY <1>4, <2>1, ResolvedStays DEF SenderInv, Checking, Eased
    <2>3. pc'[s] \in {"orders", "read"} => \A p \in Proposals : Coming(p)' =>
              open'[s][p] >= Qty[p] - filled'[p] /\ (filled'[p] = 0 => open'[s][p] = Qty[p])
        <3> SUFFICES ASSUME pc[s] \in {"orders", "read"}, NEW p \in Proposals, Coming(p)'
                     PROVE  open[s][p] >= Qty[p] - filled'[p] /\ (filled'[p] = 0 => open[s][p] = Qty[p])
            BY <1>4
        <3>1. Coming(p) /\ filled'[p] >= filled[p] BY DEF Eased
        <3>2. open[s][p] >= Qty[p] - filled[p] /\ (filled[p] = 0 => open[s][p] = Qty[p])
            BY <2>1, <3>1 DEF SenderInv
        <3>3. filled[p] \in Nat /\ filled'[p] \in Nat /\ Qty[p] \in Nat /\ open[s][p] \in Nat
            BY ExposureAssumption DEF AccountInv, Types
        <3> QED BY <3>1, <3>2, <3>3
    <2>4. CASE pc[s] = "read"
        <3>1. Committed(s)' = Committed(s) BY <1>4 DEF Committed, Total, SharesIn
        <3>2. HeldIn(last[s])' = HeldIn(last[s]) /\ PendingSlots(s)' = PendingSlots(s)
            BY <1>4 DEF HeldIn, PendingSlots
        <3>3. Committed(s) \in Nat
            <4>1. open[s] \in [Proposals -> Nat] /\ last[s] \in [Symbols -> Nat] BY DEF AccountInv, Types
            <4> QED BY <4>1, TotalType, ExposureAssumption DEF Committed
        <3>4. Cardinality(HeldIn(last[s])) \in Nat /\ PendingSlots(s) \in Nat
            <4>1. /\ HeldIn(last[s]) \subseteq Symbols
                  /\ {p \in Proposals : open[s][p] > 0 /\ (open[s][p] = Qty[p] \/ SymbolOf[p] \notin HeldIn(last[s]))}
                       \subseteq Proposals
                BY DEF HeldIn
            <4> QED BY <4>1, FS_Subset, FS_CardinalityType, ExposureAssumption DEF PendingSlots
        <3>5. Total(Stake) <= Committed(s) /\ Slots <= Cardinality(HeldIn(last[s])) + PendingSlots(s)
            BY <2>1, <2>4 DEF SenderInv
        <3>6. /\ Total(Stake)' <= Committed(s)'
              /\ Slots' <= Cardinality(HeldIn(last[s]))' + PendingSlots(s)'
            BY <1>1, <1>2, <3>1, <3>2, <3>3, <3>4, <3>5
        <3> QED BY <1>4, <2>2, <2>3, <2>4, <3>6 DEF SenderInv
    <2>5. CASE pc[s] = "cleared"
        <3>1. prop[s] \in Proposals /\ Qty[prop[s]] \in Nat /\ MaxOpen \in Nat /\ Equity \in Nat
            BY <2>1, <2>5, ExposureAssumption DEF SenderInv, Checking, Pcs
        <3>2. Total(Stake) + Qty[prop[s]] <= Equity /\ Slots < MaxOpen /\ TradesToday < MaxTrades
            BY <2>1, <2>5 DEF SenderInv
        <3>3. Total(Stake)' + Qty[prop[s]] <= Equity /\ Slots' < MaxOpen /\ TradesToday' < MaxTrades
            BY <1>1, <1>2, <1>3, <3>1, <3>2
        <3> QED BY <1>4, <2>2, <2>3, <2>5, <3>3 DEF SenderInv
    <2> QED BY <1>4, <2>2, <2>3, <2>4, <2>5 DEF SenderInv
<1>7. \A s \in Senders : (Checking(s)' <=> owner' = s) /\ (prop'[s] = Nobody <=> ~Checking(s)')
    BY <1>4 DEF AccountInv, Checking
<1> QED BY <1>5, <1>6, <1>7 DEF AccountInv

\* What a sender at work leaves behind is the account's invariant.
LEMMA SenderFrame ==
    ASSUME AccountInv, NEW s \in Senders, Checking(s) \/ owner = Nobody, Types',
           \A t \in Senders \ {s} : pc'[t] = pc[t] /\ prop'[t] = prop[t],
           owner' \in {s, Nobody}, Checking(s)' <=> owner' = s, prop'[s] = Nobody <=> ~Checking(s)',
           SenderInv(s)', \A p \in Proposals : OrderInv(p)',
           Total(Stake)' <= Equity, Slots' <= MaxOpen, TradesToday' <= MaxTrades
    PROVE  AccountInv'
<1>1. ASSUME NEW t \in Senders \ {s}
      PROVE  SenderInv(t)' /\ (Checking(t)' <=> owner' = t) /\ (prop'[t] = Nobody <=> ~Checking(t)')
    <2>1. pc'[t] = "idle" /\ prop'[t] = Nobody /\ ~Checking(t)'
        BY OneChecks DEF AccountInv, Types, Checking
    <2>2. owner' # t BY ExposureAssumption
    <2> QED BY <2>1, <2>2 DEF SenderInv, Checking
<1> QED BY <1>1 DEF AccountInv

\* A sender that reads, refuses or gives up changes nothing in the account.
LEMMA ReaderFrame ==
    ASSUME AccountInv, NEW s \in Senders, Checking(s) \/ owner = Nobody, Types', UNCHANGED <<broker, ledger>>,
           \A t \in Senders \ {s} : pc'[t] = pc[t] /\ prop'[t] = prop[t],
           owner' \in {s, Nobody}, Checking(s)' <=> owner' = s, prop'[s] = Nobody <=> ~Checking(s)',
           SenderInv(s)'
    PROVE  AccountInv'
<1>1. \A p \in Proposals : OrderInv(p)' BY DEF AccountInv, OrderInv, broker, ledger
<1>2. Stake' = Stake /\ HeldSymbols' = HeldSymbols /\ Unfilled' = Unfilled /\ TradesToday' = TradesToday
    BY DEF Stake, HeldSymbols, Unfilled, TradesToday, Coming, Held, OfSymbol, broker, ledger
<1>3. Total(Stake)' = Total(Stake) /\ Slots' = Slots BY <1>2 DEF Total, SharesIn, Slots
<1>4. Total(Stake)' <= Equity /\ Slots' <= MaxOpen /\ TradesToday' <= MaxTrades
    BY <1>2, <1>3 DEF AccountInv
<1> QED BY <1>1, <1>4, SenderFrame

\* Taking the account, with nothing unresolved.
LEMMA BeginSafe ==
    ASSUME AccountInv, NEW s \in Senders, NEW p \in Proposals, Begin(s, p)
    PROVE  AccountInv'
<1>1. /\ owner = Nobody /\ intent[p] = "none" /\ NoneUnresolved /\ owner' = s
      /\ prop' = [prop EXCEPT ![s] = p] /\ pc' = [pc EXCEPT ![s] = "account"]
      /\ UNCHANGED <<broker, ledger, first, open, last>>
    BY DEF Begin, Goto
<1>2. Types' BY <1>1 DEF AccountInv, Types, Pcs, broker, ledger
<1>3. pc'[s] = "account" /\ prop'[s] = p BY <1>1 DEF AccountInv, Types
<1>4. Checking(s)' BY <1>3 DEF Checking, Pcs
<1>5. NoneUnresolved' /\ intent'[p] = "none" BY <1>1 DEF NoneUnresolved, Unresolved, ledger
<1>6. SenderInv(s)' BY <1>1, <1>3, <1>5 DEF SenderInv
<1>7. \A t \in Senders \ {s} : pc'[t] = pc[t] /\ prop'[t] = prop[t] BY <1>1 DEF AccountInv, Types
<1> QED BY <1>1, <1>2, <1>3, <1>4, <1>6, <1>7, ReaderFrame, ExposureAssumption

\* A read that only moves on: what it says is told by the caller.
LEMMA ReadSafe ==
    ASSUME AccountInv, NEW s \in Senders, Checking(s), NEW at \in Pcs \ {"idle"}, Goto(s, at),
           UNCHANGED <<broker, ledger, prop, owner>>,
           first' \in [Senders -> [Symbols -> Nat]], last' \in [Senders -> [Symbols -> Nat]],
           open' \in [Senders -> [Proposals -> Nat]],
           at \in {"orders", "read"} => \A p \in Proposals : Coming(p) =>
               open'[s][p] >= Qty[p] - filled[p] /\ (filled[p] = 0 => open'[s][p] = Qty[p]),
           at = "read" => Total(Stake) <= Committed(s)' /\ Slots <= Cardinality(HeldIn(last'[s])) + PendingSlots(s)',
           at = "cleared" => Total(Stake) + Qty[prop[s]] <= Equity /\ Slots < MaxOpen /\ TradesToday < MaxTrades
    PROVE  AccountInv'
<1>1. Types' BY DEF AccountInv, Types, Goto, broker, ledger
<1>2. pc'[s] = at /\ \A t \in Senders \ {s} : pc'[t] = pc[t] /\ prop'[t] = prop[t]
    BY DEF AccountInv, Types, Goto
<1>3. Checking(s)' BY <1>2 DEF Checking
<1>4. SenderInv(s) /\ owner = s /\ prop[s] \in Proposals /\ intent[prop[s]] = "none" /\ NoneUnresolved
    BY DEF AccountInv, SenderInv
<1>5. Stake' = Stake /\ HeldSymbols' = HeldSymbols /\ Unfilled' = Unfilled /\ TradesToday' = TradesToday
    BY DEF Stake, HeldSymbols, Unfilled, TradesToday, Coming, Held, OfSymbol, broker, ledger
<1>6. Total(Stake)' = Total(Stake) /\ Slots' = Slots BY <1>5 DEF Total, SharesIn, Slots
<1>7. NoneUnresolved' /\ intent'[prop'[s]] = "none" BY <1>4 DEF NoneUnresolved, Unresolved, ledger
<1>8. \A p \in Proposals : filled'[p] = filled[p] /\ (Coming(p)' <=> Coming(p)) BY DEF broker, Coming
<1>9. HeldIn(last[s])' = HeldIn(last'[s]) BY DEF HeldIn
<1>a. at \in {"orders", "read"} => \A p \in Proposals : Coming(p)' =>
          open'[s][p] >= Qty[p] - filled'[p] /\ (filled'[p] = 0 => open'[s][p] = Qty[p])
    BY <1>8
<1>b. at = "read" =>
          Total(Stake)' <= Committed(s)' /\ Slots' <= Cardinality(HeldIn(last[s]))' + PendingSlots(s)'
    BY <1>6, <1>9
<1>c. at = "cleared" => Total(Stake)' + Qty[prop'[s]] <= Equity /\ Slots' < MaxOpen /\ TradesToday' < MaxTrades
    BY <1>5, <1>6
<1>d. owner' = s /\ prop'[s] \in Proposals BY <1>4
<1>e. SenderInv(s)' BY <1>2, <1>7, <1>a, <1>b, <1>c, <1>d DEF SenderInv
<1> QED BY <1>1, <1>2, <1>3, <1>d, <1>e, ReaderFrame, ExposureAssumption

\* The two reads of what was there before the positions are read again.
LEMMA ReadsSafe ==
    ASSUME AccountInv, NEW s \in Senders, ReadPositions(s) \/ ReadOrders(s)
    PROVE  AccountInv'
<1>1. Types /\ \A p \in Proposals : OrderInv(p) BY DEF AccountInv
<1>2. CASE ReadPositions(s)
    <2>1. /\ Checking(s) /\ Goto(s, "positions") /\ UNCHANGED <<broker, ledger, prop, open, last, owner>>
          /\ first' = [first EXCEPT ![s] = Positions]
        BY <1>2 DEF ReadPositions, Checking, Pcs
    <2>2. Positions \in [Symbols -> Nat] BY <1>1, HeldInPositions
    <2>3. /\ first' \in [Senders -> [Symbols -> Nat]] /\ last' \in [Senders -> [Symbols -> Nat]]
          /\ open' \in [Senders -> [Proposals -> Nat]]
        BY <1>1, <2>1, <2>2 DEF Types
    <2> QED BY <2>1, <2>3, ReadSafe DEF Pcs
<1>3. CASE ReadOrders(s)
    <2>1. /\ Checking(s) /\ Goto(s, "orders") /\ UNCHANGED <<broker, ledger, prop, first, last, owner>>
          /\ open' = [open EXCEPT ![s] = OpenEntries]
        BY <1>3 DEF ReadOrders, Checking, Pcs
    <2>2. NoneUnresolved BY <2>1 DEF AccountInv, SenderInv
    <2>3. ASSUME NEW p \in Proposals
          PROVE  /\ OpenEntries[p] \in Nat
                 /\ Coming(p) => OpenEntries[p] >= Qty[p] - filled[p]
                                 /\ (filled[p] = 0 => OpenEntries[p] = Qty[p])
        <3>1. OrderInv(p) /\ Qty[p] \in Nat /\ filled[p] \in Nat BY <1>1, ExposureAssumption DEF Types
        <3>2. Coming(p) => entry[p] = "working"
            BY <2>2, <3>1 DEF Coming, OrderInv, NoneUnresolved, Unresolved
        <3>3. entry[p] = "working" => filled[p] < Qty[p] BY <3>1 DEF OrderInv
        <3>4. OpenEntries[p] = IF entry[p] = "working" THEN Qty[p] - filled[p] ELSE 0 BY DEF OpenEntries
        <3> QED BY <3>1, <3>2, <3>3, <3>4
    <2>4. OpenEntries \in [Proposals -> Nat] BY <2>3 DEF OpenEntries
    <2>5. /\ first' \in [Senders -> [Symbols -> Nat]] /\ last' \in [Senders -> [Symbols -> Nat]]
          /\ open' \in [Senders -> [Proposals -> Nat]] /\ open'[s] = OpenEntries
        BY <1>1, <2>1, <2>4 DEF Types
    <2>6. \A p \in Proposals : Coming(p) =>
              open'[s][p] >= Qty[p] - filled[p] /\ (filled[p] = 0 => open'[s][p] = Qty[p])
        BY <2>3, <2>5
    <2> QED BY <2>1, <2>5, <2>6, ReadSafe DEF Pcs
<1> QED BY <1>2, <1>3

\* The positions read last and the orders read before them overstate the account.
LEMMA ReadAgainSafe ==
    ASSUME AccountInv, NEW s \in Senders, ReadAgain(s)
    PROVE  AccountInv'
<1>1. Types /\ \A p \in Proposals : OrderInv(p) BY DEF AccountInv
<1>2. /\ Checking(s) /\ pc[s] = "orders" /\ Goto(s, "read")
      /\ UNCHANGED <<broker, ledger, prop, first, open, owner>>
      /\ last' = [last EXCEPT ![s] = Positions]
    BY DEF ReadAgain, Checking, Pcs
<1>3. Positions \in [Symbols -> Nat] /\ HeldIn(Positions) = HeldSymbols BY <1>1, HeldInPositions
<1>4. /\ first' \in [Senders -> [Symbols -> Nat]] /\ last' \in [Senders -> [Symbols -> Nat]]
      /\ open' \in [Senders -> [Proposals -> Nat]] /\ last'[s] = Positions /\ open'[s] = open[s]
    BY <1>1, <1>2, <1>3 DEF Types
<1>5. \A p \in Proposals : Coming(p) =>
          open[s][p] >= Qty[p] - filled[p] /\ (filled[p] = 0 => open[s][p] = Qty[p])
    BY <1>2 DEF AccountInv, SenderInv
<1>6. open[s] \in [Proposals -> Nat] BY <1>1 DEF Types
<1>7. Total(Stake) <= Committed(s)'
    <2> DEFINE h == [p \in Proposals |-> Held(p)]
    <2>1. h \in [Proposals -> Nat] /\ Stake \in [Proposals -> Nat] BY <1>1, StakeType
    <2>2. ASSUME NEW p \in Proposals PROVE Stake[p] <= h[p] + open[s][p]
        <3>1. /\ Qty[p] \in Nat /\ filled[p] \in Nat /\ sold[p] \in Nat /\ open[s][p] \in Nat
            BY <1>1, <1>6, ExposureAssumption DEF Types
        <3>2. h[p] = filled[p] - sold[p] BY DEF Held
        <3>3. Stake[p] = IF Coming(p) THEN Qty[p] - sold[p] ELSE filled[p] - sold[p] BY DEF Stake, Held
        <3>4. Coming(p) => open[s][p] >= Qty[p] - filled[p] BY <1>5
        <3> HIDE DEF h
        <3> QED BY <3>1, <3>2, <3>3, <3>4
    <2> HIDE DEF h
    <2>3. Total(Stake) <= Total(h) + Total(open[s])
        BY <1>6, <2>1, <2>2, TotalSum, ExposureAssumption
    <2>4. Total(h) <= Total(Positions) BY <1>1, HeldIsRead DEF h
    <2>5. /\ Total(h) \in Nat /\ Total(open[s]) \in Nat /\ Total(Stake) \in Nat /\ Total(Positions) \in Nat
        BY <1>3, <1>6, <2>1, TotalType, ExposureAssumption
    <2>6. Committed(s)' = Total(Positions) + Total(open[s])
        <3>1. Committed(s)' = Total(last'[s]) + Total(open'[s]) BY DEF Committed, Total, SharesIn
        <3> QED BY <1>4, <3>1
    <2> QED BY <2>3, <2>4, <2>5, <2>6
<1>8. Slots <= Cardinality(HeldIn(last'[s])) + PendingSlots(s)'
    <2> DEFINE P == {p \in Proposals : open[s][p] > 0 /\ (open[s][p] = Qty[p] \/ SymbolOf[p] \notin HeldSymbols)}
    <2>1. PendingSlots(s)' = Cardinality(P)
        <3>1. HeldIn(last[s])' = HeldSymbols BY <1>3, <1>4 DEF HeldIn
        <3> QED BY <1>4, <3>1 DEF PendingSlots
    <2>2. Unfilled \subseteq P BY <1>5, ExposureAssumption DEF Unfilled
    <2>3. IsFiniteSet(P) BY FS_Subset, ExposureAssumption
    <2> HIDE DEF P
    <2>4. Cardinality(Unfilled) <= Cardinality(P) /\ Cardinality(P) \in Nat
        BY <2>2, <2>3, FS_Subset, FS_CardinalityType
    <2>5. Cardinality(HeldSymbols) \in Nat /\ Cardinality(Unfilled) \in Nat BY <1>1, StakeType
    <2> QED BY <1>3, <1>4, <2>1, <2>4, <2>5 DEF Slots
<1> QED BY <1>2, <1>4, <1>5, <1>7, <1>8, ReadSafe DEF Pcs

\* What fits beside the reads fits beside what they overstate.
LEMMA AssessSafe ==
    ASSUME AccountInv, NEW s \in Senders, Assess(s)
    PROVE  AccountInv'
<1>1. Types /\ \A p \in Proposals : OrderInv(p) BY DEF AccountInv
<1>2. /\ Checking(s) /\ pc[s] = "read" /\ Fits(s) /\ Goto(s, "cleared")
      /\ UNCHANGED <<broker, ledger, prop, first, open, last, owner>>
    BY DEF Assess, Checking, Pcs
<1>3. /\ Total(Stake) <= Committed(s) /\ Slots <= Cardinality(HeldIn(last[s])) + PendingSlots(s)
      /\ prop[s] \in Proposals
    BY <1>2 DEF AccountInv, SenderInv
<1>4. Total(Stake) \in Nat /\ Slots \in Nat BY <1>1, StakeType DEF Slots
<1>5. Total(Stake) + Qty[prop[s]] <= Equity
    <2>1. open[s] \in [Proposals -> Nat] /\ last[s] \in [Symbols -> Nat] BY <1>1 DEF Types
    <2>2. Committed(s) \in Nat BY <2>1, TotalType, ExposureAssumption DEF Committed
    <2>3. Qty[prop[s]] \in Nat /\ Equity \in Nat BY <1>3, ExposureAssumption
    <2>4. Qty[prop[s]] <= Equity - Committed(s) BY <1>2 DEF Fits
    <2> QED BY <1>3, <1>4, <2>2, <2>3, <2>4
<1>6. Slots < MaxOpen
    <2> DEFINE a == Cardinality(HeldIn(last[s]))
               b == Cardinality({p \in Proposals : booked[p] > 0})
    <2>1. a \in Nat /\ b \in Nat /\ PendingSlots(s) \in Nat
        <3>1. /\ HeldIn(last[s]) \subseteq Symbols /\ {p \in Proposals : booked[p] > 0} \subseteq Proposals
              /\ {p \in Proposals : open[s][p] > 0 /\ (open[s][p] = Qty[p] \/ SymbolOf[p] \notin HeldIn(last[s]))}
                   \subseteq Proposals
            BY DEF HeldIn
        <3> QED BY <3>1, FS_Subset, FS_CardinalityType, ExposureAssumption DEF PendingSlots
    <2>2. OpenPositions(s) = Max({a, b}) + PendingSlots(s) BY DEF OpenPositions
    <2> HIDE DEF a, b
    <2>3. Max({a, b}) \in Nat /\ Max({a, b}) >= a
        <3>1. \E m \in {a, b} : \A n \in {a, b} : m >= n BY <2>1
        <3>2. Max({a, b}) \in {a, b} /\ \A n \in {a, b} : Max({a, b}) >= n BY <3>1 DEF Max
        <3> QED BY <2>1, <3>2
    <2>4. OpenPositions(s) < MaxOpen /\ MaxOpen \in Nat BY <1>2, ExposureAssumption DEF Fits
    <2>5. Slots <= a + PendingSlots(s) BY <1>3 DEF a
    <2> QED BY <1>4, <2>1, <2>2, <2>3, <2>4, <2>5
<1>7. TradesToday < MaxTrades BY <1>2 DEF Fits
<1> QED BY <1>1, <1>2, <1>5, <1>6, <1>7, ReadSafe DEF Types, Pcs

\* Leaving the account gives it free.
LEMMA Left ==
    ASSUME AccountInv, NEW s \in Senders, Checking(s), Leave(s)
    PROVE  /\ owner' = Nobody /\ pc'[s] = "idle" /\ prop'[s] = Nobody /\ ~Checking(s)'
           /\ \A t \in Senders \ {s} : pc'[t] = pc[t] /\ prop'[t] = prop[t]
           /\ pc' \in [Senders -> Pcs] /\ prop' \in [Senders -> Proposals \cup {Nobody}]
           /\ open' \in [Senders -> [Proposals -> Nat]] /\ {first', last'} \subseteq [Senders -> [Symbols -> Nat]]
           /\ SenderInv(s)'
<1>1. owner = s BY DEF AccountInv
<1>2. owner' = Nobody /\ pc'[s] = "idle" /\ prop'[s] = Nobody /\ ~Checking(s)'
    BY <1>1 DEF Leave, Goto, AccountInv, Types, Checking
<1>3. \A t \in Senders \ {s} : pc'[t] = pc[t] /\ prop'[t] = prop[t]
    BY DEF Leave, Goto, AccountInv, Types
<1>4. [x \in Symbols |-> 0] \in [Symbols -> Nat] /\ [p \in Proposals |-> 0] \in [Proposals -> Nat] OBVIOUS
<1>5. open' \in [Senders -> [Proposals -> Nat]] /\ {first', last'} \subseteq [Senders -> [Symbols -> Nat]]
    BY <1>4 DEF Leave, AccountInv, Types
<1>6. pc' \in [Senders -> Pcs] /\ prop' \in [Senders -> Proposals \cup {Nobody}]
    BY DEF Leave, Goto, AccountInv, Types, Pcs
<1> QED BY <1>2, <1>3, <1>5, <1>6 DEF SenderInv

\* A refusal at any gate, or the death of the process.
LEMMA RefuseSafe ==
    ASSUME AccountInv, NEW s \in Senders, Refuse(s)
    PROVE  AccountInv'
<1>1. Checking(s) /\ Leave(s) /\ UNCHANGED <<broker, ledger>>
    BY DEF Refuse, Checking, AccountInv, Types
<1>2. Types' BY <1>1, Left DEF AccountInv, Types, broker, ledger
<1> QED BY <1>1, <1>2, Left, ReaderFrame, ExposureAssumption

\* The POST puts at stake no more than was cleared.
LEMMA SubmitSafe ==
    ASSUME AccountInv, NEW s \in Senders, Submit(s)
    PROVE  AccountInv'
<1>1. Types /\ \A p \in Proposals : OrderInv(p) BY DEF AccountInv
<1>2. /\ pc[s] = "cleared" /\ Checking(s) /\ Leave(s) /\ UNCHANGED <<filled, sold, booked>>
    BY DEF Submit, Checking, Pcs
<1>3. PICK p \in Proposals : p = prop[s] /\ intent[p] = "none"
    BY <1>2 DEF AccountInv, SenderInv
<1>4. PICK outcome \in {<<"acknowledged", "working">>, <<"pending", "wire">>, <<"settled", "none">>} :
          intent' = [intent EXCEPT ![p] = outcome[1]] /\ entry' = [entry EXCEPT ![p] = outcome[2]]
    BY <1>3 DEF Submit
<1>5. /\ Total(Stake) + Qty[p] <= Equity /\ Slots < MaxOpen /\ TradesToday < MaxTrades
    BY <1>2, <1>3 DEF AccountInv, SenderInv
<1>6. /\ filled[p] = 0 /\ sold[p] = 0 /\ entry[p] = "none" /\ Qty[p] \in Nat \ {0} /\ booked[p] \in Nat
      /\ OrderInv(p)
    <2>1. OrderInv(p) /\ filled[p] \in Nat /\ sold[p] \in Nat BY <1>1 DEF Types
    <2>2. entry[p] = "none" /\ filled[p] = 0 BY <1>3, <2>1 DEF OrderInv
    <2>3. sold[p] \in 0..filled[p] BY <2>1 DEF OrderInv
    <2> QED BY <1>1, <2>1, <2>2, <2>3, ExposureAssumption DEF Types
<1>7. \A q \in Proposals \ {p} : intent'[q] = intent[q] /\ entry'[q] = entry[q] BY <1>1, <1>4 DEF Types
<1>8. Types'
    <2>1. entry' \in [Proposals -> Entries] /\ intent' \in [Proposals -> Intents]
        BY <1>1, <1>4 DEF Types, Entries, Intents
    <2> QED BY <1>1, <1>2, <2>1, Left DEF Types
<1>9. \A q \in Proposals : OrderInv(q)'
    <2>1. OrderInv(p)'
        <3>1. intent'[p] = outcome[1] /\ entry'[p] = outcome[2] BY <1>1, <1>4 DEF Types
        <3> QED BY <1>2, <1>6, <3>1, <1>4 DEF OrderInv, Entries, Intents
    <2>2. ASSUME NEW q \in Proposals \ {p} PROVE OrderInv(q)' BY <1>1, <1>2, <1>7 DEF OrderInv
    <2> QED BY <2>1, <2>2
<1>a. Total(Stake)' <= Equity
    <2>1. Stake \in [Proposals -> Nat] /\ Total(Stake) \in Nat BY <1>1, StakeType
    <2>2. Stake' \in [Proposals -> Nat] /\ Total(Stake)' \in Nat BY <1>8, <1>9, StakeTypeAfter
    <2>3. Stake'[p] <= Qty[p] BY <1>2, <1>6 DEF Stake, Held
    <2>4. ASSUME NEW q \in Proposals \ {p} PROVE Stake'[q] <= Stake[q]
        <3>1. Stake'[q] = Stake[q] BY <1>2, <1>7 DEF Stake, Held, Coming
        <3> QED BY <2>1, <3>1
    <2>5. Total(Stake') <= Total(Stake) + Qty[p]
        BY <1>6, <2>1, <2>2, <2>3, <2>4, TotalAdded, ExposureAssumption
    <2>6. Total(Stake)' = Total(Stake') BY DEF Total, SharesIn
    <2> QED BY <1>5, <1>6, <2>1, <2>2, <2>5, <2>6, ExposureAssumption
<1>b. Slots' <= MaxOpen
    <2> DEFINE U == Unfilled \cup {p}
    <2>1. HeldSymbols' = HeldSymbols BY <1>2 DEF HeldSymbols, Held, OfSymbol
    <2>2. Unfilled' \subseteq U BY <1>2, <1>7 DEF Unfilled, Coming
    <2>3. /\ IsFiniteSet(Unfilled) /\ Cardinality(HeldSymbols) \in Nat /\ Cardinality(Unfilled) \in Nat
        BY <1>1, StakeType
    <2>4. /\ IsFiniteSet(U)
          /\ Cardinality(U) = IF p \in Unfilled THEN Cardinality(Unfilled) ELSE Cardinality(Unfilled) + 1
        BY <2>3, FS_AddElement
    <2> HIDE DEF U
    <2>5. Cardinality(Unfilled') <= Cardinality(U) /\ Cardinality(Unfilled') \in Nat
        BY <2>2, <2>4, FS_Subset, FS_CardinalityType
    <2>6. Slots' = Cardinality(HeldSymbols) + Cardinality(Unfilled') BY <2>1 DEF Slots
    <2>7. MaxOpen \in Nat /\ Cardinality(HeldSymbols) + Cardinality(Unfilled) < MaxOpen
        BY <1>5, ExposureAssumption DEF Slots
    <2>8. Cardinality(U) <= Cardinality(Unfilled) + 1 /\ Cardinality(U) \in Nat BY <2>3, <2>4
    <2> QED BY <2>3, <2>5, <2>6, <2>7, <2>8
<1>c. TradesToday' <= MaxTrades
    <2> DEFINE D == {q \in Proposals : intent[q] # "none"}
               E == {q \in Proposals : intent'[q] # "none"}
               N == D \cup {p}
    <2>1. E \subseteq N BY <1>7
    <2>2. IsFiniteSet(D) /\ Cardinality(D) \in Nat BY FS_Subset, FS_CardinalityType, ExposureAssumption
    <2>3. TradesToday = Cardinality(D) /\ TradesToday' = Cardinality(E) BY DEF TradesToday
    <2> HIDE DEF D, E
    <2>4. IsFiniteSet(N) /\ Cardinality(N) = IF p \in D THEN Cardinality(D) ELSE Cardinality(D) + 1
        BY <2>2, FS_AddElement
    <2> HIDE DEF N
    <2>5. Cardinality(E) <= Cardinality(N) /\ Cardinality(E) \in Nat
        BY <2>1, <2>4, FS_Subset, FS_CardinalityType
    <2>6. MaxTrades \in Nat /\ Cardinality(D) < MaxTrades BY <1>5, <2>3, ExposureAssumption
    <2>7. Cardinality(N) <= Cardinality(D) + 1 /\ Cardinality(N) \in Nat BY <2>2, <2>4
    <2> QED BY <2>2, <2>3, <2>5, <2>6, <2>7
<1> QED BY <1>2, <1>8, <1>9, <1>a, <1>b, <1>c, Left, SenderFrame, ExposureAssumption

----------------------------------------------------------------------------
(* The theorems.                                                            *)

\* At the start nothing is at stake.
LEMMA InitAccount == Init => AccountInv
<1> SUFFICES ASSUME Init PROVE AccountInv OBVIOUS
<1>1. Types BY DEF Init, Types, Entries, Intents, Pcs
<1>2. \A p \in Proposals : OrderInv(p) BY ExposureAssumption DEF Init, OrderInv, Entries, Intents
<1>3. \A s \in Senders : SenderInv(s) /\ (Checking(s) <=> owner = s) /\ (prop[s] = Nobody <=> ~Checking(s))
    BY ExposureAssumption DEF Init, SenderInv, Checking
<1>4. Stake \in [Proposals -> Nat] /\ \A p \in Proposals : ~(Stake[p] > 0)
    <2>1. \A p \in Proposals : Stake[p] = 0 BY DEF Init, Stake, Coming, Held
    <2> QED BY <2>1 DEF Stake
<1>5. Total(Stake) <= Equity
    <2>1. Total(Stake) \in Nat /\ ~(Total(Stake) > 0) BY <1>4, TotalType, TotalPositive, ExposureAssumption
    <2> QED BY <2>1, ExposureAssumption
<1>6. HeldSymbols = {} /\ Unfilled = {} BY DEF Init, HeldSymbols, Unfilled, Held, Coming, OfSymbol
<1>7. Slots <= MaxOpen BY <1>6, FS_EmptySet, ExposureAssumption DEF Slots
<1>8. {p \in Proposals : intent[p] # "none"} = {} BY DEF Init
<1>9. TradesToday <= MaxTrades BY <1>8, FS_EmptySet, ExposureAssumption DEF TradesToday
<1> QED BY <1>1, <1>2, <1>3, <1>5, <1>7, <1>9 DEF AccountInv

\* Every step keeps it.
LEMMA StepAccount == AccountInv /\ [Next]_vars => AccountInv'
<1> SUFFICES ASSUME AccountInv, [Next]_vars PROVE AccountInv' OBVIOUS
<1>1. ASSUME NEW s \in Senders, SenderStep(s) PROVE AccountInv'
    BY <1>1, BeginSafe, ReadsSafe, ReadAgainSafe, AssessSafe, SubmitSafe, RefuseSafe DEF SenderStep
<1>2. ASSUME NEW p \in Proposals, BrokerStep(p) \/ Reconcile(p) PROVE AccountInv'
    <2>1. Types /\ \A q \in Proposals : OrderInv(q) BY DEF AccountInv
    <2>2. UNCHANGED <<sender, owner>>
        BY <1>2 DEF BrokerStep, Deliver, Fill, Cancel, Sell, Reconcile
    <2> QED BY <1>2, <2>1, <2>2, EntryMoves, EntryEases, ReadsStay
<1>3. CASE UNCHANGED vars
    <2>1. Types /\ \A q \in Proposals : OrderInv(q) BY DEF AccountInv
    <2>2. Types' /\ \A q \in Proposals : OrderInv(q)'
        BY <1>3, <2>1 DEF Types, OrderInv, vars, broker, ledger, sender
    <2>3. Stake' = Stake /\ HeldSymbols' = HeldSymbols /\ Unfilled' = Unfilled
        BY <1>3 DEF Stake, HeldSymbols, Unfilled, Coming, Held, OfSymbol, vars, broker
    <2>4. Total(Stake)' = Total(Stake) /\ Slots' = Slots BY <2>3 DEF Total, SharesIn, Slots
    <2>5. Total(Stake) \in Nat /\ Slots \in Nat BY <2>1, StakeType DEF Slots
    <2>6. \A q \in Proposals : (Coming(q)' => Coming(q)) /\ filled'[q] >= filled[q]
        BY <1>3, <2>1 DEF vars, broker, Coming, Types
    <2>7. Eased BY <1>3, <2>4, <2>5, <2>6 DEF Eased, vars, ledger
    <2> QED BY <1>3, <2>2, <2>7, ReadsStay DEF vars
<1> QED BY <1>1, <1>2, <1>3 DEF Next

\* The owner of the account is alone, found nothing unresolved, and what it read and
\* cleared overstates what the broker holds and may still fill (account_exposure.py:86).
THEOREM AccountInvariant == Spec => []AccountInv
BY InitAccount, StepAccount, PTL DEF Spec

\* Types, orders that stay within what they asked for, one owner, and the day's count.
THEOREM ExposureAlways == Spec => []ExposureInv
<1>1. AccountInv => ExposureInv
    <2> SUFFICES ASSUME AccountInv PROVE ExposureInv OBVIOUS
    <2>1. \A p \in Proposals : {sold[p], booked[p]} \subseteq 0..filled[p] /\ filled[p] <= Qty[p]
        BY ExposureAssumption DEF AccountInv, OrderInv
    <2>2. \A p \in Proposals : filled[p] > 0 => intent[p] # "none" BY DEF AccountInv, OrderInv
    <2>3. \A s \in Senders : (pc[s] # "idle") = (owner = s) /\ (prop[s] = Nobody) = (pc[s] = "idle")
        BY DEF AccountInv, Types, Checking
    <2> QED BY <2>1, <2>2, <2>3 DEF AccountInv, Types, ExposureInv, TradesWithinLimit
<1> QED BY <1>1, AccountInvariant, PTL

\* Held symbols and entries that may still open one never exceed max_open_positions,
\* however the account moves between the reads.
THEOREM SlotsHold == Spec => []SlotsWithinLimit
<1>1. AccountInv => SlotsWithinLimit BY SlotsAreCounted DEF AccountInv
<1> QED BY <1>1, AccountInvariant, PTL

\* Everything held and everything that may still fill is paid for by the account's
\* own equity, whatever was lost, filled or sold between the reads.
THEOREM NeverLevered == Spec => []NoLeverage
<1>1. AccountInv => NoLeverage BY DEF AccountInv, NoLeverage, Stake
<1> QED BY <1>1, AccountInvariant, PTL
=============================================================================
