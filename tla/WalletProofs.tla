------------------------------ MODULE WalletProofs ------------------------------
(***************************************************************************)
(* Theorems about Wallet: which accounts are found, what a listing made     *)
(* while things move is sure to hold, and how far down the merged history   *)
(* is complete; for any number of accounts, coins, NFTs, kiosks, validators *)
(* and transactions, any sizes of pages and any changes of the chain.       *)
(***************************************************************************)
EXTENDS Wallet, RankProofs

-----------------------------------------------------------------------------
(* Sequences. *)

IsSeq(s) == Len(s) \in Nat /\ s = [i \in 1 .. Len(s) |-> s[i]]

\* A sequence over a set is one, and its items are in the set; and back.
LEMMA SeqIsSeq ==
    ASSUME NEW E, NEW s \in Seq(E)
    PROVE  /\ IsSeq(s) /\ DOMAIN s = 1 .. Len(s) /\ Len(s) \in Nat
           /\ \A i \in DOMAIN s : s[i] \in E
  BY DEF IsSeq

LEMMA IsSeqOf ==
    ASSUME NEW E, NEW s, IsSeq(s), \A i \in DOMAIN s : s[i] \in E
    PROVE  s \in Seq(E)
  BY DEF IsSeq

\* What is put behind a sequence comes behind all of it.
LEMMA Joined ==
    ASSUME NEW s, NEW t, IsSeq(s), IsSeq(t)
    PROVE  /\ IsSeq(s \o t) /\ Len(s \o t) = Len(s) + Len(t)
           /\ \A i \in 1 .. Len(s) : (s \o t)[i] = s[i]
           /\ \A i \in 1 .. Len(t) : (s \o t)[Len(s) + i] = t[i]
           /\ \A i \in 1 .. Len(s \o t) :
                i \in 1 .. Len(s) \/ \E k \in 1 .. Len(t) : i = Len(s) + k
           /\ ToSet(s \o t) = ToSet(s) \cup ToSet(t)
<1> DEFINE E == ToSet(s) \cup ToSet(t)
           w == s \o t
<1>1. s \in Seq(E) /\ t \in Seq(E)
  <2>1. /\ Len(s) \in Nat /\ s = [i \in 1 .. Len(s) |-> s[i]]
        /\ Len(t) \in Nat /\ t = [i \in 1 .. Len(t) |-> t[i]]
    BY DEF IsSeq
  <2>2. \A i \in 1 .. Len(s) : s[i] \in E
    BY <2>1 DEF ToSet
  <2>3. \A i \in 1 .. Len(t) : t[i] \in E
    BY <2>1 DEF ToSet
  <2> HIDE DEF E
  <2>4. QED
    BY <2>1, <2>2, <2>3
<1> HIDE DEF E
<1>2. /\ Len(s) \in Nat /\ Len(t) \in Nat /\ Len(w) = Len(s) + Len(t)
      /\ DOMAIN s = 1 .. Len(s) /\ DOMAIN t = 1 .. Len(t) /\ DOMAIN w = 1 .. Len(w)
      /\ w \in Seq(E)
      /\ \A i \in DOMAIN w : w[i] = IF i <= Len(s) THEN s[i] ELSE t[i - Len(s)]
  BY <1>1
<1>3. w = [i \in 1 .. Len(w) |-> w[i]]
  <2> HIDE DEF w
  <2>1. \A z \in Seq(E) : z = [i \in 1 .. Len(z) |-> z[i]]
    OBVIOUS
  <2>2. QED
    BY <1>2, <2>1
<1> HIDE DEF w
<1>4. \A i \in 1 .. Len(s) : i \in DOMAIN w /\ w[i] = s[i]
  BY <1>2
<1>5. ASSUME NEW i \in 1 .. Len(t)
      PROVE  Len(s) + i \in DOMAIN w /\ w[Len(s) + i] = t[i]
  <2>1. Len(s) + i \in 1 .. Len(w) /\ ~ (Len(s) + i <= Len(s)) /\ (Len(s) + i) - Len(s) = i
    BY <1>2
  <2>2. QED
    BY <1>2, <2>1
<1>6. ASSUME NEW i \in 1 .. Len(w)
      PROVE  i \in 1 .. Len(s) \/ \E k \in 1 .. Len(t) : i = Len(s) + k
  <2>1. CASE i <= Len(s)
    BY <1>2, <2>1
  <2>2. CASE ~ (i <= Len(s))
    <3>1. i - Len(s) \in 1 .. Len(t) /\ i = Len(s) + (i - Len(s))
      BY <1>2, <2>2
    <3>2. QED
      BY <3>1
  <2>3. QED
    BY <2>1, <2>2
<1>7. ToSet(w) = ToSet(s) \cup ToSet(t)
  <2>1. \A i \in DOMAIN w : w[i] \in ToSet(s) \cup ToSet(t)
    BY <1>2, <1>4, <1>5, <1>6 DEF ToSet
  <2>2. \A i \in DOMAIN s : s[i] \in ToSet(w)
    BY <1>2, <1>4 DEF ToSet
  <2>3. \A i \in DOMAIN t : t[i] \in ToSet(w)
    BY <1>2, <1>5 DEF ToSet
  <2>4. QED
    BY <2>1, <2>2, <2>3 DEF ToSet
<1>8. QED
  BY <1>2, <1>3, <1>4, <1>5, <1>6, <1>7 DEF IsSeq, w

\* A sequence that holds no member of a finite set twice is no longer than it.
LEMMA NoMoreThan ==
    ASSUME NEW S, IsFiniteSet(S), NEW s, IsSeq(s), \A i \in DOMAIN s : s[i] \in S,
           \A i, j \in DOMAIN s : i # j => s[i] # s[j]
    PROVE  Len(s) <= Cardinality(S)
<1>1. DOMAIN s = 1 .. Len(s) /\ Len(s) \in Nat /\ s = [i \in 1 .. Len(s) |-> s[i]]
  BY DEF IsSeq
<1>2. s \in Injection(1 .. Len(s), S)
  BY <1>1 DEF Injection, IsInjective
<1>3. Cardinality(1 .. Len(s)) = Len(s)
  BY <1>1, FS_Interval
<1>4. QED
  BY <1>2, <1>3, FS_Injection

\* SetToSeq lists the members of a finite set, each once.
LEMMA SetToSeqLists ==
    ASSUME NEW S, IsFiniteSet(S)
    PROVE  LET s == SetToSeq(S)
               n == Cardinality(S)
           IN  /\ n \in Nat
               /\ s \in [1 .. n -> S]
               /\ \A i, j \in 1 .. n : i # j => s[i] # s[j]
               /\ \A x \in S : \E i \in 1 .. n : s[i] = x
<1> DEFINE n == Cardinality(S)
           s == SetToSeq(S)
<1>1. n \in Nat /\ ExistsBijection(1 .. n, S)
  BY FS_CardinalityType
<1>2. \E f \in [1 .. n -> S] : IsInjective(f)
  BY <1>1 DEF ExistsBijection, Bijection, Injection
<1>3. s \in [1 .. n -> S] /\ IsInjective(s)
  <2>1. s = CHOOSE f \in [1 .. n -> S] : IsInjective(f)
    BY DEF SetToSeq
  <2> HIDE DEF s, n
  <2>2. QED
    BY <1>2, <2>1
<1> HIDE DEF s
<1>4. s \in Injection(1 .. n, S)
  BY <1>3 DEF Injection
<1>5. Cardinality(1 .. n) = n /\ IsFiniteSet(1 .. n)
  <2> HIDE DEF n
  <2>1. QED
    BY <1>1, FS_Interval
<1>6. s \in Surjection(1 .. n, S)
  BY <1>4, <1>5, FS_Injection
<1>7. \A x \in S : \E i \in 1 .. n : s[i] = x
  BY <1>6 DEF Surjection
<1>8. \A i, j \in 1 .. n : i # j => s[i] # s[j]
  BY <1>3 DEF IsInjective
<1>9. QED
  BY <1>1, <1>3, <1>7, <1>8 DEF s


\* ItemsAt keeps the items at these positions, all of them and in their order.
LEMMA Picked ==
    ASSUME NEW s, IsSeq(s), NEW positions \in SUBSET (DOMAIN s)
    PROVE  LET t == ItemsAt(s, positions)
           IN  /\ IsSeq(t)
               /\ ToSet(t) = {s[i] : i \in positions}
               /\ \E at \in [DOMAIN t -> positions] :
                    /\ \A i, j \in DOMAIN t : i < j => at[i] < at[j]
                    /\ \A i \in DOMAIN t : t[i] = s[at[i]]
<1> DEFINE t == ItemsAt(s, positions)
           n == Cardinality(positions)
           at == [k \in 1 .. n |-> Nth(positions, k)]
<1>1. Len(s) \in Nat /\ DOMAIN s = 1 .. Len(s)
  BY DEF IsSeq
<1>2. positions \subseteq Nat /\ IsFiniteSet(positions)
  <2>1. IsFiniteSet(1 .. Len(s))
    BY <1>1, FS_Interval
  <2>2. IsFiniteSet(positions)
    BY <1>1, <2>1, FS_Subset
  <2>3. positions \subseteq Nat
    BY <1>1
  <2>4. QED
    BY <2>2, <2>3
<1>3. /\ n \in Nat
      /\ \A k \in 1 .. n : Nth(positions, k) \in positions
      /\ \A p \in positions : \E k \in 1 .. n : p = Nth(positions, k)
      /\ \A i, j \in 1 .. n : i < j => Nth(positions, i) < Nth(positions, j)
  BY <1>2, NthLists, NthGrows
<1>4. t = [k \in 1 .. n |-> s[Nth(positions, k)]]
  BY DEF ItemsAt
<1> HIDE DEF n, t
<1>5. /\ at \in [1 .. n -> positions]
      /\ \A i, j \in 1 .. n : i < j => at[i] < at[j]
      /\ \A p \in positions : \E i \in 1 .. n : at[i] = p
  BY <1>3
<1>6. /\ \A k \in 1 .. n : t[k] = s[at[k]]
      /\ DOMAIN t = 1 .. n /\ t = [k \in 1 .. n |-> t[k]]
  BY <1>4
<1> HIDE DEF at
<1>7. IsSeq(t) /\ Len(t) = n
  BY <1>3, <1>6 DEF IsSeq
<1>8. ToSet(t) = {s[i] : i \in positions}
  BY <1>5, <1>6 DEF ToSet
<1>9. \E f \in [DOMAIN t -> positions] :
        /\ \A i, j \in DOMAIN t : i < j => f[i] < f[j]
        /\ \A i \in DOMAIN t : t[i] = s[f[i]]
  BY <1>5, <1>6
<1>10. QED
  BY <1>7, <1>8, <1>9 DEF t
-----------------------------------------------------------------------------
(* The invariant: one part for the chain, one for each operation. *)

TaskOk ==
    /\ task = [op |-> task.op, phase |-> task.phase, pending |-> task.pending,
               read |-> task.read, gathered |-> task.gathered, cursor |-> task.cursor,
               next |-> task.next]
    /\ task.phase \in Phases
    /\ task.cursor \in Nat
    /\ task.op = "none" => task = Idle /\ result = << >> /\ spared = {} /\ changed = {} /\ changes = 0

ChainOk ==
    /\ used \subseteq 0 .. MAX_ACCOUNTS - 1
    /\ coins \subseteq Coins
    /\ place \in [Nfts -> Places]
    /\ stakes \in [Validators -> 0 .. MaxStake]
    /\ history \in Seq([side : Sides, time : Nat])
    /\ Len(history) <= MaxHistory
    /\ InTimeOrder(history)
    /\ changes \in Nat

\* Accounts are looked at one by one, and each looked at so far is taken.
ImportOk ==
    task.op = "importWallet" =>
        /\ task.phase \in {"balances", "returned"}
        /\ result \in Seq(Nat)
        /\ \A i \in DOMAIN result : result[i] = i - 1
        /\ task.phase = "balances" =>
            /\ task.cursor = Len(result)
            /\ Len(result) < MAX_ACCOUNTS
            /\ spared = {}
            /\ \A i \in DOMAIN result : result[i] # 0 => result[i] \in used
        /\ task.phase = "returned" => AccountsFound

Ascending(seq) == \A i, j \in DOMAIN seq : i < j => seq[i] < seq[j]

\* The walk has every coin up to its cursor that is there to stay.
GetCoinsOk ==
    task.op = "getCoins" =>
        /\ result \in Seq(Coins) /\ Ascending(result)
        /\ task.phase = "coins" =>
            /\ \A i \in DOMAIN result : result[i] <= task.cursor
            /\ \A c \in coins \ changed : c <= task.cursor => c \in ToSet(result)
        /\ task.phase = "returned" => coins \ changed \subseteq ToSet(result) \cup spared

CustomCoinsOk ==
    task.op = "getCustomCoins" =>
        /\ result \in Seq(Coins) /\ Ascending(result)
        /\ task.phase = "coinMetadata" =>
            /\ task.read \in Seq(Coins) /\ Ascending(task.read)
            /\ coins \ changed \subseteq ToSet(task.read) \cup spared
        /\ task.phase = "returned" => coins \ changed \subseteq ToSet(result) \cup spared

\* Where an entry comes from: an NFT is listed once at most from each.
Source(entry) == IF entry.type = "nft" THEN 1 ELSE IF entry.kiosk = "ob" THEN 2 ELSE 3

InWallet(n) == Listed(n, "nft", None)
InObKiosk(n) == Listed(n, "kiosk-nft", "ob")
InSuiKiosk(n, k) == Listed(n, "kiosk-nft", k)

Entries == [nft : Displayed, type : {"nft"}, kiosk : {None}]
           \cup [nft : Displayed, type : {"kiosk-nft"}, kiosk : {"ob"} \cup SuiKiosks]

Distinct(entries) ==
    \A i, j \in DOMAIN entries :
        i # j => entries[i].nft # entries[j].nft \/ Source(entries[i]) # Source(entries[j])

\* What was read of these kiosks, where the wallet counts for one: each of their
\* NFTs once, and those that last there and only there.
ReadsAre(reads, places, lasting, where) ==
    /\ reads \in Seq(places \X Nfts)
    /\ IsInjective(reads)
    /\ \A n \in lasting, k \in places : <<k, n>> \in ToSet(reads) <=> where[n] = k

\* The NFTs that stay where they are and were on no page that was cut short.
Lasting == Nfts \ (changed \cup spared)

ReadsOk(places) == ReadsAre(task.read, places, Lasting, Found)

\* The wallet's NFTs among the reads, those that are displayed.
WalletNfts == {n \in Displayed : <<"wallet", n>> \in ToSet(task.read)}

NftsOk ==
    task.op = "getNfts" =>
        /\ task.phase \in {"wallet", "obTokens", "obKiosks", "nftMetadata", "suiCaps", "suiKiosks",
                           "returned", "threw"}
        /\ result \in Seq(Entries) /\ Distinct(result)
        /\ \A n \in (Nfts \cap spared) \ changed : place[n] \in ObKiosks \cup SuiKiosks
        /\ task.phase \in {"wallet", "obTokens", "obKiosks"} => result = << >>
        /\ task.phase = "obTokens" => ReadsOk({"wallet"})
        /\ task.phase = "obKiosks" =>
            task.pending \subseteq ObKiosks /\ ReadsOk({"wallet"} \cup (ObKiosks \ task.pending))
        /\ task.phase = "nftMetadata" =>
            /\ ReadsOk({"wallet"} \cup ObKiosks)
            /\ ~HasDuplicates(KioskReads(task.read))
            /\ task.pending \subseteq WalletNfts
            /\ ToSet(result) = {InWallet(n) : n \in WalletNfts \ task.pending}
        /\ task.phase = "suiCaps" => task.read = << >>
        /\ task.phase = "suiKiosks" =>
            task.pending \subseteq SuiKiosks /\ ReadsOk(SuiKiosks \ task.pending)
        /\ task.phase \in {"suiCaps", "suiKiosks"} =>
            \A i \in DOMAIN result : Source(result[i]) # 3
        /\ task.phase \in {"suiCaps", "suiKiosks", "returned"} =>
            \A n \in Lasting \cap Displayed :
                /\ InWallet(n) \in ToSet(result) <=> Found[n] = "wallet"
                /\ InObKiosk(n) \in ToSet(result) <=> Found[n] \in ObKiosks
        /\ task.phase = "returned" =>
            \A n \in Lasting \cap Displayed, k \in SuiKiosks :
                InSuiKiosk(n, k) \in ToSet(result) <=> Found[n] = k

\* A bag that was answered is gathered but for what its page left out; of one
\* that was not there is nothing yet.
NftsByIdOk ==
    task.op = "getNftsById" =>
        /\ task.phase \in {"objects", "bags", "returned", "threw"}
        /\ task.read \in Seq(Nfts)
        /\ task.phase = "objects" => result = << >> /\ spared = {} /\ task.gathered = {}
        /\ task.phase = "bags" =>
            /\ \A n \in task.pending : FieldsOf(n, task.gathered) = {} /\ Bag(n) \cap spared = {}
            /\ \A n \in ToSet(Parsed(task.read)) \ task.pending :
                FieldsOf(n, task.gathered) = Bag(n) \ spared
        /\ task.phase = "returned" => NftsById

\* The validators that were read; those whose stake lasts with that stake.
ListedOk ==
    /\ task.read \in Seq(Nat \X Validators)
    /\ \A i, j \in DOMAIN task.read : i # j => task.read[i][2] # task.read[j][2]
    /\ \A v \in Validators \ changed :
        /\ v \in Active => <<stakes[v], v>> \in ToSet(task.read)
        /\ \A i \in DOMAIN task.read :
            task.read[i][2] = v => v \in Active /\ task.read[i][1] = stakes[v]

ValidatorsOk ==
    task.op = "getValidatorsList" =>
        /\ task.phase \in {"totalStake", "apys"} => ListedOk
        /\ task.phase = "apys" => (changed = {} => task.gathered = Total)
        /\ task.phase = "returned" =>
            /\ \A v \in Active \ changed :
                Cardinality({i \in DOMAIN result :
                    result[i].validator = v /\ result[i].share[1] = stakes[v]}) = 1
            /\ changed = {} =>
                \A i \in DOMAIN result :
                    /\ result[i].hasApy
                    /\ result[i].share[2] = {<<r.share[1], r.validator>> : r \in ToSet(result)}

\* A page has every lasting transaction of its side, down to its oldest if it
\* is full.
PageOk(side, page) ==
    /\ page \in Seq(DOMAIN history)
    /\ \A i \in DOMAIN history \ changed :
        history[i].side \in {side, "both"} =>
            \/ i \in ToSet(page)
            \/ Len(page) = Limit /\ i < page[Len(page)]

TransactionsOk ==
    task.op = "getTransactions" =>
        /\ task.phase \in {"queries", "returned", "threw"}
        /\ task.phase = "queries" =>
            /\ Len(task.read) <= 1
            /\ task.read \in Seq({"to", "from"} \X Seq(DOMAIN history))
            /\ \A r \in ToSet(task.read) : PageOk(r[1], r[2])
        /\ task.phase = "returned" => HistoryComplete

IInv ==
    /\ TaskOk /\ ChainOk
    /\ ImportOk /\ GetCoinsOk /\ CustomCoinsOk /\ NftsOk /\ NftsByIdOk /\ ValidatorsOk /\ TransactionsOk

\* Before an operation starts there is nothing to go wrong.
THEOREM Initially ==
    Init => IInv
<1>1. SUFFICES ASSUME Init PROVE IInv
  OBVIOUS
<1>2. TaskOk
  BY <1>1 DEF Init, Idle, TaskOk, Phases
<1>3. ChainOk
  <2>1. history \in Seq([side : Sides, time : Nat]) /\ Len(history) = 0 /\ DOMAIN history = {}
    BY <1>1 DEF Init
  <2>2. "elsewhere" \in Places /\ 0 \in 0 .. MaxStake /\ 0 <= MaxHistory
    BY ParametersAssumption DEF Places
  <2>3. QED
    BY <1>1, <2>1, <2>2 DEF Init, ChainOk, InTimeOrder
<1>4. task.op = "none"
  BY <1>1 DEF Init, Idle
<1>5. QED
  BY <1>2, <1>3, <1>4 DEF IInv, ImportOk, GetCoinsOk, CustomCoinsOk, NftsOk, NftsByIdOk, ValidatorsOk,
                          TransactionsOk

\* A failure that nothing catches leaves nothing behind.
LEMMA FailureKeeps ==
    ASSUME IInv, RequestFails
    PROVE  IInv'
<1>1. /\ task' = [task EXCEPT !.phase = "threw", !.pending = {}]
      /\ UNCHANGED <<result, spared, used, coins, place, history, stakes, changed, changes>>
      /\ task.op # "none" /\ task.op # "importWallet"
  BY DEF RequestFails, Throw, Running, chain
<1>2. /\ task'.op = task.op /\ task'.phase = "threw" /\ task'.cursor = task.cursor
      /\ TaskOk'
  BY <1>1 DEF IInv, TaskOk, Phases
<1>3. ChainOk'
  BY <1>1 DEF IInv, ChainOk, InTimeOrder
<1>4. NftsOk'
  BY <1>1, <1>2 DEF IInv, NftsOk, Distinct
<1>5. NftsByIdOk'
  BY <1>1, <1>2 DEF IInv, NftsByIdOk
<1>6. QED
  BY <1>1, <1>2, <1>3, <1>4, <1>5 DEF IInv, ImportOk, GetCoinsOk, CustomCoinsOk, ValidatorsOk, TransactionsOk

-----------------------------------------------------------------------------
(* importWallet *)

\* One more account at the end of the list.
LEMMA OneMoreAccount ==
    ASSUME NEW s, s \in Seq(Nat), \A i \in DOMAIN s : s[i] = i - 1
    PROVE  LET t == Append(s, Len(s))
           IN  /\ t \in Seq(Nat) /\ Len(t) = Len(s) + 1 /\ Len(s) \in Nat
               /\ \A i \in DOMAIN t : t[i] = i - 1
               /\ \A i \in DOMAIN t : i = Len(s) + 1 \/ (i \in DOMAIN s /\ t[i] = s[i])
               /\ ToSet(t) = ToSet(s) \cup {Len(s)}
<1> DEFINE t == Append(s, Len(s))
<1>1. /\ Len(s) \in Nat /\ t \in Seq(Nat) /\ Len(t) = Len(s) + 1
      /\ DOMAIN s = 1 .. Len(s) /\ DOMAIN t = 1 .. Len(s) + 1
      /\ \A i \in 1 .. Len(s) : t[i] = s[i]
      /\ t[Len(s) + 1] = Len(s)
  OBVIOUS
<1> HIDE DEF t
<1>2. \A i \in DOMAIN t : i = Len(s) + 1 \/ (i \in DOMAIN s /\ t[i] = s[i])
  BY <1>1
<1>3. \A i \in DOMAIN t : t[i] = i - 1
  BY <1>1, <1>2
<1>4. ToSet(t) = ToSet(s) \cup {Len(s)}
  <2>1. \A i \in DOMAIN t : t[i] \in ToSet(s) \cup {Len(s)}
    BY <1>1, <1>2 DEF ToSet
  <2>2. \A i \in DOMAIN s : s[i] \in ToSet(t)
    BY <1>1 DEF ToSet
  <2>3. Len(s) \in ToSet(t)
    BY <1>1 DEF ToSet
  <2>4. QED
    BY <2>1, <2>2, <2>3 DEF ToSet
<1>5. QED
  BY <1>1, <1>2, <1>3, <1>4 DEF t

\* Only the part of importWallet is left to show of a step of it.
LEMMA ImportSuffices ==
    ASSUME task'.op = "importWallet", TaskOk', ChainOk', ImportOk'
    PROVE  IInv'
BY DEF IInv, GetCoinsOk, CustomCoinsOk, NftsOk, NftsByIdOk, ValidatorsOk, TransactionsOk

LEMMA StartImportKeeps ==
    ASSUME IInv, StartImport
    PROVE  IInv'
<1>1. /\ task = Idle /\ task' = [Idle EXCEPT !.op = "importWallet", !.phase = "balances"]
      /\ used' \subseteq 0 .. MAX_ACCOUNTS - 1
      /\ UNCHANGED <<result, spared, coins, place, history, stakes, changed, changes>>
  BY DEF StartImport, Begin
<1>2. result = << >> /\ spared = {}
  BY <1>1 DEF IInv, TaskOk, Idle
<1>3. TaskOk' /\ task'.op = "importWallet" /\ task'.phase = "balances" /\ task'.cursor = 0
  BY <1>1 DEF TaskOk, Phases, Idle
<1>4. ChainOk'
  BY <1>1 DEF IInv, ChainOk, InTimeOrder
<1>5. ImportOk'
  <2>1. result' \in Seq(Nat) /\ Len(result') = 0 /\ DOMAIN (result') = {}
    BY <1>1, <1>2
  <2>2. 0 < MAX_ACCOUNTS
    BY ParametersAssumption
  <2>3. QED
    BY <1>1, <1>2, <1>3, <2>1, <2>2 DEF ImportOk
<1>6. QED
  BY <1>3, <1>4, <1>5, ImportSuffices

\* What the list of accounts is worth once the search ends.
LEMMA AccountsListed ==
    ASSUME Len(result') \in 1 .. MAX_ACCOUNTS, \A i \in DOMAIN (result') : (result')[i] = i - 1,
           \A i \in DOMAIN (result') : (result')[i] # 0 => (result')[i] \in used' \cup spared',
           (spared' = {} /\ changes' = 0) => Len(result') \notin used'
    PROVE  AccountsFound'
<1>1. \A i \in ToSet(result') \ {0} : i \in used' \cup spared'
  BY DEF ToSet
<1>2. QED
  BY <1>1 DEF AccountsFound

LEMMA BalancesAnsweredKeeps ==
    ASSUME IInv, BalancesAnswered
    PROVE  IInv'
<1> DEFINE i == task.cursor
<1>1. /\ task.op = "importWallet" /\ task.phase = "balances"
      /\ UNCHANGED <<spared, used, coins, place, history, stakes, changed, changes>>
      /\ IF KeepsAccount(i, used \cap {i})
         THEN /\ result' = Append(result, i)
              /\ IF i + 1 < MAX_ACCOUNTS THEN task' = [task EXCEPT !.cursor = i + 1] ELSE Return
         ELSE Return /\ UNCHANGED result
  BY DEF BalancesAnswered, At, chain
<1>2. /\ result \in Seq(Nat) /\ \A k \in DOMAIN result : result[k] = k - 1
      /\ i = Len(result) /\ Len(result) < MAX_ACCOUNTS /\ spared = {}
      /\ \A k \in DOMAIN result : result[k] # 0 => result[k] \in used
      /\ Len(result) \in Nat /\ MAX_ACCOUNTS \in Nat
  BY <1>1, ParametersAssumption DEF IInv, ImportOk
<1>3. ChainOk'
  BY <1>1 DEF IInv, ChainOk, InTimeOrder
<1>4. CASE KeepsAccount(i, used \cap {i})
  <2>1. i \in used \/ i = 0
    BY <1>4 DEF KeepsAccount
  <2>2. result' = Append(result, Len(result))
    BY <1>1, <1>2, <1>4
  <2>3. /\ result' \in Seq(Nat) /\ Len(result') = i + 1
        /\ \A k \in DOMAIN (result') : (result')[k] = k - 1
        /\ \A k \in DOMAIN (result') : k = i + 1 \/ (k \in DOMAIN result /\ (result')[k] = result[k])
    BY <1>2, <2>2, OneMoreAccount
  <2>4. \A k \in DOMAIN (result') : (result')[k] # 0 => (result')[k] \in used
    BY <1>2, <2>1, <2>3
  <2>5. CASE i + 1 < MAX_ACCOUNTS
    <3>1. task' = [task EXCEPT !.cursor = i + 1]
      BY <1>1, <1>4, <2>5
    <3>2. TaskOk' /\ task'.op = "importWallet" /\ task'.phase = "balances" /\ task'.cursor = i + 1
      BY <1>1, <1>2, <3>1 DEF IInv, TaskOk
    <3>3. ImportOk'
      BY <1>1, <1>2, <2>3, <2>4, <2>5, <3>2 DEF ImportOk
    <3>4. QED
      BY <1>3, <3>2, <3>3, ImportSuffices
  <2>6. CASE ~ (i + 1 < MAX_ACCOUNTS)
    <3>1. task' = [task EXCEPT !.phase = "returned", !.pending = {}]
      BY <1>1, <1>4, <2>6 DEF Return
    <3>2. TaskOk' /\ task'.op = "importWallet" /\ task'.phase = "returned"
      BY <1>1, <1>2, <3>1 DEF IInv, TaskOk, Phases
    <3>3. Len(result') \in 1 .. MAX_ACCOUNTS /\ Len(result') = MAX_ACCOUNTS
      BY <1>2, <2>3, <2>6
    <3>4. MAX_ACCOUNTS \notin used'
      BY <1>1, <1>2 DEF IInv, ChainOk
    <3>5. AccountsFound'
      BY <1>1, <2>3, <2>4, <3>3, <3>4, AccountsListed
    <3>6. ImportOk'
      BY <2>3, <3>2, <3>5 DEF ImportOk
    <3>7. QED
      BY <1>3, <3>2, <3>6, ImportSuffices
  <2>7. QED
    BY <2>5, <2>6
<1>5. CASE ~ KeepsAccount(i, used \cap {i})
  <2>1. i \notin used /\ i # 0
    BY <1>5 DEF KeepsAccount
  <2>2. task' = [task EXCEPT !.phase = "returned", !.pending = {}] /\ result' = result
    BY <1>1, <1>5 DEF Return
  <2>3. TaskOk' /\ task'.op = "importWallet" /\ task'.phase = "returned"
    BY <1>1, <1>2, <2>2 DEF IInv, TaskOk, Phases
  <2>4. Len(result) \in 1 .. MAX_ACCOUNTS
    BY <1>2, <2>1
  <2>5. AccountsFound'
    BY <1>1, <1>2, <2>1, <2>2, <2>4, AccountsListed
  <2>6. ImportOk'
    BY <1>2, <2>2, <2>3, <2>5 DEF ImportOk
  <2>7. QED
    BY <1>3, <2>3, <2>6, ImportSuffices
<1>6. QED
  BY <1>4, <1>5

LEMMA BalancesFailKeeps ==
    ASSUME IInv, BalancesFail
    PROVE  IInv'
<1>1. /\ task.op = "importWallet" /\ task.phase = "balances"
      /\ result' = Append(result, task.cursor) /\ spared' = {task.cursor}
      /\ task' = [task EXCEPT !.phase = "returned", !.pending = {}]
      /\ UNCHANGED <<used, coins, place, history, stakes, changed, changes>>
  BY DEF BalancesFail, At, chain, Return
<1>2. /\ result \in Seq(Nat) /\ \A k \in DOMAIN result : result[k] = k - 1
      /\ task.cursor = Len(result) /\ Len(result) < MAX_ACCOUNTS
      /\ \A k \in DOMAIN result : result[k] # 0 => result[k] \in used
      /\ Len(result) \in Nat /\ MAX_ACCOUNTS \in Nat
  BY <1>1, ParametersAssumption DEF IInv, ImportOk
<1>3. ChainOk'
  BY <1>1 DEF IInv, ChainOk, InTimeOrder
<1>4. result' = Append(result, Len(result)) /\ spared' = {Len(result)}
  BY <1>1, <1>2
<1>5. /\ result' \in Seq(Nat) /\ Len(result') = Len(result) + 1
      /\ \A k \in DOMAIN (result') : (result')[k] = k - 1
      /\ \A k \in DOMAIN (result') :
            k = Len(result) + 1 \/ (k \in DOMAIN result /\ (result')[k] = result[k])
  BY <1>2, <1>4, OneMoreAccount
<1>6. \A k \in DOMAIN (result') : (result')[k] # 0 => (result')[k] \in used' \cup spared'
  BY <1>1, <1>2, <1>4, <1>5
<1>7. AccountsFound'
  BY <1>2, <1>4, <1>5, <1>6, AccountsListed
<1>8. TaskOk' /\ task'.op = "importWallet" /\ task'.phase = "returned"
  BY <1>1 DEF IInv, TaskOk, Phases
<1>9. ImportOk'
  BY <1>5, <1>7, <1>8 DEF ImportOk
<1>10. QED
  BY <1>3, <1>8, <1>9, ImportSuffices

LEMMA CreateNewAccountKeeps ==
    ASSUME IInv, CreateNewAccount
    PROVE  IInv'
<1>1. /\ task.op = "importWallet" /\ task.phase = "returned"
      /\ Len(result) < MAX_ACCOUNTS
      /\ result' = Append(result, Len(result)) /\ spared' = spared \cup {Len(result)}
      /\ UNCHANGED <<task, used, coins, place, history, stakes, changed, changes>>
  BY DEF CreateNewAccount, At, chain
<1>2. /\ result \in Seq(Nat) /\ \A k \in DOMAIN result : result[k] = k - 1
      /\ \A k \in ToSet(result) \ {0} : k \in used \cup spared
      /\ Len(result) \in Nat /\ MAX_ACCOUNTS \in Nat
  BY <1>1, ParametersAssumption DEF IInv, ImportOk, AccountsFound, Returned, At
<1>3. ChainOk'
  BY <1>1 DEF IInv, ChainOk, InTimeOrder
<1>4. /\ result' \in Seq(Nat) /\ Len(result') = Len(result) + 1
      /\ \A k \in DOMAIN (result') : (result')[k] = k - 1
      /\ \A k \in DOMAIN (result') :
            k = Len(result) + 1 \/ (k \in DOMAIN result /\ (result')[k] = result[k])
  BY <1>1, <1>2, OneMoreAccount
<1>5. \A k \in DOMAIN result : result[k] # 0 => result[k] \in used \cup spared
  BY <1>2 DEF ToSet
<1>6. \A k \in DOMAIN (result') : (result')[k] # 0 => (result')[k] \in used' \cup spared'
  BY <1>1, <1>2, <1>4, <1>5
<1>7. AccountsFound'
  <2>1. spared' # {}
    BY <1>1
  <2>2. QED
    BY <1>1, <1>2, <1>4, <1>6, <2>1, AccountsListed
<1>8. TaskOk' /\ task'.op = "importWallet" /\ task'.phase = "returned"
  BY <1>1 DEF IInv, TaskOk, Phases
<1>9. ImportOk'
  BY <1>4, <1>7, <1>8 DEF ImportOk
<1>10. QED
  BY <1>3, <1>8, <1>9, ImportSuffices

\* An account comes to use while the search runs.
LEMMA UseAccountKeeps ==
    ASSUME IInv, NEW i \in 0 .. MAX_ACCOUNTS - 1, UseAccount(i)
    PROVE  IInv'
<1>1. /\ task.op = "importWallet" /\ task.phase # "returned"
      /\ changes' = changes + 1 /\ used' = used \cup {i}
      /\ UNCHANGED <<task, result, spared, coins, place, history, stakes, changed>>
  BY DEF UseAccount, Change, Running
<1>2. TaskOk' /\ task'.op = "importWallet" /\ task'.phase # "returned"
  BY <1>1 DEF IInv, TaskOk
<1>3. ChainOk'
  <2>1. used' \subseteq 0 .. MAX_ACCOUNTS - 1
    BY <1>1 DEF IInv, ChainOk
  <2>2. changes' \in Nat
    BY <1>1 DEF IInv, ChainOk
  <2>3. QED
    BY <1>1, <2>1, <2>2 DEF IInv, ChainOk, InTimeOrder
<1>4. ImportOk'
  BY <1>1, <1>2 DEF IInv, ImportOk
<1>5. QED
  BY <1>2, <1>3, <1>4, ImportSuffices

-----------------------------------------------------------------------------
(* getCoins and getCustomCoins *)

LEMMA GetCoinsSuffices ==
    ASSUME task'.op = "getCoins", TaskOk', ChainOk', GetCoinsOk'
    PROVE  IInv'
BY DEF IInv, ImportOk, CustomCoinsOk, NftsOk, NftsByIdOk, ValidatorsOk, TransactionsOk

LEMMA CustomCoinsSuffices ==
    ASSUME task'.op = "getCustomCoins", TaskOk', ChainOk', CustomCoinsOk'
    PROVE  IInv'
BY DEF IInv, ImportOk, GetCoinsOk, NftsOk, NftsByIdOk, ValidatorsOk, TransactionsOk

\* A page is what follows the cursor, in its order, none left out among them.
LEMMA PageLists ==
    ASSUME NEW all, all \subseteq Nat, IsFiniteSet(all), NEW after \in Nat, NEW size \in Nat \ {0}
    PROVE  LET page == Page(all, after, size)
           IN  /\ page \in Seq(all) /\ IsSeq(page)
               /\ Ascending(page)
               /\ \A i \in DOMAIN page : page[i] > after
               /\ page = << >> => \A c \in all : ~ (c > after)
               /\ page # << >> =>
                    /\ Len(page) \in DOMAIN page
                    /\ \A i \in DOMAIN page : page[i] <= page[Len(page)]
                    /\ \A c \in all : c > after => c \in ToSet(page) \/ c > page[Len(page)]
<1> DEFINE page == Page(all, after, size)
           rest == {c \in all : c > after}
           n == Cardinality(rest)
           m == Least(n, size)
<1>1. rest \subseteq Nat /\ rest \subseteq all /\ IsFiniteSet(rest)
  BY FS_Subset
<1>2. \A x \in rest : x > after
  OBVIOUS
<1>3. \A c \in all : c > after => c \in rest
  OBVIOUS
<1>4. page = [k \in 1 .. m |-> Nth(rest, k)]
  BY DEF Page
<1> HIDE DEF rest
<1>5. /\ n \in Nat
      /\ \A i \in 1 .. n : Nth(rest, i) \in rest
      /\ \A j \in rest : \E i \in 1 .. n : j = Nth(rest, i)
  BY <1>1, NthLists
<1>6. \A i, j \in 1 .. n : i < j => Nth(rest, i) < Nth(rest, j)
  BY <1>1, NthGrows
<1> HIDE DEF n
<1>7. m \in Nat /\ m <= n /\ (m = n \/ m = size) /\ (m = 0 => n = 0)
  BY <1>5 DEF Least
<1> HIDE DEF m, page
<1>8. /\ DOMAIN page = 1 .. m /\ Len(page) = m /\ IsSeq(page)
      /\ \A k \in 1 .. m : k \in 1 .. n /\ page[k] = Nth(rest, k)
  BY <1>4, <1>5, <1>7 DEF IsSeq
<1>9. \A k \in 1 .. m : page[k] \in rest /\ page[k] \in all /\ page[k] \in Nat
  BY <1>1, <1>5, <1>8
<1>10. page \in Seq(all)
  BY <1>8, <1>9, IsSeqOf
<1>11. Ascending(page)
  BY <1>6, <1>8 DEF Ascending
<1>12. ASSUME page = << >>, NEW c \in all, c > after PROVE FALSE
  <2>1. m = 0 /\ n = 0
    BY <1>7, <1>8, <1>12
  <2>2. QED
    BY <1>3, <1>5, <1>12, <2>1
<1>13. ASSUME page # << >>
       PROVE  /\ Len(page) \in DOMAIN page
              /\ \A i \in DOMAIN page : page[i] <= page[Len(page)]
              /\ \A c \in all : c > after => c \in ToSet(page) \/ c > page[Len(page)]
  <2>1. m \in 1 .. m
    <3>1. CASE m = 0
      <4>1. DOMAIN page = {}
        BY <1>8, <3>1
      <4>2. page = << >>
        BY <1>8, <4>1 DEF IsSeq
      <4>3. QED
        BY <1>13, <4>2
    <3>2. QED
      BY <1>7, <3>1
  <2>2. \A i \in DOMAIN page : page[i] <= page[Len(page)]
    BY <1>6, <1>8, <1>9, <2>1
  <2>3. ASSUME NEW c \in all, c > after PROVE c \in ToSet(page) \/ c > page[Len(page)]
    <3>1. PICK i \in 1 .. n : c = Nth(rest, i)
      BY <1>3, <1>5, <2>3
    <3>2. CASE i <= m
      BY <1>8, <3>1, <3>2, <1>7, <1>5 DEF ToSet
    <3>3. CASE i > m
      BY <1>6, <1>8, <2>1, <3>1, <3>3
    <3>4. QED
      BY <1>5, <1>7, <3>2, <3>3
  <2>4. QED
    BY <1>8, <2>1, <2>2, <2>3
<1>14. QED
  BY <1>2, <1>8, <1>9, <1>10, <1>11, <1>12, <1>13 DEF page

\* A page of coins.
LEMMA CoinsPage ==
    ASSUME coins \subseteq Coins, NEW after \in Nat
    PROVE  LET page == Page(coins, after, PageSize)
           IN  /\ page \in Seq(coins) /\ page \in Seq(Coins)
               /\ Ascending(page)
               /\ \A i \in DOMAIN page : page[i] > after
               /\ page = << >> => \A c \in coins : ~ (c > after)
               /\ page # << >> =>
                    /\ Len(page) \in DOMAIN page
                    /\ \A i \in DOMAIN page : page[i] <= page[Len(page)]
                    /\ \A c \in coins : c > after => c \in ToSet(page) \/ c > page[Len(page)]
<1> DEFINE page == Page(coins, after, PageSize)
<1>1. coins \subseteq Nat /\ IsFiniteSet(coins) /\ PageSize \in Nat \ {0}
  BY ParametersAssumption, FiniteAssumption, FS_Subset
<1>2. /\ page \in Seq(coins) /\ IsSeq(page)
      /\ Ascending(page)
      /\ \A i \in DOMAIN page : page[i] > after
      /\ page = << >> => \A c \in coins : ~ (c > after)
      /\ page # << >> =>
            /\ Len(page) \in DOMAIN page
            /\ \A i \in DOMAIN page : page[i] <= page[Len(page)]
            /\ \A c \in coins : c > after => c \in ToSet(page) \/ c > page[Len(page)]
  BY <1>1, PageLists, Zenon
<1> HIDE DEF page
<1>3. page \in Seq(Coins)
  BY <1>2
<1>4. QED
  BY <1>2, <1>3 DEF page

LEMMA StartCoinsKeeps ==
    ASSUME IInv, NEW op \in {"getCoins", "getCustomCoins"}, StartCoins(op, "coins")
    PROVE  IInv'
<1>1. /\ task = Idle /\ task' = [Idle EXCEPT !.op = op, !.phase = "coins"]
      /\ coins' \subseteq Coins
      /\ UNCHANGED <<result, spared, used, place, history, stakes, changed, changes>>
  BY DEF StartCoins, Begin
<1>2. result = << >>
  BY <1>1 DEF IInv, TaskOk, Idle
<1>3. TaskOk' /\ task'.op = op /\ task'.phase = "coins" /\ task'.cursor = 0
  BY <1>1 DEF TaskOk, Phases, Idle
<1>4. ChainOk'
  BY <1>1 DEF IInv, ChainOk, InTimeOrder
<1>5. result' \in Seq(Coins) /\ DOMAIN (result') = {} /\ Ascending(result')
  BY <1>1, <1>2 DEF Ascending
<1>6. \A c \in coins' : ~ (c <= 0)
  BY <1>1, ParametersAssumption
<1>7. CASE op = "getCoins"
  <2>1. GetCoinsOk'
    BY <1>1, <1>3, <1>5, <1>6, <1>7 DEF GetCoinsOk
  <2>2. QED
    BY <1>3, <1>4, <1>7, <2>1, GetCoinsSuffices
<1>8. CASE op = "getCustomCoins"
  <2>1. CustomCoinsOk'
    BY <1>1, <1>3, <1>5, <1>8 DEF CustomCoinsOk
  <2>2. QED
    BY <1>3, <1>4, <1>8, <2>1, CustomCoinsSuffices
<1>9. QED
  BY <1>7, <1>8

\* A page behind what was read up to its cursor leaves the list ascending.
LEMMA PageJoined ==
    ASSUME NEW s, s \in Seq(Coins), Ascending(s), NEW after \in Nat, \A i \in DOMAIN s : s[i] <= after,
           NEW t, t \in Seq(Coins), Ascending(t), \A i \in DOMAIN t : t[i] > after
    PROVE  /\ s \o t \in Seq(Coins) /\ Ascending(s \o t) /\ ToSet(s \o t) = ToSet(s) \cup ToSet(t)
           /\ \A i \in DOMAIN (s \o t) :
                \/ i \in DOMAIN s /\ (s \o t)[i] = s[i]
                \/ \E k \in DOMAIN t : (s \o t)[i] = t[k]
<1> DEFINE w == s \o t
<1>1. /\ IsSeq(s) /\ DOMAIN s = 1 .. Len(s) /\ Len(s) \in Nat /\ \A i \in DOMAIN s : s[i] \in Coins
      /\ IsSeq(t) /\ DOMAIN t = 1 .. Len(t) /\ Len(t) \in Nat /\ \A i \in DOMAIN t : t[i] \in Coins
  BY SeqIsSeq
<1>2. /\ IsSeq(w) /\ Len(w) = Len(s) + Len(t)
      /\ \A i \in 1 .. Len(s) : w[i] = s[i]
      /\ \A i \in 1 .. Len(t) : w[Len(s) + i] = t[i]
      /\ \A i \in 1 .. Len(w) : i \in 1 .. Len(s) \/ \E k \in 1 .. Len(t) : i = Len(s) + k
      /\ ToSet(w) = ToSet(s) \cup ToSet(t)
  BY <1>1, Joined
<1>3. w \in Seq(Coins)
  OBVIOUS
<1> HIDE DEF w
<1>4. DOMAIN w = 1 .. Len(w)
  BY <1>3
<1>5. \A i \in DOMAIN w : \/ i \in DOMAIN s /\ w[i] = s[i]
                          \/ \E k \in DOMAIN t : i = Len(s) + k /\ w[i] = t[k]
  <2>1. SUFFICES ASSUME NEW i \in DOMAIN w, i \notin DOMAIN s
                 PROVE  \E k \in DOMAIN t : i = Len(s) + k /\ w[i] = t[k]
    BY <1>1, <1>2
  <2>2. PICK k \in 1 .. Len(t) : i = Len(s) + k
    BY <1>1, <1>2, <1>4, <2>1
  <2>3. QED
    BY <1>1, <1>2, <2>2
<1>6. Coins \subseteq Nat
  BY ParametersAssumption
<1>7. ASSUME NEW i \in DOMAIN w, NEW j \in DOMAIN w, i < j
      PROVE  w[i] < w[j]
  <2>1. CASE j \in DOMAIN s
    <3>1. i \in DOMAIN s /\ w[i] = s[i] /\ w[j] = s[j]
      BY <1>1, <1>2, <1>4, <1>7, <2>1
    <3>2. QED
      BY <1>7, <2>1, <3>1 DEF Ascending
  <2>2. CASE i \in DOMAIN s /\ j \notin DOMAIN s
    <3>1. PICK k \in DOMAIN t : w[j] = t[k]
      BY <1>5, <2>2
    <3>2. w[i] = s[i] /\ s[i] <= after /\ t[k] > after /\ s[i] \in Nat /\ t[k] \in Nat
      BY <1>1, <1>2, <1>6, <2>2
    <3>3. QED
      BY <3>1, <3>2
  <2>3. CASE i \notin DOMAIN s /\ j \notin DOMAIN s
    <3>1. PICK k \in DOMAIN t : i = Len(s) + k /\ w[i] = t[k]
      BY <1>5, <2>3
    <3>2. PICK l \in DOMAIN t : j = Len(s) + l /\ w[j] = t[l]
      BY <1>5, <2>3
    <3>3. k < l
      BY <1>1, <1>7, <3>1, <3>2
    <3>4. QED
      BY <3>1, <3>2, <3>3 DEF Ascending
  <2>4. CASE i \notin DOMAIN s /\ j \in DOMAIN s
    BY <1>1, <1>4, <1>7, <2>4
  <2>5. QED
    BY <2>1, <2>2, <2>3, <2>4
<1>8. Ascending(w)
  BY <1>7 DEF Ascending
<1>9. QED
  BY <1>2, <1>3, <1>5, <1>8 DEF w

LEMMA CoinsAnsweredKeeps ==
    ASSUME IInv, CoinsAnswered
    PROVE  IInv'
<1> DEFINE page == Page(coins, task.cursor, PageSize)
<1>1. /\ task.op = "getCoins" /\ task.phase = "coins"
      /\ result' = result \o page
      /\ IF page = << >>
         THEN Return
         ELSE \E cursor \in NextCursors(page) :
                  IF cursor = 0 THEN Return ELSE task' = [task EXCEPT !.cursor = cursor]
      /\ UNCHANGED <<spared, used, coins, place, history, stakes, changed, changes>>
  BY DEF CoinsAnswered, At, chain
<1>2. /\ result \in Seq(Coins) /\ Ascending(result) /\ task.cursor \in Nat
      /\ \A i \in DOMAIN result : result[i] <= task.cursor
      /\ \A c \in coins \ changed : c <= task.cursor => c \in ToSet(result)
      /\ coins \subseteq Coins
  BY <1>1 DEF IInv, TaskOk, ChainOk, GetCoinsOk
<1>3. /\ page \in Seq(coins) /\ page \in Seq(Coins)
      /\ Ascending(page)
      /\ \A i \in DOMAIN page : page[i] > task.cursor
      /\ page = << >> => \A c \in coins : ~ (c > task.cursor)
      /\ page # << >> =>
            /\ Len(page) \in DOMAIN page
            /\ \A i \in DOMAIN page : page[i] <= page[Len(page)]
            /\ \A c \in coins : c > task.cursor => c \in ToSet(page) \/ c > page[Len(page)]
  BY <1>2, CoinsPage
<1> HIDE DEF page
<1>4. /\ result' \in Seq(Coins) /\ Ascending(result') /\ ToSet(result') = ToSet(result) \cup ToSet(page)
      /\ \A i \in DOMAIN (result') :
            \/ i \in DOMAIN result /\ (result')[i] = result[i]
            \/ \E k \in DOMAIN page : (result')[i] = page[k]
  <2> DEFINE joined == result \o page
  <2>1. /\ joined \in Seq(Coins) /\ Ascending(joined) /\ ToSet(joined) = ToSet(result) \cup ToSet(page)
        /\ \A i \in DOMAIN joined :
              \/ i \in DOMAIN result /\ joined[i] = result[i]
              \/ \E k \in DOMAIN page : joined[i] = page[k]
    BY <1>2, <1>3, PageJoined
  <2>2. result' = joined
    BY <1>1
  <2> HIDE DEF joined
  <2>3. QED
    BY <2>1, <2>2
<1>5. ChainOk'
  BY <1>1 DEF IInv, ChainOk, InTimeOrder
<1>6. Coins \subseteq Nat \ {0} /\ coins' = coins /\ changed' = changed
  BY <1>1, ParametersAssumption
<1>7. ASSUME Return, \A c \in coins : c > task.cursor => c \in ToSet(page)
      PROVE  IInv'
  <2>1. task' = [task EXCEPT !.phase = "returned", !.pending = {}]
    BY <1>7 DEF Return
  <2>2. TaskOk' /\ task'.op = "getCoins" /\ task'.phase = "returned"
    BY <1>1, <2>1 DEF IInv, TaskOk, Phases
  <2>3. \A c \in coins' \ changed' : c \in ToSet(result')
    BY <1>2, <1>4, <1>6, <1>7
  <2>4. GetCoinsOk'
    BY <1>4, <2>2, <2>3 DEF GetCoinsOk
  <2>5. QED
    BY <1>5, <2>2, <2>4, GetCoinsSuffices
<1>8. CASE page = << >>
  BY <1>1, <1>3, <1>7, <1>8
<1>9. CASE page # << >>
  <2>1. PICK cursor \in NextCursors(page) :
            IF cursor = 0 THEN Return ELSE task' = [task EXCEPT !.cursor = cursor]
    BY <1>1, <1>9
  <2>2. cursor = page[Len(page)] \/ (cursor = 0 /\ \A c \in coins : ~ (c > page[Len(page)]))
    BY <2>1 DEF NextCursors
  <2>3. page[Len(page)] \in Coins /\ \A i \in DOMAIN page : page[i] \in Coins
    BY <1>3, <1>9
  <2>4. CASE cursor = 0
    <3>1. \A c \in coins : ~ (c > page[Len(page)])
      BY <1>6, <2>2, <2>3, <2>4
    <3>2. Return
      BY <2>1, <2>4
    <3>3. QED
      BY <1>3, <1>7, <1>9, <3>1, <3>2
  <2>5. CASE cursor # 0
    <3>1. cursor = page[Len(page)] /\ cursor \in Nat /\ task' = [task EXCEPT !.cursor = cursor]
      BY <1>6, <2>1, <2>2, <2>3, <2>5
    <3>2. TaskOk' /\ task'.op = "getCoins" /\ task'.phase = "coins" /\ task'.cursor = cursor
      BY <1>1, <3>1 DEF IInv, TaskOk
    <3>3. task.cursor < cursor
      BY <1>3, <1>9, <3>1, <1>2
    <3>4. \A i \in DOMAIN (result') : (result')[i] <= cursor
      <4>1. \A i \in DOMAIN result : result[i] <= cursor
        <5>1. \A i \in DOMAIN result : result[i] \in Nat
          <6>1. \A i \in DOMAIN result : result[i] \in Coins
            BY <1>2, SeqIsSeq
          <6>2. QED
            BY <1>6, <6>1
        <5>2. QED
          BY <1>2, <3>1, <3>3, <5>1
      <4>2. \A k \in DOMAIN page : page[k] <= cursor
        BY <1>3, <1>9, <3>1
      <4>3. QED
        BY <1>4, <4>1, <4>2
    <3>5. \A c \in coins' \ changed' : c <= cursor => c \in ToSet(result')
      <4>1. SUFFICES ASSUME NEW c \in coins \ changed, c <= cursor
                     PROVE  c \in ToSet(result) \cup ToSet(page)
        BY <1>4, <1>6
      <4>2. c \in Nat
        BY <1>2, <1>6
      <4>3. CASE c <= task.cursor
        BY <1>2, <4>3
      <4>4. CASE c > task.cursor
        BY <1>3, <1>9, <3>1, <4>1, <4>2, <4>4
      <4>5. QED
        BY <1>2, <4>2, <4>3, <4>4
    <3>6. GetCoinsOk'
      BY <1>4, <3>2, <3>4, <3>5 DEF GetCoinsOk
    <3>7. QED
      BY <1>5, <3>2, <3>6, GetCoinsSuffices
  <2>6. QED
    BY <2>4, <2>5
<1>10. QED
  BY <1>8, <1>9

LEMMA EmptyPageAnsweredKeeps ==
    ASSUME IInv, EmptyPageAnswered
    PROVE  IInv'
<1>1. /\ task.op = "getCoins" /\ task.phase = "coins"
      /\ spared' = {c \in coins : c > task.cursor}
      /\ task' = [task EXCEPT !.phase = "returned", !.pending = {}]
      /\ UNCHANGED <<result, used, coins, place, history, stakes, changed, changes>>
  BY DEF EmptyPageAnswered, At, chain, Return
<1>2. TaskOk' /\ task'.op = "getCoins" /\ task'.phase = "returned"
  BY <1>1 DEF IInv, TaskOk, Phases
<1>3. ChainOk'
  BY <1>1 DEF IInv, ChainOk, InTimeOrder
<1>4. \A c \in coins : c \in Nat /\ task.cursor \in Nat
  BY ParametersAssumption DEF IInv, ChainOk, TaskOk
<1>5. coins \ changed \subseteq ToSet(result) \cup spared'
  BY <1>1, <1>4 DEF IInv, GetCoinsOk
<1>6. GetCoinsOk'
  BY <1>1, <1>2, <1>5 DEF IInv, GetCoinsOk, Ascending
<1>7. QED
  BY <1>2, <1>3, <1>6, GetCoinsSuffices

LEMMA AllCoinsAnsweredKeeps ==
    ASSUME IInv, AllCoinsAnswered
    PROVE  IInv'
<1> DEFINE page == Page(coins, 0, PageSize)
<1>1. /\ task.op = "getCustomCoins" /\ task.phase = "coins"
      /\ IF page = << >>
         THEN Return
         ELSE task' = [task EXCEPT !.phase = "coinMetadata", !.read = page, !.pending = ToSet(page)]
      /\ spared' = {c \in coins : c \notin ToSet(page)}
      /\ UNCHANGED <<result, used, coins, place, history, stakes, changed, changes>>
  BY DEF AllCoinsAnswered, At, chain
<1>2. page \in Seq(Coins) /\ Ascending(page)
  <2>1. coins \subseteq Coins /\ 0 \in Nat
    BY DEF IInv, ChainOk
  <2>2. QED
    BY <2>1, CoinsPage
<1>3. ChainOk'
  BY <1>1 DEF IInv, ChainOk, InTimeOrder
<1>4. result' \in Seq(Coins) /\ Ascending(result')
  BY <1>1 DEF IInv, CustomCoinsOk, Ascending
<1> HIDE DEF page
<1>5. coins' \ changed' \subseteq ToSet(page) \cup spared'
  BY <1>1
<1>6. CASE page = << >>
  <2>1. task' = [task EXCEPT !.phase = "returned", !.pending = {}]
    BY <1>1, <1>6 DEF Return
  <2>2. TaskOk' /\ task'.op = "getCustomCoins" /\ task'.phase = "returned"
    BY <1>1, <2>1 DEF IInv, TaskOk, Phases
  <2>3. ToSet(page) = {}
    BY <1>6 DEF ToSet
  <2>4. CustomCoinsOk'
    BY <1>4, <1>5, <2>2, <2>3 DEF CustomCoinsOk
  <2>5. QED
    BY <1>3, <2>2, <2>4, CustomCoinsSuffices
<1>7. CASE page # << >>
  <2>1. task' = [task EXCEPT !.phase = "coinMetadata", !.read = page, !.pending = ToSet(page)]
    BY <1>1, <1>7
  <2>2. TaskOk' /\ task'.op = "getCustomCoins" /\ task'.phase = "coinMetadata" /\ task'.read = page
    BY <1>1, <2>1 DEF IInv, TaskOk, Phases
  <2>3. CustomCoinsOk'
    BY <1>2, <1>4, <1>5, <2>2 DEF CustomCoinsOk
  <2>4. QED
    BY <1>3, <2>2, <2>3, CustomCoinsSuffices
<1>8. QED
  BY <1>6, <1>7

LEMMA MetadataDoneKeeps ==
    ASSUME IInv, NEW c, NEW left, At("getCustomCoins", "coinMetadata"), MetadataDone(c, left),
           spared \subseteq left
    PROVE  IInv'
<1> DEFINE positions == {i \in DOMAIN task.read : task.read[i] \notin left}
           items == ItemsAt(task.read, positions)
<1>1. /\ task.op = "getCustomCoins" /\ task.phase = "coinMetadata"
      /\ spared' = left
      /\ IF task.pending = {c}
         THEN Return /\ result' = items
         ELSE task' = [task EXCEPT !.pending = @ \ {c}] /\ UNCHANGED result
      /\ UNCHANGED <<used, coins, place, history, stakes, changed, changes>>
  BY DEF MetadataDone, At, chain
<1>2. /\ task.read \in Seq(Coins) /\ Ascending(task.read)
      /\ result \in Seq(Coins) /\ Ascending(result)
      /\ coins' \ changed' \subseteq ToSet(task.read) \cup left
  BY <1>1 DEF IInv, CustomCoinsOk
<1>3. ChainOk'
  BY <1>1 DEF IInv, ChainOk, InTimeOrder
<1>4. IsSeq(task.read) /\ \A i \in DOMAIN task.read : task.read[i] \in Coins
  BY <1>2, SeqIsSeq
<1>5. positions \in SUBSET (DOMAIN task.read)
  OBVIOUS
<1>6. \A i \in positions : i \in DOMAIN task.read
  OBVIOUS
<1>7. \A i \in DOMAIN task.read : task.read[i] \in left \/ i \in positions
  OBVIOUS
<1> HIDE DEF positions
<1>8. /\ IsSeq(items) /\ ToSet(items) = {task.read[i] : i \in positions}
      /\ \E at \in [DOMAIN items -> positions] :
            /\ \A i, j \in DOMAIN items : i < j => at[i] < at[j]
            /\ \A i \in DOMAIN items : items[i] = task.read[at[i]]
  BY <1>4, <1>5, Picked
<1> HIDE DEF items
<1>9. items \in Seq(Coins) /\ Ascending(items)
  <2>1. PICK at \in [DOMAIN items -> positions] :
            /\ \A i, j \in DOMAIN items : i < j => at[i] < at[j]
            /\ \A i \in DOMAIN items : items[i] = task.read[at[i]]
    BY <1>8
  <2>2. \A i \in DOMAIN items : items[i] \in Coins /\ at[i] \in DOMAIN task.read
    BY <1>4, <1>6, <2>1
  <2>3. Ascending(items)
    BY <1>2, <2>1, <2>2 DEF Ascending
  <2>4. QED
    BY <1>8, <2>2, <2>3, IsSeqOf
<1>10. ToSet(task.read) \subseteq ToSet(items) \cup left
  BY <1>7, <1>8 DEF ToSet
<1>11. CASE task.pending = {c}
  <2>1. task' = [task EXCEPT !.phase = "returned", !.pending = {}] /\ result' = items
    BY <1>1, <1>11 DEF Return
  <2>2. TaskOk' /\ task'.op = "getCustomCoins" /\ task'.phase = "returned"
    BY <1>1, <2>1 DEF IInv, TaskOk, Phases
  <2>3. CustomCoinsOk'
    BY <1>1, <1>2, <1>9, <1>10, <2>1, <2>2 DEF CustomCoinsOk
  <2>4. QED
    BY <1>3, <2>2, <2>3, CustomCoinsSuffices
<1>12. CASE task.pending # {c}
  <2>1. task' = [task EXCEPT !.pending = @ \ {c}] /\ result' = result
    BY <1>1, <1>12
  <2>2. /\ TaskOk' /\ task'.op = "getCustomCoins" /\ task'.phase = "coinMetadata"
        /\ task'.read = task.read
    BY <1>1, <2>1 DEF IInv, TaskOk, Phases
  <2>3. CustomCoinsOk'
    BY <1>1, <1>2, <2>1, <2>2 DEF CustomCoinsOk, Ascending
  <2>4. QED
    BY <1>3, <2>2, <2>3, CustomCoinsSuffices
<1>13. QED
  BY <1>11, <1>12

LEMMA CoinMetadataKeeps ==
    ASSUME IInv, NEW c, CoinMetadataAnswered(c) \/ CoinMetadataFails(c)
    PROVE  IInv'
<1>1. CASE CoinMetadataAnswered(c)
  BY <1>1, MetadataDoneKeeps DEF CoinMetadataAnswered
<1>2. CASE CoinMetadataFails(c)
  <2> DEFINE left == IF Dropped(c) THEN spared \cup {c} ELSE spared
  <2>1. At("getCustomCoins", "coinMetadata") /\ MetadataDone(c, left) /\ spared \subseteq left
    BY <1>2 DEF CoinMetadataFails
  <2> HIDE DEF left
  <2>2. QED
    BY <2>1, MetadataDoneKeeps
<1>3. QED
  BY <1>1, <1>2

LEMMA CoinComesOrGoesKeeps ==
    ASSUME IInv, NEW c \in Coins, CoinComesOrGoes(c)
    PROVE  IInv'
<1>1. /\ task.op \in {"getCoins", "getCustomCoins"} /\ task.phase # "returned"
      /\ changes' = changes + 1
      /\ coins' = IF c \in coins THEN coins \ {c} ELSE coins \cup {c}
      /\ changed' = changed \cup {c}
      /\ UNCHANGED <<task, result, spared, used, place, history, stakes>>
  BY DEF CoinComesOrGoes, Change, Running
<1>2. TaskOk' /\ task'.op = task.op /\ task'.phase = task.phase
  BY <1>1 DEF IInv, TaskOk
<1>3. ChainOk'
  <2>1. coins' \subseteq Coins
    BY <1>1 DEF IInv, ChainOk
  <2>2. changes' \in Nat
    BY <1>1 DEF IInv, ChainOk
  <2>3. QED
    BY <1>1, <2>1, <2>2 DEF IInv, ChainOk, InTimeOrder
<1>4. coins' \ changed' \subseteq coins \ changed
  BY <1>1
<1>5. GetCoinsOk'
  BY <1>1, <1>2, <1>4 DEF IInv, GetCoinsOk, Ascending
<1>6. CustomCoinsOk'
  BY <1>1, <1>2, <1>4 DEF IInv, CustomCoinsOk, Ascending
<1>7. QED
  BY <1>1, <1>2, <1>3, <1>5, <1>6, GetCoinsSuffices, CustomCoinsSuffices

-----------------------------------------------------------------------------
(* getNfts *)

LEMMA NftsSuffices ==
    ASSUME task'.op = "getNfts", TaskOk', ChainOk', NftsOk'
    PROVE  IInv'
BY DEF IInv, ImportOk, GetCoinsOk, CustomCoinsOk, NftsByIdOk, ValidatorsOk, TransactionsOk

\* What a listing is to find does not depend on how far it is.
LEMMA FoundKept ==
    ASSUME task'.cursor = task.cursor, task'.next = task.next, place' = place
    PROVE  Found' = Found
  BY DEF Found, OnPage

LEMMA FoundWhere ==
    ASSUME place \in [Nfts -> Places]
    PROVE  /\ Found \in [Nfts -> Places]
           /\ \A n \in Nfts : Found[n] = "wallet" <=> place[n] = "wallet" /\ OnPage(n)
           /\ \A n \in Nfts, k \in ObKiosks \cup SuiKiosks : Found[n] = k <=> place[n] = k
  BY ParametersAssumption DEF Found, Places

\* The members of a set of NFTs, as a sequence.
LEMMA ItemsOfSet ==
    ASSUME NEW S, S \subseteq Nfts
    PROVE  LET items == SetToSeq(S)
           IN  /\ IsSeq(items) /\ \A i \in DOMAIN items : items[i] \in Nfts
               /\ \A i, j \in DOMAIN items : i # j => items[i] # items[j]
               /\ ToSet(items) = S
<1> DEFINE items == SetToSeq(S)
           m == Cardinality(S)
<1>1. IsFiniteSet(S)
  BY FiniteAssumption, FS_Subset
<1>2. /\ m \in Nat /\ items \in [1 .. m -> S]
      /\ \A i, j \in 1 .. m : i # j => items[i] # items[j]
      /\ \A x \in S : \E i \in 1 .. m : items[i] = x
  BY <1>1, SetToSeqLists
<1> HIDE DEF items, m
<1>3. DOMAIN items = 1 .. m /\ Len(items) = m /\ items = [i \in 1 .. m |-> items[i]]
  BY <1>2
<1>4. IsSeq(items)
  BY <1>2, <1>3 DEF IsSeq
<1>5. ToSet(items) = S
  BY <1>2, <1>3 DEF ToSet
<1>6. QED
  BY <1>2, <1>3, <1>4, <1>5 DEF items

\* The reads of one kiosk are what its page lists, each once.
LEMMA ReadsOfItems ==
    ASSUME NEW where, NEW items, IsSeq(items), \A i \in DOMAIN items : items[i] \in Nfts,
           \A i, j \in DOMAIN items : i # j => items[i] # items[j]
    PROVE  LET reads == Reads(where, items)
           IN  /\ IsSeq(reads)
               /\ \A i \in DOMAIN reads : reads[i] \in {where} \X Nfts
               /\ IsInjective(reads)
               /\ \A n \in Nfts : <<where, n>> \in ToSet(reads) <=> n \in ToSet(items)
<1> DEFINE reads == Reads(where, items)
<1>1. reads = [i \in DOMAIN items |-> <<where, items[i]>>]
  BY DEF Reads
<1>2. DOMAIN items = 1 .. Len(items) /\ Len(items) \in Nat
  BY DEF IsSeq
<1> HIDE DEF reads
<1>3. DOMAIN reads = 1 .. Len(items) /\ \A i \in DOMAIN items : reads[i] = <<where, items[i]>>
  BY <1>1, <1>2
<1>4. IsSeq(reads)
  BY <1>1, <1>2, <1>3 DEF IsSeq
<1>5. IsInjective(reads)
  BY <1>2, <1>3 DEF IsInjective
<1>6. \A n \in Nfts : <<where, n>> \in ToSet(reads) <=> n \in ToSet(items)
  BY <1>2, <1>3 DEF ToSet
<1>7. \A i \in DOMAIN reads : reads[i] \in {where} \X Nfts
  BY <1>2, <1>3
<1>8. QED
  BY <1>4, <1>5, <1>6, <1>7 DEF reads

\* One kiosk more is read.
LEMMA OneMoreKiosk ==
    ASSUME NEW lasting, lasting \subseteq Nfts, NEW there,
           NEW reads, NEW places, NEW kiosk, kiosk \notin places,
           ReadsAre(reads, places, lasting, there),
           NEW items, IsSeq(items), \A i \in DOMAIN items : items[i] \in Nfts,
           \A i, j \in DOMAIN items : i # j => items[i] # items[j],
           \A n \in lasting : n \in ToSet(items) <=> there[n] = kiosk
    PROVE  ReadsAre(reads \o Reads(kiosk, items), places \cup {kiosk}, lasting, there)
<1> DEFINE more == Reads(kiosk, items)
           w == reads \o more
<1>1. /\ IsSeq(more) /\ \A i \in DOMAIN more : more[i] \in {kiosk} \X Nfts
      /\ IsInjective(more)
      /\ \A n \in Nfts : <<kiosk, n>> \in ToSet(more) <=> n \in ToSet(items)
  BY ReadsOfItems
<1> HIDE DEF more
<1>2. /\ reads \in Seq(places \X Nfts) /\ IsInjective(reads)
      /\ \A n \in lasting, k \in places : <<k, n>> \in ToSet(reads) <=> there[n] = k
  BY DEF ReadsAre
<1>3. IsSeq(reads) /\ \A i \in DOMAIN reads : reads[i] \in places \X Nfts
  BY <1>2, SeqIsSeq
<1>4. /\ IsSeq(w) /\ Len(w) = Len(reads) + Len(more)
      /\ \A i \in 1 .. Len(reads) : w[i] = reads[i]
      /\ \A i \in 1 .. Len(more) : w[Len(reads) + i] = more[i]
      /\ \A i \in 1 .. Len(w) : i \in 1 .. Len(reads) \/ \E k \in 1 .. Len(more) : i = Len(reads) + k
      /\ ToSet(w) = ToSet(reads) \cup ToSet(more)
  BY <1>1, <1>3, Joined
<1> HIDE DEF w
<1>5. /\ DOMAIN w = 1 .. Len(w) /\ DOMAIN reads = 1 .. Len(reads) /\ DOMAIN more = 1 .. Len(more)
      /\ Len(reads) \in Nat /\ Len(more) \in Nat
  BY <1>1, <1>3, <1>4 DEF IsSeq
<1>6. \A i \in DOMAIN w : \/ i \in DOMAIN reads /\ w[i] = reads[i]
                       \/ \E k \in DOMAIN more : i = Len(reads) + k /\ w[i] = more[k]
  <2>1. SUFFICES ASSUME NEW i \in DOMAIN w, i \notin DOMAIN reads
                 PROVE  \E k \in DOMAIN more : i = Len(reads) + k /\ w[i] = more[k]
    BY <1>4, <1>5
  <2>2. PICK k \in 1 .. Len(more) : i = Len(reads) + k
    BY <1>4, <1>5, <2>1
  <2>3. QED
    BY <1>4, <1>5, <2>2
<1>7. \A i \in DOMAIN reads : reads[i][1] # kiosk /\ reads[i] \in (places \cup {kiosk}) \X Nfts
  BY <1>3
<1>8. \A i \in DOMAIN more : more[i][1] = kiosk /\ more[i] \in (places \cup {kiosk}) \X Nfts
  BY <1>1
<1>9. w \in Seq((places \cup {kiosk}) \X Nfts)
  <2>1. \A i \in DOMAIN w : w[i] \in (places \cup {kiosk}) \X Nfts
    BY <1>6, <1>7, <1>8
  <2>2. QED
    BY <1>4, <2>1, IsSeqOf
<1>10. IsInjective(w)
  <2>1. SUFFICES ASSUME NEW i \in DOMAIN w, NEW j \in DOMAIN w, w[i] = w[j]
                 PROVE  i = j
    BY DEF IsInjective
  <2>2. CASE i \in DOMAIN reads /\ w[i] = reads[i] /\ j \in DOMAIN reads /\ w[j] = reads[j]
    BY <1>2, <2>1, <2>2 DEF IsInjective
  <2>3. CASE /\ \E k \in DOMAIN more : i = Len(reads) + k /\ w[i] = more[k]
             /\ \E k \in DOMAIN more : j = Len(reads) + k /\ w[j] = more[k]
    BY <1>1, <2>1, <2>3 DEF IsInjective
  <2>4. CASE \/ w[i][1] = kiosk /\ w[j][1] # kiosk
             \/ w[i][1] # kiosk /\ w[j][1] = kiosk
    BY <2>1, <2>4
  <2>5. QED
    BY <1>6, <1>7, <1>8, <2>2, <2>3, <2>4
<1>11. ASSUME NEW n \in lasting, NEW k \in places \cup {kiosk}
       PROVE  <<k, n>> \in ToSet(w) <=> there[n] = k
  <2>1. CASE k = kiosk
    <3>1. <<kiosk, n>> \notin ToSet(reads)
      BY <1>7 DEF ToSet
    <3>2. QED
      BY <1>1, <1>4, <2>1, <3>1
  <2>2. CASE k # kiosk
    <3>1. <<k, n>> \notin ToSet(more)
      BY <1>8, <2>2 DEF ToSet
    <3>2. QED
      BY <1>2, <1>4, <2>2, <3>1
  <2>3. QED
    BY <2>1, <2>2
<1>12. QED
  BY <1>9, <1>10, <1>11 DEF ReadsAre, w, more

\* Kiosks that none of what lasts is in are as good as read.
LEMMA NoneThere ==
    ASSUME NEW reads, NEW places, NEW lasting, NEW there, ReadsAre(reads, places, lasting, there),
           NEW more, places \subseteq more, \A n \in lasting : there[n] \notin more \ places
    PROVE  ReadsAre(reads, more, lasting, there)
<1>1. reads \in Seq(places \X Nfts) /\ IsInjective(reads)
  BY DEF ReadsAre
<1>2. IsSeq(reads) /\ \A i \in DOMAIN reads : reads[i] \in places \X Nfts
  BY <1>1, SeqIsSeq
<1>3. reads \in Seq(more \X Nfts)
  <2>1. \A i \in DOMAIN reads : reads[i] \in more \X Nfts
    BY <1>2
  <2>2. QED
    BY <1>2, <2>1, IsSeqOf
<1>4. \A n \in lasting, k \in more \ places : <<k, n>> \notin ToSet(reads)
  BY <1>2 DEF ToSet
<1>5. \A n \in lasting, k \in more : <<k, n>> \in ToSet(reads) <=> there[n] = k
  BY <1>4 DEF ReadsAre
<1>6. QED
  BY <1>1, <1>3, <1>5 DEF ReadsAre

\* Fewer of them last.
LEMMA FewerLast ==
    ASSUME NEW reads, NEW places, NEW lasting, NEW where, ReadsAre(reads, places, lasting, where),
           NEW fewer, fewer \subseteq lasting, NEW there, \A n \in fewer : there[n] = where[n]
    PROVE  ReadsAre(reads, places, fewer, there)
BY DEF ReadsAre

LEMMA NothingRead ==
    ASSUME NEW lasting, NEW where
    PROVE  ReadsAre(<< >>, {}, lasting, where)
BY DEF ReadsAre, IsInjective

LEMMA StartNftsKeeps ==
    ASSUME IInv, StartNfts
    PROVE  IInv'
<1>1. PICK after \in {0} \cup Nfts :
            task' = [Idle EXCEPT !.op = "getNfts", !.phase = "wallet", !.cursor = after]
  BY DEF StartNfts
<1>2. /\ task = Idle /\ place' \in [Nfts -> Places]
      /\ UNCHANGED <<result, spared, used, coins, history, stakes, changed, changes>>
  BY DEF StartNfts
<1>3. result = << >> /\ spared = {}
  BY <1>2 DEF IInv, TaskOk, Idle
<1>4. TaskOk' /\ task'.op = "getNfts" /\ task'.phase = "wallet"
  <2>1. after \in Nat
    BY ParametersAssumption
  <2>2. QED
    BY <1>1, <2>1 DEF TaskOk, Phases, Idle
<1>5. ChainOk'
  BY <1>2 DEF IInv, ChainOk, InTimeOrder
<1>6. result' \in Seq(Entries) /\ Distinct(result') /\ result' = << >> /\ spared' = {}
  BY <1>2, <1>3 DEF Distinct
<1>7. NftsOk'
  BY <1>4, <1>6 DEF NftsOk
<1>8. QED
  BY <1>4, <1>5, <1>7, NftsSuffices

\* The page of the wallet is what is between the cursor given and the one that
\* is handed on.
LEMMA WalletPage ==
    ASSUME NEW all, all \subseteq Nfts, NEW after \in Nat, NEW size \in Nat \ {0}, NEW n \in all
    PROVE  LET page == Page(all, after, size)
               next == NextCursor(all, page)
           IN  n \in ToSet(page) <=> after < n /\ (next = 0 \/ n <= next)
<1> DEFINE page == Page(all, after, size)
           next == NextCursor(all, page)
           last == page[Len(page)]
<1>1. all \subseteq Nat /\ IsFiniteSet(all) /\ \A x \in all : x \in Nat /\ x # 0
  BY ParametersAssumption, FiniteAssumption, FS_Subset
<1>2. /\ page \in Seq(all) /\ IsSeq(page)
      /\ \A i \in DOMAIN page : page[i] > after
      /\ page = << >> => \A c \in all : ~ (c > after)
      /\ page # << >> =>
            /\ Len(page) \in DOMAIN page
            /\ \A i \in DOMAIN page : page[i] <= last
            /\ \A c \in all : c > after => c \in ToSet(page) \/ c > last
  BY <1>1, PageLists
<1>3. next = IF page # << >> /\ \E m \in all : m > last THEN last ELSE 0
  BY DEF NextCursor
<1> HIDE DEF page, next
<1>4. CASE page = << >>
  <2>1. ToSet(page) = {}
    BY <1>4 DEF ToSet
  <2>2. ~ (after < n)
    BY <1>1, <1>2, <1>4
  <2>3. QED
    BY <2>1, <2>2 DEF page, next
<1>5. CASE page # << >>
  <2>1. \A i \in DOMAIN page : page[i] \in all /\ page[i] \in Nat
    BY <1>1, <1>2, SeqIsSeq
  <2>2. last \in Nat /\ last # 0 /\ n \in Nat
    BY <1>1, <1>2, <1>5, <2>1
  <2> HIDE DEF last
  <2>3. n \in ToSet(page) => after < n /\ n <= last
    BY <1>2, <1>5, <2>1, <2>2 DEF ToSet
  <2>4. after < n /\ n <= last => n \in ToSet(page)
    BY <1>2, <1>5, <2>2
  <2>5. after < n => n \in ToSet(page) \/ n > last
    BY <1>2, <1>5, <2>2
  <2>6. CASE next = 0
    BY <1>3, <1>5, <2>2, <2>3, <2>5, <2>6 DEF page, next
  <2>7. CASE next # 0
    BY <1>3, <1>5, <2>2, <2>3, <2>4, <2>7 DEF page, next
  <2>8. QED
    BY <2>6, <2>7
<1>6. QED
  BY <1>4, <1>5

LEMMA WalletAnsweredKeeps ==
    ASSUME IInv, WalletAnswered \/ WalletAnsweredOnly
    PROVE  IInv'
<1>1. /\ task.op = "getNfts" /\ task.phase = "wallet"
      /\ UNCHANGED <<result, spared, used, coins, place, history, stakes, changed, changes>>
  BY DEF WalletAnswered, WalletAnsweredOnly, At, chain
<1>2. /\ result' = << >> /\ result' \in Seq(Entries) /\ Distinct(result')
      /\ \A n \in (Nfts \cap spared') \ changed' : place'[n] \in ObKiosks \cup SuiKiosks
  BY <1>1 DEF IInv, NftsOk, Distinct
<1>3. ChainOk' /\ place \in [Nfts -> Places] /\ task.cursor \in Nat
  BY <1>1 DEF IInv, ChainOk, TaskOk, InTimeOrder
<1>4. CASE WalletAnswered
  <2> DEFINE all == In("wallet")
  <2>1. PICK size \in 1 .. PageSize :
            task' = [task EXCEPT !.phase = "obTokens",
                                 !.read = Reads("wallet", Page(all, task.cursor, size)),
                                 !.next = NextCursor(all, Page(all, task.cursor, size))]
    BY <1>4 DEF WalletAnswered
  <2>2. size \in Nat \ {0}
    BY ParametersAssumption
  <2>3. all \subseteq Nfts /\ all \subseteq Nat /\ IsFiniteSet(all) /\ \A n \in Nfts : n \in all <=> place[n] = "wallet"
    BY ParametersAssumption, FiniteAssumption, FS_Subset DEF In
  <2> DEFINE page == Page(all, task.cursor, size)
             next == NextCursor(all, page)
  <2>4. page \in Seq(all) /\ IsSeq(page) /\ Ascending(page)
    <3> HIDE DEF all
    <3>1. QED
      BY <1>3, <2>2, <2>3, PageLists
  <2>5. \A n \in all : n \in ToSet(page) <=> task.cursor < n /\ (next = 0 \/ n <= next)
    <3> HIDE DEF all
    <3>1. QED
      BY <1>3, <2>2, <2>3, WalletPage
  <2>6. /\ TaskOk' /\ task'.op = "getNfts" /\ task'.phase = "obTokens"
        /\ task'.read = Reads("wallet", page) /\ task'.next = next /\ task'.cursor = task.cursor
    BY <1>1, <2>1 DEF IInv, TaskOk, Phases
  <2> HIDE DEF all, page, next
  <2>7. /\ \A i \in DOMAIN page : page[i] \in all /\ page[i] \in Nfts /\ page[i] \in Nat
        /\ DOMAIN page = 1 .. Len(page) /\ Len(page) \in Nat
    BY <2>3, <2>4, SeqIsSeq
  <2>8. \A i, j \in DOMAIN page : i # j => page[i] # page[j]
    <3>1. SUFFICES ASSUME NEW i \in DOMAIN page, NEW j \in DOMAIN page, i # j
                   PROVE  page[i] # page[j]
      OBVIOUS
    <3>2. i < j \/ j < i
      BY <2>7, <3>1
    <3>3. page[i] < page[j] \/ page[j] < page[i]
      BY <2>4, <3>2 DEF Ascending
    <3>4. QED
      BY <2>7, <3>3
  <2>9. \A n \in Lasting' : n \in ToSet(page) <=> Found'[n] = "wallet"
    <3>1. \A n \in Nfts : Found'[n] = IF place[n] = "wallet" /\ ~ (task.cursor < n /\ (next = 0 \/ n <= next))
                                      THEN "elsewhere" ELSE place[n]
      BY <1>1, <2>6 DEF Found, OnPage
    <3>2. \A n \in ToSet(page) : n \in all
      BY <2>7 DEF ToSet
    <3>3. QED
      BY <2>3, <2>5, <3>1, <3>2 DEF Lasting
  <2>10. Lasting' \subseteq Nfts
    BY DEF Lasting
  <2>11. ReadsAre(<< >> \o Reads("wallet", page), {} \cup {"wallet"}, Lasting', Found')
    <3> DEFINE lasting == Lasting'
               there == Found'
    <3>1. /\ lasting \subseteq Nfts
          /\ \A n \in lasting : n \in ToSet(page) <=> there[n] = "wallet"
      BY <2>9, <2>10
    <3> HIDE DEF lasting, there
    <3>2. ReadsAre(<< >> \o Reads("wallet", page), {} \cup {"wallet"}, lasting, there)
      BY <2>4, <2>7, <2>8, <3>1, NothingRead, OneMoreKiosk
    <3>3. QED
      BY <3>2 DEF lasting, there
  <2>12. << >> \o Reads("wallet", page) = Reads("wallet", page)
    <3> DEFINE reads == Reads("wallet", page)
    <3>1. IsSeq(reads)
      BY <2>4, <2>7, <2>8, ReadsOfItems
    <3>2. \A i \in DOMAIN reads : reads[i] \in ToSet(reads)
      BY DEF ToSet
    <3> HIDE DEF reads
    <3>3. reads \in Seq(ToSet(reads))
      BY <3>1, <3>2, IsSeqOf
    <3>4. << >> \o reads = reads
      BY <3>3
    <3>5. QED
      BY <3>4 DEF reads
  <2>13. (ReadsOk({"wallet"}))'
    <3>1. {} \cup {"wallet"} = {"wallet"}
      OBVIOUS
    <3>2. QED
      BY <2>6, <2>11, <2>12, <3>1 DEF ReadsOk
  <2>14. NftsOk'
    BY <1>2, <2>6, <2>13 DEF NftsOk
  <2>15. QED
    BY <1>3, <2>6, <2>14, NftsSuffices
<1>5. CASE WalletAnsweredOnly
  <2>1. task' = [task EXCEPT !.phase = "threw", !.pending = {}]
    BY <1>5 DEF WalletAnsweredOnly, Throw
  <2>2. TaskOk' /\ task'.op = "getNfts" /\ task'.phase = "threw"
    BY <1>1, <2>1 DEF IInv, TaskOk, Phases
  <2>3. NftsOk'
    BY <1>2, <2>2 DEF NftsOk
  <2>4. QED
    BY <1>3, <2>2, <2>3, NftsSuffices
<1>6. QED
  BY <1>4, <1>5

\* The owner's kiosks are known: those on no page count as read, since nothing
\* that lasts by what is spared now is in them.
LEMMA KiosksAnsweredKeeps ==
    ASSUME IInv, ObTokensAnswered \/ SuiCapsAnswered
    PROVE  IInv'
<1>1. PICK kiosks, page, phase :
        /\ \/ kiosks = ObKiosks /\ phase = "obKiosks" /\ task.phase = "obTokens"
           \/ kiosks = SuiKiosks /\ phase = "suiKiosks" /\ task.phase = "suiCaps"
        /\ page \subseteq kiosks
        /\ task' = [task EXCEPT !.phase = phase, !.pending = page]
        /\ spared' = spared \cup {n \in Nfts : place[n] \in kiosks \ page}
        /\ task.op = "getNfts"
        /\ UNCHANGED <<result, used, coins, place, history, stakes, changed, changes>>
  <2>1. CASE ObTokensAnswered
    <3>1. PICK page \in OnePage(ObKiosks) :
            /\ task' = [task EXCEPT !.phase = "obKiosks", !.pending = page]
            /\ spared' = spared \cup {n \in Nfts : place[n] \in ObKiosks \ page}
      BY <2>1 DEF ObTokensAnswered, KiosksAnswered
    <3>2. page \subseteq ObKiosks
      BY <3>1 DEF OnePage
    <3>3. QED
      BY <2>1, <3>1, <3>2 DEF ObTokensAnswered, At, chain
  <2>2. CASE SuiCapsAnswered
    <3>1. PICK page \in OnePage(SuiKiosks) :
            /\ task' = [task EXCEPT !.phase = "suiKiosks", !.pending = page]
            /\ spared' = spared \cup {n \in Nfts : place[n] \in SuiKiosks \ page}
      BY <2>2 DEF SuiCapsAnswered, KiosksAnswered
    <3>2. page \subseteq SuiKiosks
      BY <3>1 DEF OnePage
    <3>3. QED
      BY <2>2, <3>1, <3>2 DEF SuiCapsAnswered, At, chain
  <2>3. QED
    BY <2>1, <2>2
<1>2. /\ TaskOk' /\ task'.op = "getNfts" /\ task'.phase = phase
      /\ task'.pending = page /\ task'.read = task.read
      /\ task'.cursor = task.cursor /\ task'.next = task.next
  BY <1>1 DEF IInv, TaskOk, Phases
<1>3. ChainOk' /\ place \in [Nfts -> Places]
  BY <1>1 DEF IInv, ChainOk, InTimeOrder
<1>4. Found' = Found
  BY <1>1, <1>2, FoundKept
<1>5. /\ Lasting' \subseteq Lasting /\ Lasting' \subseteq Nfts
      /\ \A n \in Lasting' : place[n] \notin kiosks \ page
  BY <1>1 DEF Lasting
<1>6. \A n \in Lasting' : Found[n] \notin kiosks \ page
  BY <1>1, <1>3, <1>5, FoundWhere
<1>7. /\ result' \in Seq(Entries) /\ Distinct(result') /\ result' = result
      /\ \A n \in (Nfts \cap spared') \ changed' : place'[n] \in ObKiosks \cup SuiKiosks
  BY <1>1 DEF IInv, NftsOk, Distinct
<1>8. ASSUME NEW places, ReadsAre(task.read, places, Lasting, Found), places \cap kiosks = {}
      PROVE  ReadsAre(task.read, places \cup (kiosks \ page), Lasting', Found')
  <2> DEFINE lasting == Lasting'
             more == places \cup (kiosks \ page)
  <2>1. ReadsAre(task.read, places, lasting, Found)
    <3>1. lasting \subseteq Lasting
      BY <1>5
    <3> HIDE DEF lasting
    <3>2. QED
      BY <1>8, <3>1, FewerLast
  <2>2. places \subseteq more /\ \A n \in lasting : Found[n] \notin more \ places
    BY <1>6
  <2> HIDE DEF lasting, more
  <2>3. ReadsAre(task.read, more, lasting, Found)
    BY <2>1, <2>2, NoneThere
  <2>4. QED
    BY <1>4, <2>3 DEF lasting, more
<1>9. CASE task.phase = "obTokens"
  <2>1. kiosks = ObKiosks /\ phase = "obKiosks"
    BY <1>1, <1>9
  <2>2. ReadsAre(task.read, {"wallet"}, Lasting, Found) /\ result = << >>
    BY <1>1, <1>9 DEF IInv, NftsOk, ReadsOk
  <2>3. {"wallet"} \cap kiosks = {}
    BY <2>1, ParametersAssumption
  <2>4. ReadsAre(task.read, {"wallet"} \cup (kiosks \ page), Lasting', Found')
    BY <1>8, <2>2, <2>3
  <2>5. (ReadsOk({"wallet"} \cup (ObKiosks \ task.pending)))'
    BY <1>2, <2>1, <2>4 DEF ReadsOk
  <2>6. NftsOk'
    BY <1>1, <1>2, <1>7, <2>1, <2>2, <2>5 DEF NftsOk
  <2>7. QED
    BY <1>2, <1>3, <2>6, NftsSuffices
<1>10. CASE task.phase = "suiCaps"
  <2>1. kiosks = SuiKiosks /\ phase = "suiKiosks"
    BY <1>1, <1>10
  <2>2. /\ task.read = << >>
        /\ \A i \in DOMAIN result : Source(result[i]) # 3
        /\ \A n \in Lasting \cap Displayed :
                /\ InWallet(n) \in ToSet(result) <=> Found[n] = "wallet"
                /\ InObKiosk(n) \in ToSet(result) <=> Found[n] \in ObKiosks
    BY <1>1, <1>10 DEF IInv, NftsOk
  <2>3. ReadsAre(task.read, {}, Lasting, Found)
    BY <2>2, NothingRead
  <2>4. ReadsAre(task.read, {} \cup (kiosks \ page), Lasting', Found')
    BY <1>8, <2>3
  <2>5. (ReadsOk(SuiKiosks \ task.pending))'
    <3>1. {} \cup (kiosks \ page) = SuiKiosks \ task'.pending
      BY <1>2, <2>1
    <3>2. QED
      BY <1>2, <2>4, <3>1 DEF ReadsOk
  <2>6. NftsOk'
    BY <1>1, <1>2, <1>4, <1>5, <1>7, <2>1, <2>2, <2>5 DEF NftsOk
  <2>7. QED
    BY <1>2, <1>3, <2>6, NftsSuffices
<1>11. QED
  BY <1>1, <1>9, <1>10

\* A kiosk's page is read, and what it leaves out is spared.
LEMMA KioskAnsweredKeeps ==
    ASSUME IInv, NEW kiosk,
           (kiosk \in ObKiosks /\ ObKioskAnswered(kiosk)) \/ (kiosk \in SuiKiosks /\ SuiKioskAnswered(kiosk))
    PROVE  IInv'
<1>1. /\ task.op = "getNfts" /\ kiosk \in task.pending /\ KioskAnswered(kiosk)
      /\ UNCHANGED <<result, used, coins, place, history, stakes, changed, changes>>
  BY DEF ObKioskAnswered, SuiKioskAnswered, At, chain
<1>2. PICK page \in OnePage(In(kiosk)) :
        /\ task' = [task EXCEPT !.pending = @ \ {kiosk}, !.read = @ \o Reads(kiosk, SetToSeq(page))]
        /\ spared' = spared \cup (In(kiosk) \ page)
  BY <1>1 DEF KioskAnswered
<1> DEFINE items == SetToSeq(page)
<1>3. /\ TaskOk' /\ task'.op = "getNfts" /\ task'.phase = task.phase
      /\ task'.pending = task.pending \ {kiosk} /\ task'.read = task.read \o Reads(kiosk, items)
      /\ task'.cursor = task.cursor /\ task'.next = task.next
  BY <1>1, <1>2 DEF IInv, TaskOk
<1>4. ChainOk' /\ place \in [Nfts -> Places]
  BY <1>1 DEF IInv, ChainOk, InTimeOrder
<1>5. page \subseteq In(kiosk) /\ In(kiosk) \subseteq Nfts /\ \A n \in Nfts : n \in In(kiosk) <=> place[n] = kiosk
  BY DEF OnePage, In
<1>6. /\ IsSeq(items) /\ \A i \in DOMAIN items : items[i] \in Nfts
      /\ \A i, j \in DOMAIN items : i # j => items[i] # items[j]
      /\ ToSet(items) = page
  <2>1. page \subseteq Nfts
    BY <1>5
  <2>2. QED
    BY <2>1, ItemsOfSet
<1> HIDE DEF items
<1>7. Found' = Found
  BY <1>1, <1>3, FoundKept
<1>8. kiosk \in ObKiosks \cup SuiKiosks
  OBVIOUS
<1>9. Lasting' \subseteq Lasting /\ Lasting' \subseteq Nfts
  BY <1>1, <1>2 DEF Lasting
<1>10. \A n \in Lasting' : n \in ToSet(items) <=> Found[n] = kiosk
  <2>1. \A n \in Lasting' : n \in Nfts /\ n \notin In(kiosk) \ page
    BY <1>2 DEF Lasting
  <2>2. \A n \in Nfts : Found[n] = kiosk <=> place[n] = kiosk
    BY <1>4, <1>8, FoundWhere
  <2>3. QED
    BY <1>5, <1>6, <2>1, <2>2
<1>11. /\ result' \in Seq(Entries) /\ Distinct(result') /\ result' = result
       /\ \A n \in (Nfts \cap spared') \ changed' : place'[n] \in ObKiosks \cup SuiKiosks
  <2>1. \A n \in (Nfts \cap spared) \ changed : place[n] \in ObKiosks \cup SuiKiosks
    BY <1>1 DEF IInv, NftsOk
  <2>2. QED
    BY <1>1, <1>2, <1>5, <1>8, <2>1 DEF IInv, NftsOk, Distinct
<1>12. ASSUME NEW places, ReadsAre(task.read, places, Lasting, Found), kiosk \notin places
       PROVE  ReadsAre(task'.read, places \cup {kiosk}, Lasting', Found')
  <2> DEFINE lasting == Lasting'
  <2>1. /\ lasting \subseteq Lasting /\ lasting \subseteq Nfts
        /\ \A n \in lasting : n \in ToSet(items) <=> Found[n] = kiosk
    BY <1>9, <1>10
  <2> HIDE DEF lasting
  <2>2. ReadsAre(task.read, places, lasting, Found)
    BY <1>12, <2>1, FewerLast
  <2>3. ReadsAre(task.read \o Reads(kiosk, items), places \cup {kiosk}, lasting, Found)
    BY <1>6, <1>12, <2>1, <2>2, OneMoreKiosk
  <2>4. QED
    BY <1>3, <1>7, <2>3 DEF lasting
<1>13. CASE kiosk \in ObKiosks /\ task.phase = "obKiosks"
  <2> DEFINE places == {"wallet"} \cup (ObKiosks \ task.pending)
  <2>1. result = << >> /\ task.pending \subseteq ObKiosks /\ ReadsAre(task.read, places, Lasting, Found)
    BY <1>1, <1>13 DEF IInv, NftsOk, ReadsOk
  <2>2. kiosk \notin places
    BY <1>1, <1>13, ParametersAssumption
  <2>3. places \cup {kiosk} = {"wallet"} \cup (ObKiosks \ task'.pending)
    BY <1>1, <1>3, <1>13
  <2>4. ReadsAre(task'.read, places \cup {kiosk}, Lasting', Found')
    <3> HIDE DEF places
    <3>1. QED
      BY <1>12, <2>1, <2>2
  <2>5. (ReadsOk({"wallet"} \cup (ObKiosks \ task.pending)))'
    BY <2>3, <2>4 DEF ReadsOk
  <2>6. NftsOk'
    BY <1>3, <1>11, <1>13, <2>1, <2>5 DEF NftsOk
  <2>7. QED
    BY <1>3, <1>4, <2>6, NftsSuffices
<1>14. CASE kiosk \in SuiKiosks /\ task.phase = "suiKiosks"
  <2> DEFINE places == SuiKiosks \ task.pending
  <2>1. task.pending \subseteq SuiKiosks /\ ReadsAre(task.read, places, Lasting, Found)
    BY <1>1, <1>14 DEF IInv, NftsOk, ReadsOk
  <2>2. kiosk \notin places
    BY <1>1
  <2>3. places \cup {kiosk} = SuiKiosks \ task'.pending
    BY <1>1, <1>3, <1>14
  <2>4. ReadsAre(task'.read, places \cup {kiosk}, Lasting', Found')
    <3> HIDE DEF places
    <3>1. QED
      BY <1>12, <2>1, <2>2
  <2>5. (ReadsOk(SuiKiosks \ task.pending))'
    BY <2>3, <2>4 DEF ReadsOk
  <2>6. /\ \A i \in DOMAIN (result') : Source((result')[i]) # 3
        /\ \A n \in Lasting' \cap Displayed :
                /\ InWallet(n) \in ToSet(result') <=> Found'[n] = "wallet"
                /\ InObKiosk(n) \in ToSet(result') <=> Found'[n] \in ObKiosks
    BY <1>1, <1>7, <1>9, <1>11, <1>14 DEF IInv, NftsOk
  <2>7. NftsOk'
    BY <1>3, <1>11, <1>14, <2>1, <2>5, <2>6 DEF NftsOk
  <2>8. QED
    BY <1>3, <1>4, <2>7, NftsSuffices
<1>15. QED
  BY <1>13, <1>14 DEF ObKioskAnswered, SuiKioskAnswered, At

\* The entries of the three sources.
LEMMA EntryOf ==
    ASSUME NEW n \in Displayed, NEW k \in SuiKiosks
    PROVE  /\ InWallet(n) \in Entries /\ InObKiosk(n) \in Entries /\ InSuiKiosk(n, k) \in Entries
           /\ InWallet(n).nft = n /\ InObKiosk(n).nft = n /\ InSuiKiosk(n, k).nft = n
           /\ InSuiKiosk(n, k).kiosk = k
           /\ Source(InWallet(n)) = 1 /\ Source(InObKiosk(n)) = 2 /\ Source(InSuiKiosk(n, k)) = 3
<1>1. k # "ob"
  BY ParametersAssumption
<1>2. QED
  BY <1>1 DEF InWallet, InObKiosk, InSuiKiosk, Listed, Entries, Source

LEMMA EntryOfWallet ==
    ASSUME NEW n \in Displayed
    PROVE  /\ InWallet(n) \in Entries /\ InObKiosk(n) \in Entries
           /\ InWallet(n).nft = n /\ InObKiosk(n).nft = n
           /\ Source(InWallet(n)) = 1 /\ Source(InObKiosk(n)) = 2
  BY DEF InWallet, InObKiosk, Listed, Entries, Source

LEMMA DistinctJoined ==
    ASSUME NEW s, NEW t, IsSeq(s), IsSeq(t), Distinct(s), Distinct(t),
           \A i \in DOMAIN s, k \in DOMAIN t :
                s[i].nft # t[k].nft \/ Source(s[i]) # Source(t[k])
    PROVE  Distinct(s \o t)
<1> DEFINE w == s \o t
<1>1. /\ DOMAIN s = 1 .. Len(s) /\ Len(s) \in Nat
      /\ DOMAIN t = 1 .. Len(t) /\ Len(t) \in Nat
  BY DEF IsSeq
<1>2. /\ IsSeq(w) /\ Len(w) = Len(s) + Len(t)
      /\ \A i \in 1 .. Len(s) : w[i] = s[i]
      /\ \A i \in 1 .. Len(t) : w[Len(s) + i] = t[i]
      /\ \A i \in 1 .. Len(w) : i \in 1 .. Len(s) \/ \E k \in 1 .. Len(t) : i = Len(s) + k
      /\ ToSet(w) = ToSet(s) \cup ToSet(t)
  BY Joined, Zenon
<1> HIDE DEF w
<1>3. DOMAIN w = 1 .. Len(w)
  BY <1>2 DEF IsSeq
<1>4. ASSUME NEW i \in DOMAIN w, NEW j \in DOMAIN w, i # j
      PROVE  w[i].nft # w[j].nft \/ Source(w[i]) # Source(w[j])
  <2>1. CASE i \in 1 .. Len(s) /\ j \in 1 .. Len(s)
    <3>1. w[i] = s[i] /\ w[j] = s[j]
      BY <1>2, <2>1
    <3>2. QED
      BY <1>1, <1>4, <2>1, <3>1 DEF Distinct
  <2>2. CASE i \in 1 .. Len(s) /\ j \notin 1 .. Len(s)
    <3>1. PICK k \in 1 .. Len(t) : j = Len(s) + k
      BY <1>2, <1>3, <2>2
    <3>2. w[i] = s[i] /\ w[j] = t[k]
      BY <1>2, <2>2, <3>1
    <3>3. QED
      BY <1>1, <2>2, <3>2
  <2>3. CASE i \notin 1 .. Len(s) /\ j \in 1 .. Len(s)
    <3>1. PICK k \in 1 .. Len(t) : i = Len(s) + k
      BY <1>2, <1>3, <2>3
    <3>2. w[j] = s[j] /\ w[i] = t[k]
      BY <1>2, <2>3, <3>1
    <3>3. QED
      BY <1>1, <2>3, <3>2
  <2>4. CASE i \notin 1 .. Len(s) /\ j \notin 1 .. Len(s)
    <3>1. PICK k \in 1 .. Len(t) : i = Len(s) + k
      BY <1>2, <1>3, <2>4
    <3>2. PICK l \in 1 .. Len(t) : j = Len(s) + l
      BY <1>2, <1>3, <2>4
    <3>3. w[i] = t[k] /\ w[j] = t[l] /\ k # l
      BY <1>2, <1>4, <3>1, <3>2
    <3>4. QED
      BY <1>1, <3>3 DEF Distinct
  <2>5. QED
    BY <2>1, <2>2, <2>3, <2>4
<1>5. QED
  BY <1>4 DEF Distinct, w

\* Of the reads, what is shown is what has display data, each as often as it was
\* read.
LEMMA ShownReads ==
    ASSUME NEW P, NEW reads, IsSeq(reads), \A i \in DOMAIN reads : reads[i] \in P \X Nfts
    PROVE  LET shown == Shown(reads)
           IN  /\ IsSeq(shown)
               /\ \A i \in DOMAIN shown : /\ shown[i] = <<shown[i][1], Nft(shown[i])>>
                                          /\ shown[i][1] \in P /\ Nft(shown[i]) \in Displayed
               /\ \A k \in P, n \in Displayed : <<k, n>> \in ToSet(shown) <=> <<k, n>> \in ToSet(reads)
               /\ HasDuplicates(shown) => HasDuplicates(reads)
<1> DEFINE positions == {i \in DOMAIN reads : Nft(reads[i]) \in Displayed}
           shown == Shown(reads)
<1>1. shown = ItemsAt(reads, positions) /\ positions \in SUBSET (DOMAIN reads)
  BY DEF Shown
<1>2. \A i \in DOMAIN reads : /\ reads[i] = <<reads[i][1], Nft(reads[i])>>
                              /\ reads[i][1] \in P /\ i \in positions <=> Nft(reads[i]) \in Displayed
  BY DEF Nft
<1> HIDE DEF positions, shown
<1>3. /\ IsSeq(shown) /\ ToSet(shown) = {reads[i] : i \in positions}
      /\ \E at \in [DOMAIN shown -> positions] :
            /\ \A i, j \in DOMAIN shown : i < j => at[i] < at[j]
            /\ \A i \in DOMAIN shown : shown[i] = reads[at[i]]
  BY <1>1, Picked
<1>4. PICK at \in [DOMAIN shown -> positions] :
            /\ \A i, j \in DOMAIN shown : i < j => at[i] < at[j]
            /\ \A i \in DOMAIN shown : shown[i] = reads[at[i]]
  BY <1>3
<1>5. \A i \in DOMAIN shown : at[i] \in positions /\ at[i] \in DOMAIN reads /\ shown[i] = reads[at[i]]
  BY <1>1, <1>4
<1>6. \A i \in DOMAIN shown : /\ shown[i] = <<shown[i][1], Nft(shown[i])>>
                              /\ shown[i][1] \in P /\ Nft(shown[i]) \in Displayed
  BY <1>2, <1>5
<1>7. \A k \in P, n \in Displayed : <<k, n>> \in ToSet(shown) <=> <<k, n>> \in ToSet(reads)
  <2>1. SUFFICES ASSUME NEW k \in P, NEW n \in Displayed
                 PROVE  <<k, n>> \in ToSet(shown) <=> <<k, n>> \in ToSet(reads)
    OBVIOUS
  <2>2. ASSUME <<k, n>> \in ToSet(shown)
        PROVE  <<k, n>> \in ToSet(reads)
    BY <1>1, <1>3, <2>2 DEF ToSet
  <2>3. ASSUME <<k, n>> \in ToSet(reads)
        PROVE  <<k, n>> \in ToSet(shown)
    <3>1. PICK i \in DOMAIN reads : reads[i] = <<k, n>>
      BY <2>3 DEF ToSet
    <3>2. Nft(reads[i]) = n
      BY <3>1 DEF Nft
    <3>3. i \in positions
      BY <1>2, <3>2
    <3>4. QED
      BY <1>3, <3>1, <3>3
  <2>4. QED
    BY <2>2, <2>3
<1>8. ASSUME HasDuplicates(shown)
      PROVE  HasDuplicates(reads)
  <2>1. PICK i \in DOMAIN shown, j \in DOMAIN shown : i # j /\ Nft(shown[i]) = Nft(shown[j])
    BY <1>8 DEF HasDuplicates
  <2>2. i < j \/ j < i
    <3>1. DOMAIN shown = 1 .. Len(shown) /\ Len(shown) \in Nat
      BY <1>3 DEF IsSeq
    <3>2. QED
      BY <2>1, <3>1
  <2>3. at[i] \in Nat /\ at[j] \in Nat
    <3>1. DOMAIN reads = 1 .. Len(reads) /\ Len(reads) \in Nat
      BY DEF IsSeq
    <3>2. QED
      BY <1>5, <3>1
  <2>4. at[i] < at[j] \/ at[j] < at[i]
    BY <1>4, <2>2
  <2>5. at[i] # at[j]
    BY <2>3, <2>4
  <2>6. QED
    BY <1>5, <2>1, <2>5 DEF HasDuplicates
<1>9. QED
  BY <1>3, <1>6, <1>7, <1>8 DEF shown

\* The reads of the kiosks are those that are not the wallet's.
LEMMA KioskReadsAre ==
    ASSUME NEW reads, reads \in Seq(({"wallet"} \cup ObKiosks) \X Nfts)
    PROVE  LET kept == KioskReads(reads)
           IN  /\ IsSeq(kept)
               /\ \A i \in DOMAIN kept : kept[i] \in ObKiosks \X Nfts
               /\ \A k \in ObKiosks, n \in Nfts : <<k, n>> \in ToSet(kept) <=> <<k, n>> \in ToSet(reads)
<1> DEFINE positions == {i \in DOMAIN reads : reads[i][1] # "wallet"}
           kept == KioskReads(reads)
<1>1. kept = ItemsAt(reads, positions) /\ positions \in SUBSET (DOMAIN reads)
  BY DEF KioskReads
<1>2. IsSeq(reads) /\ \A i \in DOMAIN reads : reads[i] \in ({"wallet"} \cup ObKiosks) \X Nfts
  BY SeqIsSeq
<1> HIDE DEF kept
<1>3. IsSeq(kept) /\ ToSet(kept) = {reads[i] : i \in positions}
  BY <1>1, <1>2, Picked
<1>4. \A r \in ToSet(kept) : r \in ObKiosks \X Nfts
  BY <1>2, <1>3
<1>5. \A i \in DOMAIN kept : kept[i] \in ObKiosks \X Nfts
  BY <1>4 DEF ToSet
<1>6. ASSUME NEW k \in ObKiosks, NEW n \in Nfts
      PROVE  <<k, n>> \in ToSet(kept) <=> <<k, n>> \in ToSet(reads)
  <2>1. k # "wallet" /\ <<k, n>>[1] = k
    BY ParametersAssumption
  <2>2. QED
    BY <1>3, <2>1 DEF ToSet
<1>7. QED
  BY <1>3, <1>5, <1>6 DEF kept

\* What the OriginByte reads list: each displayed NFT that was read in a kiosk of
\* theirs.
LEMMA ObKiosksListed ==
    ASSUME ReadsOk({"wallet"} \cup ObKiosks), ~HasDuplicates(KioskReads(task.read))
    PROVE  LET t == ListedFromObKiosks
           IN  /\ IsSeq(t) /\ Distinct(t)
               /\ \A i \in DOMAIN t : \E n \in Displayed : t[i] = InObKiosk(n)
               /\ \A n \in Lasting \cap Displayed : InObKiosk(n) \in ToSet(t) <=> Found[n] \in ObKiosks
<1> DEFINE reads == task.read
           kept == KioskReads(reads)
           shown == Shown(kept)
           t == ListedFromObKiosks
<1>1. /\ reads \in Seq(({"wallet"} \cup ObKiosks) \X Nfts)
      /\ \A n \in Lasting, k \in {"wallet"} \cup ObKiosks :
            <<k, n>> \in ToSet(reads) <=> Found[n] = k
  BY DEF ReadsOk, ReadsAre
<1>2. t = [i \in DOMAIN shown |-> Listed(Nft(shown[i]), "kiosk-nft", "ob")]
  BY DEF ListedFromObKiosks
<1>3. ~HasDuplicates(kept)
  OBVIOUS
<1> HIDE DEF reads, t
<1>4. /\ IsSeq(kept)
      /\ \A i \in DOMAIN kept : kept[i] \in ObKiosks \X Nfts
      /\ \A k \in ObKiosks, n \in Nfts : <<k, n>> \in ToSet(kept) <=> <<k, n>> \in ToSet(reads)
  BY <1>1, KioskReadsAre
<1> HIDE DEF kept
<1>5. /\ IsSeq(shown)
      /\ \A i \in DOMAIN shown : /\ shown[i] = <<shown[i][1], Nft(shown[i])>>
                                 /\ shown[i][1] \in ObKiosks /\ Nft(shown[i]) \in Displayed
      /\ \A k \in ObKiosks, n \in Displayed : <<k, n>> \in ToSet(shown) <=> <<k, n>> \in ToSet(kept)
      /\ HasDuplicates(shown) => HasDuplicates(kept)
  BY <1>4, ShownReads
<1> HIDE DEF shown
<1>6. \A i, j \in DOMAIN shown : i # j => Nft(shown[i]) # Nft(shown[j])
  BY <1>3, <1>5 DEF HasDuplicates
<1>7. DOMAIN t = DOMAIN shown /\ \A i \in DOMAIN shown : t[i] = InObKiosk(Nft(shown[i]))
  BY <1>2 DEF InObKiosk
<1>8. IsSeq(t)
  <2>1. DOMAIN shown = 1 .. Len(shown) /\ Len(shown) \in Nat
    BY <1>5 DEF IsSeq
  <2>2. Len(t) = Len(shown)
    BY <1>7, <2>1
  <2>3. t = [i \in 1 .. Len(t) |-> t[i]]
    BY <1>2, <2>1, <2>2
  <2>4. QED
    BY <2>1, <2>2, <2>3 DEF IsSeq
<1>9. Distinct(t)
  <2>1. \A i \in DOMAIN shown : t[i].nft = Nft(shown[i])
    BY <1>5, <1>7, EntryOfWallet
  <2>2. QED
    BY <1>6, <1>7, <2>1 DEF Distinct
<1>10. \A i \in DOMAIN t : \E n \in Displayed : t[i] = InObKiosk(n)
  BY <1>5, <1>7
<1>11. ASSUME NEW n \in Lasting \cap Displayed
       PROVE  InObKiosk(n) \in ToSet(t) <=> Found[n] \in ObKiosks
  <2>1. ASSUME InObKiosk(n) \in ToSet(t)
        PROVE  Found[n] \in ObKiosks
    <3>1. PICK i \in DOMAIN shown : t[i] = InObKiosk(n)
      BY <1>7, <2>1 DEF ToSet
    <3>2. Nft(shown[i]) = n
      <4>1. t[i] = InObKiosk(Nft(shown[i])) /\ Nft(shown[i]) \in Displayed
        BY <1>5, <1>7
      <4>2. InObKiosk(Nft(shown[i])).nft = Nft(shown[i]) /\ InObKiosk(n).nft = n
        BY <4>1, EntryOfWallet
      <4>3. QED
        BY <3>1, <4>1, <4>2
    <3>3. PICK k \in ObKiosks : shown[i] = <<k, n>>
      BY <1>5, <3>2
    <3>4. <<k, n>> \in ToSet(shown)
      BY <3>3 DEF ToSet
    <3>5. n \in Nfts
      BY DEF Lasting
    <3>6. <<k, n>> \in ToSet(reads)
      BY <1>4, <1>5, <3>4, <3>5
    <3>7. QED
      BY <1>1, <3>6
  <2>2. ASSUME Found[n] \in ObKiosks
        PROVE  InObKiosk(n) \in ToSet(t)
    <3>1. n \in Nfts /\ <<Found[n], n>> \in ToSet(reads)
      BY <1>1, <2>2 DEF Lasting
    <3>2. <<Found[n], n>> \in ToSet(shown)
      BY <1>4, <1>5, <2>2, <3>1
    <3>3. PICK i \in DOMAIN shown : shown[i] = <<Found[n], n>>
      BY <3>2 DEF ToSet
    <3>4. t[i] = InObKiosk(n) /\ i \in DOMAIN t
      BY <1>7, <3>3 DEF Nft
    <3>5. QED
      BY <3>4 DEF ToSet
  <2>3. QED
    BY <2>1, <2>2
<1>12. QED
  BY <1>8, <1>9, <1>10, <1>11 DEF t

\* The reads of the wallet are its NFTs that are displayed.
LEMMA WalletReadsAre ==
    ASSUME ReadsOk({"wallet"} \cup ObKiosks)
    PROVE  {Nft(r) : r \in ToSet(WalletReads(task.read))} = WalletNfts
<1> DEFINE reads == task.read
           positions == {i \in DOMAIN reads : reads[i][1] = "wallet"}
           kept == ItemsAt(reads, positions)
           shown == WalletReads(reads)
<1>1. reads \in Seq(({"wallet"} \cup ObKiosks) \X Nfts)
  BY DEF ReadsOk, ReadsAre
<1>2. shown = Shown(kept)
  BY DEF WalletReads
<1>3. WalletNfts = {n \in Displayed : <<"wallet", n>> \in ToSet(reads)}
  BY DEF WalletNfts
<1> HIDE DEF reads, kept, shown
<1>4. IsSeq(reads) /\ \A i \in DOMAIN reads : reads[i] \in ({"wallet"} \cup ObKiosks) \X Nfts
  BY <1>1, SeqIsSeq
<1>5. positions \in SUBSET (DOMAIN reads)
  OBVIOUS
<1>6. IsSeq(kept) /\ ToSet(kept) = {reads[i] : i \in positions}
  BY <1>4, <1>5, Picked DEF kept
<1>7. \A r \in ToSet(kept) : r \in {"wallet"} \X Nfts
  BY <1>4, <1>6
<1>8. \A i \in DOMAIN kept : kept[i] \in {"wallet"} \X Nfts
  BY <1>7 DEF ToSet
<1>9. \A n \in Displayed : <<"wallet", n>> \in ToSet(kept) <=> <<"wallet", n>> \in ToSet(reads)
  <2>1. SUFFICES ASSUME NEW n \in Displayed
                 PROVE  <<"wallet", n>> \in ToSet(kept) <=> <<"wallet", n>> \in ToSet(reads)
    OBVIOUS
  <2>2. <<"wallet", n>>[1] = "wallet"
    OBVIOUS
  <2>3. QED
    BY <1>6, <2>2 DEF ToSet
<1>10. /\ \A i \in DOMAIN shown : /\ shown[i] = <<shown[i][1], Nft(shown[i])>>
                                  /\ shown[i][1] \in {"wallet"} /\ Nft(shown[i]) \in Displayed
       /\ \A k \in {"wallet"}, n \in Displayed : <<k, n>> \in ToSet(shown) <=> <<k, n>> \in ToSet(kept)
  <2>1. \A i \in DOMAIN Shown(kept) :
          /\ Shown(kept)[i] = <<Shown(kept)[i][1], Nft(Shown(kept)[i])>>
          /\ Shown(kept)[i][1] \in {"wallet"} /\ Nft(Shown(kept)[i]) \in Displayed
    BY <1>6, <1>8, ShownReads
  <2>2. \A k \in {"wallet"}, n \in Displayed : <<k, n>> \in ToSet(Shown(kept)) <=> <<k, n>> \in ToSet(kept)
    BY <1>6, <1>8, ShownReads
  <2>3. QED
    BY <1>2, <2>1, <2>2
<1>11. ASSUME NEW r \in ToSet(shown)
       PROVE  Nft(r) \in WalletNfts
  <2>1. r = <<"wallet", Nft(r)>> /\ Nft(r) \in Displayed
    BY <1>10 DEF ToSet
  <2>2. QED
    BY <1>3, <1>9, <1>10, <2>1
<1>12. ASSUME NEW n \in WalletNfts
       PROVE  \E r \in ToSet(shown) : n = Nft(r)
  <2>1. <<"wallet", n>> \in ToSet(shown)
    BY <1>3, <1>9, <1>10
  <2>2. Nft(<<"wallet", n>>) = n
    BY DEF Nft
  <2>3. QED
    BY <2>1, <2>2
<1>13. {Nft(r) : r \in ToSet(shown)} = WalletNfts
  BY <1>11, <1>12
<1>14. QED
  BY <1>13 DEF shown, reads

\* On to the Sui kiosks, with all that the wallet and the OriginByte kiosks hold.
LEMMA ToSuiKiosksKeeps ==
    ASSUME IInv, task.op = "getNfts",
           ReadsOk({"wallet"} \cup ObKiosks), ~HasDuplicates(KioskReads(task.read)),
           NEW listed, listed \in Seq(Entries), Distinct(listed),
           ToSet(listed) = {InWallet(n) : n \in WalletNfts},
           ToSuiKiosks(listed), UNCHANGED <<spared, chain>>
    PROVE  IInv'
<1> DEFINE t == ListedFromObKiosks
<1>1. /\ result' = listed \o t
      /\ task' = [task EXCEPT !.phase = "suiCaps", !.pending = {}, !.read = << >>]
      /\ UNCHANGED <<spared, used, coins, place, history, stakes, changed, changes>>
  BY DEF ToSuiKiosks, chain
<1>2. /\ TaskOk' /\ task'.op = "getNfts" /\ task'.phase = "suiCaps"
      /\ task'.read = << >> /\ task'.cursor = task.cursor /\ task'.next = task.next
  BY <1>1 DEF IInv, TaskOk, Phases
<1>3. ChainOk'
  BY <1>1 DEF IInv, ChainOk, InTimeOrder
<1>4. /\ Found' = Found /\ Lasting' = Lasting
      /\ \A n \in (Nfts \cap spared') \ changed' : place'[n] \in ObKiosks \cup SuiKiosks
  <2>1. Found' = Found
    BY <1>1, <1>2, FoundKept
  <2>2. QED
    BY <1>1, <2>1 DEF IInv, NftsOk, Lasting
<1>5. /\ IsSeq(t) /\ Distinct(t)
      /\ \A i \in DOMAIN t : \E n \in Displayed : t[i] = InObKiosk(n)
      /\ \A n \in Lasting \cap Displayed : InObKiosk(n) \in ToSet(t) <=> Found[n] \in ObKiosks
  BY ObKiosksListed
<1>6. /\ WalletNfts \subseteq Displayed
      /\ \A n \in Lasting \cap Displayed : n \in WalletNfts <=> Found[n] = "wallet"
  BY DEF ReadsOk, ReadsAre, WalletNfts
<1> HIDE DEF t
<1>7. IsSeq(listed) /\ \A i \in DOMAIN listed : listed[i] \in Entries
  BY SeqIsSeq
<1>8. \A i \in DOMAIN listed : \E n \in Displayed : listed[i] = InWallet(n)
  BY <1>6 DEF ToSet
<1>9. \A i \in DOMAIN listed : Source(listed[i]) = 1
  BY <1>8, EntryOfWallet
<1>10. \A i \in DOMAIN t : Source(t[i]) = 2 /\ t[i] \in Entries
  BY <1>5, EntryOfWallet
<1> DEFINE w == listed \o t
<1>11. Distinct(w)
  <2>1. \A i \in DOMAIN listed, k \in DOMAIN t : Source(listed[i]) # Source(t[k])
    BY <1>9, <1>10
  <2>2. QED
    BY <1>5, <1>7, <2>1, DistinctJoined
<1>12. /\ IsSeq(w) /\ Len(w) = Len(listed) + Len(t)
       /\ \A i \in 1 .. Len(listed) : w[i] = listed[i]
       /\ \A i \in 1 .. Len(t) : w[Len(listed) + i] = t[i]
       /\ \A i \in 1 .. Len(w) :
            i \in 1 .. Len(listed) \/ \E k \in 1 .. Len(t) : i = Len(listed) + k
       /\ ToSet(w) = ToSet(listed) \cup ToSet(t)
  BY <1>5, <1>7, Joined, Zenon
<1>13. result' = w
  BY <1>1
<1> HIDE DEF w
<1>14. \A e \in ToSet(w) : e \in Entries /\ Source(e) # 3
  BY <1>7, <1>9, <1>10, <1>12 DEF ToSet
<1>15. (\A i \in DOMAIN w : w[i] \in Entries /\ Source(w[i]) # 3) /\ w \in Seq(Entries)
  <2>1. \A i \in DOMAIN w : w[i] \in ToSet(w)
    BY DEF ToSet
  <2>2. \A i \in DOMAIN w : w[i] \in Entries /\ Source(w[i]) # 3
    BY <1>14, <2>1
  <2>3. QED
    BY <1>12, <2>2, IsSeqOf
<1>16. ASSUME NEW n \in Lasting \cap Displayed
       PROVE  /\ InWallet(n) \in ToSet(w) <=> Found[n] = "wallet"
              /\ InObKiosk(n) \in ToSet(w) <=> Found[n] \in ObKiosks
  <2>1. InWallet(n) \notin ToSet(t) /\ InObKiosk(n) \notin ToSet(listed)
    BY <1>9, <1>10, EntryOfWallet DEF ToSet
  <2>2. InWallet(n) \in ToSet(listed) <=> n \in WalletNfts
    <3>1. ASSUME NEW m \in WalletNfts, InWallet(n) = InWallet(m)
          PROVE  n = m
      BY <1>6, <3>1, EntryOfWallet
    <3>2. QED
      BY <3>1
  <2>3. QED
    BY <1>5, <1>6, <1>12, <2>1, <2>2
<1>17. NftsOk'
  BY <1>1, <1>2, <1>4, <1>11, <1>13, <1>15, <1>16 DEF NftsOk
<1>18. QED
  BY <1>2, <1>3, <1>17, NftsSuffices

LEMMA ObContentsAnsweredKeeps ==
    ASSUME IInv, ObContentsAnswered
    PROVE  IInv'
<1>1. /\ task.op = "getNfts" /\ task.phase = "obKiosks" /\ task.pending = {}
      /\ UNCHANGED <<spared, chain>>
      /\ UNCHANGED <<used, coins, place, history, stakes, changed, changes>>
  BY DEF ObContentsAnswered, At, chain
<1>2. result = << >> /\ ReadsOk({"wallet"} \cup ObKiosks)
  <2>1. {"wallet"} \cup (ObKiosks \ task.pending) = {"wallet"} \cup ObKiosks
    BY <1>1
  <2>2. QED
    BY <1>1, <2>1 DEF IInv, NftsOk
<1>3. /\ << >> \in Seq(Entries) /\ Distinct(<< >>) /\ ToSet(<< >>) = {}
      /\ \A n \in (Nfts \cap spared') \ changed' : place'[n] \in ObKiosks \cup SuiKiosks
  BY <1>1 DEF IInv, NftsOk, Distinct, ToSet
<1>4. ChainOk'
  BY <1>1 DEF IInv, ChainOk, InTimeOrder
<1>5. CASE HasDuplicates(KioskReads(task.read))
  <2>1. task' = [task EXCEPT !.phase = "threw", !.pending = {}] /\ result' = << >>
    BY <1>2, <1>5 DEF ObContentsAnswered, Throw
  <2>2. TaskOk' /\ task'.op = "getNfts" /\ task'.phase = "threw"
    BY <1>1, <2>1 DEF IInv, TaskOk, Phases
  <2>3. NftsOk'
    BY <1>3, <2>1, <2>2 DEF NftsOk
  <2>4. QED
    BY <1>4, <2>2, <2>3, NftsSuffices
<1>6. CASE ~HasDuplicates(KioskReads(task.read)) /\ WalletReads(task.read) = << >>
  <2>1. ToSuiKiosks(<< >>)
    BY <1>6 DEF ObContentsAnswered
  <2>2. WalletNfts = {}
    BY <1>2, <1>3, <1>6, WalletReadsAre
  <2>3. ToSet(<< >>) = {InWallet(n) : n \in WalletNfts}
    BY <1>3, <2>2
  <2>4. QED
    BY <1>1, <1>2, <1>3, <1>6, <2>1, <2>3, ToSuiKiosksKeeps
<1>7. CASE ~HasDuplicates(KioskReads(task.read)) /\ WalletReads(task.read) # << >>
  <2>1. /\ task' = [task EXCEPT !.phase = "nftMetadata", !.pending = WalletNfts]
        /\ result' = << >>
    <3>1. {Nft(r) : r \in ToSet(WalletReads(task.read))} = WalletNfts
      BY <1>2, WalletReadsAre
    <3>2. QED
      BY <1>2, <1>7, <3>1 DEF ObContentsAnswered
  <2>2. /\ TaskOk' /\ task'.op = "getNfts" /\ task'.phase = "nftMetadata"
        /\ task'.pending = WalletNfts /\ task'.read = task.read
        /\ task'.cursor = task.cursor /\ task'.next = task.next
    BY <1>1, <2>1 DEF IInv, TaskOk, Phases
  <2>3. WalletNfts' = WalletNfts
    BY <2>2 DEF WalletNfts
  <2>4. (ReadsOk({"wallet"} \cup ObKiosks))'
    BY <1>1, <1>2, <2>2 DEF ReadsOk, Lasting, Found, OnPage
  <2>5. ~HasDuplicates(KioskReads(task'.read))
    BY <1>7, <2>2
  <2>6. ToSet(result') = {InWallet(n) : n \in WalletNfts' \ task'.pending}
    BY <1>3, <2>1, <2>2, <2>3
  <2>7. NftsOk'
    BY <1>3, <2>1, <2>2, <2>3, <2>4, <2>5, <2>6 DEF NftsOk
  <2>8. QED
    BY <1>4, <2>2, <2>7, NftsSuffices
<1>8. QED
  BY <1>5, <1>6, <1>7

LEMMA NftMetadataAnsweredKeeps ==
    ASSUME IInv, NEW n \in Nfts, NftMetadataAnswered(n)
    PROVE  IInv'
<1> DEFINE one == <<InWallet(n)>>
           listed == result \o one
<1>1. /\ task.op = "getNfts" /\ task.phase = "nftMetadata" /\ n \in task.pending
      /\ IF task.pending = {n}
         THEN ToSuiKiosks(listed)
         ELSE result' = listed /\ task' = [task EXCEPT !.pending = @ \ {n}]
      /\ UNCHANGED <<spared, chain>>
      /\ UNCHANGED <<used, coins, place, history, stakes, changed, changes>>
  BY DEF NftMetadataAnswered, At, WithMetadata, InWallet, chain
<1>2. /\ ReadsOk({"wallet"} \cup ObKiosks)
      /\ ~HasDuplicates(KioskReads(task.read))
      /\ task.pending \subseteq WalletNfts
      /\ ToSet(result) = {InWallet(m) : m \in WalletNfts \ task.pending}
      /\ result \in Seq(Entries) /\ Distinct(result)
      /\ \A m \in (Nfts \cap spared') \ changed' : place'[m] \in ObKiosks \cup SuiKiosks
  BY <1>1 DEF IInv, NftsOk
<1>3. ChainOk'
  BY <1>1 DEF IInv, ChainOk, InTimeOrder
<1>4. WalletNfts \subseteq Displayed /\ n \in Displayed
  BY <1>1, <1>2 DEF WalletNfts
<1>5. /\ IsSeq(one) /\ ToSet(one) = {InWallet(n)} /\ Distinct(one)
      /\ \A k \in DOMAIN one : one[k] = InWallet(n)
  BY DEF IsSeq, ToSet, Distinct
<1>6. IsSeq(result) /\ \A i \in DOMAIN result : result[i] \in Entries
  BY <1>2, SeqIsSeq
<1>7. listed \in Seq(Entries)
  BY <1>2, <1>4, EntryOfWallet
<1> HIDE DEF one
<1>8. ToSet(listed) = ToSet(result) \cup {InWallet(n)}
  BY <1>5, <1>6, Joined
<1>9. Distinct(listed)
  <2>1. ASSUME NEW i \in DOMAIN result PROVE result[i].nft # n
    <3>1. result[i] \in ToSet(result)
      BY DEF ToSet
    <3>2. PICK m \in WalletNfts \ task.pending : result[i] = InWallet(m)
      BY <1>2, <3>1
    <3>3. m # n /\ InWallet(m).nft = m
      BY <1>1, <1>4, EntryOfWallet
    <3>4. QED
      BY <3>2, <3>3
  <2>2. \A i \in DOMAIN result, k \in DOMAIN one : result[i].nft # one[k].nft
    BY <1>4, <1>5, <2>1, EntryOfWallet
  <2>3. QED
    BY <1>2, <1>5, <1>6, <2>2, DistinctJoined
<1> HIDE DEF listed
<1>10. ToSet(listed) = {InWallet(m) : m \in (WalletNfts \ task.pending) \cup {n}}
  BY <1>2, <1>8
<1>11. CASE task.pending = {n}
  <2>1. ToSuiKiosks(listed)
    BY <1>1, <1>11
  <2>2. (WalletNfts \ task.pending) \cup {n} = WalletNfts
    BY <1>2, <1>11
  <2>3. ToSet(listed) = {InWallet(m) : m \in WalletNfts}
    BY <1>10, <2>2
  <2>4. QED
    BY <1>1, <1>2, <1>7, <1>9, <2>1, <2>3, ToSuiKiosksKeeps
<1>12. CASE task.pending # {n}
  <2>1. result' = listed /\ task' = [task EXCEPT !.pending = @ \ {n}]
    BY <1>1, <1>12
  <2>2. /\ TaskOk' /\ task'.op = "getNfts" /\ task'.phase = "nftMetadata"
        /\ task'.pending = task.pending \ {n} /\ task'.read = task.read
        /\ task'.cursor = task.cursor /\ task'.next = task.next
    BY <1>1, <2>1 DEF IInv, TaskOk, Phases
  <2>3. WalletNfts' = WalletNfts
    BY <2>2 DEF WalletNfts
  <2>4. (ReadsOk({"wallet"} \cup ObKiosks))'
    BY <1>1, <1>2, <2>2 DEF ReadsOk, Lasting, Found, OnPage
  <2>5. (WalletNfts \ task.pending) \cup {n} = WalletNfts' \ task'.pending
    BY <1>1, <1>2, <2>2, <2>3
  <2>6. ToSet(result') = {InWallet(m) : m \in WalletNfts' \ task'.pending}
    BY <1>10, <2>1, <2>5
  <2>7. NftsOk'
    BY <1>2, <1>7, <1>9, <2>1, <2>2, <2>3, <2>4, <2>6 DEF NftsOk
  <2>8. QED
    BY <1>3, <2>2, <2>7, NftsSuffices
<1>13. QED
  BY <1>11, <1>12

LEMMA SuiContentsAnsweredKeeps ==
    ASSUME IInv, SuiContentsAnswered
    PROVE  IInv'
<1> DEFINE reads == task.read
           shown == Shown(reads)
           t == ListedFromSuiKiosks
           w == result \o t
<1>1. /\ task.op = "getNfts" /\ task.phase = "suiKiosks" /\ task.pending = {}
      /\ UNCHANGED <<spared, used, coins, place, history, stakes, changed, changes>>
  BY DEF SuiContentsAnswered, At, chain
<1>2. /\ result \in Seq(Entries) /\ Distinct(result)
      /\ \A i \in DOMAIN result : Source(result[i]) # 3
      /\ \A n \in Lasting \cap Displayed :
            /\ InWallet(n) \in ToSet(result) <=> Found[n] = "wallet"
            /\ InObKiosk(n) \in ToSet(result) <=> Found[n] \in ObKiosks
      /\ \A n \in (Nfts \cap spared') \ changed' : place'[n] \in ObKiosks \cup SuiKiosks
  BY <1>1 DEF IInv, NftsOk
<1>3. /\ reads \in Seq(SuiKiosks \X Nfts)
      /\ \A n \in Lasting, k \in SuiKiosks : <<k, n>> \in ToSet(reads) <=> Found[n] = k
  <2>1. SuiKiosks \ task.pending = SuiKiosks
    BY <1>1
  <2>2. ReadsOk(SuiKiosks)
    BY <1>1, <2>1 DEF IInv, NftsOk
  <2>3. QED
    BY <2>2 DEF ReadsOk, ReadsAre
<1>4. ChainOk'
  BY <1>1 DEF IInv, ChainOk, InTimeOrder
<1>5. CASE HasDuplicates(reads)
  <2>1. task' = [task EXCEPT !.phase = "threw", !.pending = {}] /\ result' = result
    BY <1>5 DEF SuiContentsAnswered, Throw
  <2>2. TaskOk' /\ task'.op = "getNfts" /\ task'.phase = "threw"
    BY <1>1, <2>1 DEF IInv, TaskOk, Phases
  <2>3. NftsOk'
    BY <1>2, <2>1, <2>2 DEF NftsOk, Distinct
  <2>4. QED
    BY <1>4, <2>2, <2>3, NftsSuffices
<1>6. CASE ~HasDuplicates(reads)
  <2>1. task' = [task EXCEPT !.phase = "returned", !.pending = {}] /\ result' = w
    BY <1>6 DEF SuiContentsAnswered, Return
  <2>2. /\ TaskOk' /\ task'.op = "getNfts" /\ task'.phase = "returned"
        /\ task'.cursor = task.cursor /\ task'.next = task.next
    BY <1>1, <2>1 DEF IInv, TaskOk, Phases
  <2>3. t = [i \in DOMAIN shown |-> Listed(Nft(shown[i]), "kiosk-nft", KioskOf(shown, i))]
    BY DEF ListedFromSuiKiosks
  <2>4. Found' = Found /\ Lasting' = Lasting
    <3>1. Found' = Found
      BY <1>1, <2>2, FoundKept
    <3>2. QED
      BY <1>1, <3>1 DEF Lasting
  <2> HIDE DEF reads, t
  <2>5. IsSeq(reads) /\ \A i \in DOMAIN reads : reads[i] \in SuiKiosks \X Nfts
    BY <1>3, SeqIsSeq
  <2>6. /\ IsSeq(shown)
        /\ \A i \in DOMAIN shown : /\ shown[i] = <<shown[i][1], Nft(shown[i])>>
                                   /\ shown[i][1] \in SuiKiosks /\ Nft(shown[i]) \in Displayed
        /\ \A k \in SuiKiosks, n \in Displayed : <<k, n>> \in ToSet(shown) <=> <<k, n>> \in ToSet(reads)
        /\ HasDuplicates(shown) => HasDuplicates(reads)
    BY <2>5, ShownReads
  <2> HIDE DEF shown
  <2>7. /\ DOMAIN t = DOMAIN shown
        /\ \A i \in DOMAIN shown : t[i] = InSuiKiosk(Nft(shown[i]), shown[i][1])
    BY <2>3 DEF InSuiKiosk, KioskOf
  <2>8. IsSeq(t)
    <3>1. DOMAIN shown = 1 .. Len(shown) /\ Len(shown) \in Nat
      BY <2>6 DEF IsSeq
    <3>2. Len(t) = Len(shown)
      BY <2>7, <3>1
    <3>3. t = [i \in 1 .. Len(t) |-> t[i]]
      BY <2>3, <3>1, <3>2
    <3>4. QED
      BY <3>1, <3>2, <3>3 DEF IsSeq
  <2>9. \A i \in DOMAIN t : /\ t[i] \in Entries /\ Source(t[i]) = 3
                            /\ t[i].nft = Nft(shown[i]) /\ t[i].kiosk = shown[i][1]
    BY <2>6, <2>7, EntryOf
  <2>10. Distinct(t)
    <3>1. \A i, j \in DOMAIN shown : i # j => Nft(shown[i]) # Nft(shown[j])
      BY <1>6, <2>6 DEF HasDuplicates
    <3>2. QED
      BY <2>7, <2>9, <3>1 DEF Distinct
  <2>11. IsSeq(result) /\ \A i \in DOMAIN result : result[i] \in Entries
    BY <1>2, SeqIsSeq
  <2>12. Distinct(w)
    <3>1. \A i \in DOMAIN result, k \in DOMAIN t : Source(result[i]) # Source(t[k])
      BY <1>2, <2>9
    <3>2. QED
      BY <1>2, <2>8, <2>10, <2>11, <3>1, DistinctJoined
  <2>13. IsSeq(w) /\ ToSet(w) = ToSet(result) \cup ToSet(t)
    BY <2>8, <2>11, Joined
  <2> HIDE DEF w
  <2>14. w \in Seq(Entries)
    <3>1. \A e \in ToSet(w) : e \in Entries
      BY <2>9, <2>11, <2>13 DEF ToSet
    <3>2. \A i \in DOMAIN w : w[i] \in Entries
      BY <3>1 DEF ToSet
    <3>3. QED
      BY <2>13, <3>2, IsSeqOf
  <2>15. ASSUME NEW n \in Lasting \cap Displayed
         PROVE  /\ InWallet(n) \in ToSet(w) <=> Found[n] = "wallet"
                /\ InObKiosk(n) \in ToSet(w) <=> Found[n] \in ObKiosks
    <3>1. InWallet(n) \notin ToSet(t) /\ InObKiosk(n) \notin ToSet(t)
      BY <2>9, EntryOfWallet DEF ToSet
    <3>2. QED
      BY <1>2, <2>13, <3>1
  <2>16. ASSUME NEW n \in Lasting \cap Displayed, NEW k \in SuiKiosks
         PROVE  InSuiKiosk(n, k) \in ToSet(w) <=> Found[n] = k
    <3>1. InSuiKiosk(n, k) \notin ToSet(result)
      BY <1>2, EntryOf DEF ToSet
    <3>2. ASSUME InSuiKiosk(n, k) \in ToSet(t)
          PROVE  <<k, n>> \in ToSet(shown)
      <4>1. PICK i \in DOMAIN t : t[i] = InSuiKiosk(n, k)
        BY <3>2 DEF ToSet
      <4>2. Nft(shown[i]) = n /\ shown[i][1] = k
        BY <2>9, <4>1, EntryOf
      <4>3. shown[i] = <<k, n>> /\ i \in DOMAIN shown
        BY <2>6, <2>7, <4>2
      <4>4. QED
        BY <4>3 DEF ToSet
    <3>3. ASSUME <<k, n>> \in ToSet(shown)
          PROVE  InSuiKiosk(n, k) \in ToSet(t)
      <4>1. PICK i \in DOMAIN shown : shown[i] = <<k, n>>
        BY <3>3 DEF ToSet
      <4>2. t[i] = InSuiKiosk(n, k) /\ i \in DOMAIN t
        BY <2>7, <4>1 DEF Nft
      <4>3. QED
        BY <4>2 DEF ToSet
    <3>4. QED
      BY <1>3, <2>6, <2>13, <3>1, <3>2, <3>3
  <2>17. NftsOk'
    BY <1>2, <2>1, <2>2, <2>4, <2>12, <2>14, <2>15, <2>16 DEF NftsOk
  <2>18. QED
    BY <1>4, <2>2, <2>17, NftsSuffices
<1>7. QED
  BY <1>5, <1>6

\* An NFT moves, and what is said of those that stay is said of fewer.
LEMMA NftMovesKeeps ==
    ASSUME IInv, NEW n \in Nfts, NEW to \in Places, NftMoves(n, to)
    PROVE  IInv'
<1>1. /\ task.op = "getNfts" /\ task.phase # "returned"
      /\ changes' = changes + 1
      /\ place' = [place EXCEPT ![n] = to] /\ changed' = changed \cup {n}
      /\ UNCHANGED <<task, result, spared, used, coins, history, stakes>>
  BY DEF NftMoves, Change, Running
<1>2. TaskOk' /\ task'.op = "getNfts" /\ task'.phase = task.phase
  BY <1>1 DEF IInv, TaskOk
<1>3. place \in [Nfts -> Places] /\ changes \in Nat
  BY DEF IInv, ChainOk
<1>4. ChainOk'
  <2>1. place' \in [Nfts -> Places]
    BY <1>1, <1>3
  <2>2. changes' \in Nat
    BY <1>1, <1>3
  <2>3. QED
    BY <1>1, <2>1, <2>2 DEF IInv, ChainOk, InTimeOrder
<1>5. \A m \in Nfts \ changed' : m \notin changed /\ place'[m] = place[m]
  BY <1>1, <1>3
<1>6. Lasting' \subseteq Lasting /\ \A m \in Lasting' : Found'[m] = Found[m]
  <2>1. Lasting' \subseteq Lasting /\ \A m \in Lasting' : m \in Nfts \ changed'
    BY <1>1 DEF Lasting
  <2>2. \A m \in Nfts \ changed' : Found'[m] = Found[m]
    BY <1>1, <1>5 DEF Found, OnPage
  <2>3. QED
    BY <2>1, <2>2
<1>7. ASSUME NEW places, ReadsOk(places)
      PROVE  ReadsAre(task.read, places, Lasting', Found')
  <2> DEFINE fewer == Lasting'
             there == Found'
  <2>1. fewer \subseteq Lasting /\ \A m \in fewer : there[m] = Found[m]
    BY <1>6
  <2>2. ReadsAre(task.read, places, Lasting, Found)
    BY <1>7 DEF ReadsOk
  <2> HIDE DEF fewer, there
  <2>3. ReadsAre(task.read, places, fewer, there)
    BY <2>1, <2>2, FewerLast
  <2>4. QED
    BY <2>3 DEF fewer, there
<1>8. WalletNfts' = WalletNfts
  BY <1>1 DEF WalletNfts
<1>9. task.phase \in {"wallet", "obTokens", "obKiosks", "nftMetadata", "suiCaps", "suiKiosks", "threw"}
  BY <1>1 DEF IInv, NftsOk
<1>10. NftsOk'
  <2>1. /\ result' \in Seq(Entries) /\ Distinct(result')
        /\ task'.phase \in {"wallet", "obTokens", "obKiosks"} => result' = << >>
        /\ task'.phase = "suiCaps" => task'.read = << >>
        /\ task'.phase \in {"suiCaps", "suiKiosks"} =>
            \A i \in DOMAIN (result') : Source((result')[i]) # 3
    BY <1>1 DEF IInv, NftsOk, Distinct
  <2>2. task'.phase = "obTokens" => (ReadsOk({"wallet"}))'
    BY <1>1, <1>7 DEF IInv, NftsOk, ReadsOk
  <2>3. task'.phase = "obKiosks" =>
            task'.pending \subseteq ObKiosks /\ (ReadsOk({"wallet"} \cup (ObKiosks \ task.pending)))'
    BY <1>1, <1>7 DEF IInv, NftsOk, ReadsOk
  <2>4. task'.phase = "nftMetadata" =>
            /\ (ReadsOk({"wallet"} \cup ObKiosks))'
            /\ ~HasDuplicates(KioskReads(task'.read))
            /\ task'.pending \subseteq WalletNfts'
            /\ ToSet(result') = {InWallet(m) : m \in WalletNfts' \ task'.pending}
    BY <1>1, <1>7, <1>8 DEF IInv, NftsOk, ReadsOk
  <2>5. task'.phase = "suiKiosks" =>
            task'.pending \subseteq SuiKiosks /\ (ReadsOk(SuiKiosks \ task.pending))'
    BY <1>1, <1>7 DEF IInv, NftsOk, ReadsOk
  <2>6. task'.phase \in {"suiCaps", "suiKiosks"} =>
            \A m \in Lasting' \cap Displayed :
                /\ InWallet(m) \in ToSet(result') <=> Found'[m] = "wallet"
                /\ InObKiosk(m) \in ToSet(result') <=> Found'[m] \in ObKiosks
    BY <1>1, <1>6 DEF IInv, NftsOk
  <2>7. \A m \in (Nfts \cap spared') \ changed' : place'[m] \in ObKiosks \cup SuiKiosks
    BY <1>1, <1>5 DEF IInv, NftsOk
  <2>8. QED
    BY <1>1, <1>2, <1>9, <2>1, <2>2, <2>3, <2>4, <2>5, <2>6, <2>7 DEF NftsOk
<1>11. QED
  BY <1>2, <1>4, <1>10, NftsSuffices

-----------------------------------------------------------------------------
(* getNftsById *)

LEMMA NftsByIdSuffices ==
    ASSUME task'.op = "getNftsById", TaskOk', ChainOk', NftsByIdOk'
    PROVE  IInv'
BY DEF IInv, ImportOk, GetCoinsOk, CustomCoinsOk, NftsOk, ValidatorsOk, TransactionsOk

LEMMA StartNftsByIdKeeps ==
    ASSUME IInv, StartNftsById
    PROVE  IInv'
<1>1. PICK ids \in UNION {[1 .. n -> Nfts] : n \in 0 .. Cardinality(Nfts)} :
        /\ task = Idle
        /\ task' = [Idle EXCEPT !.op = "getNftsById", !.phase = "objects", !.read = ids]
  BY DEF StartNftsById
<1>2. UNCHANGED <<result, spared, used, coins, place, history, stakes, changed, changes>>
  BY DEF StartNftsById, chain
<1>3. result = << >> /\ spared = {}
  BY <1>1 DEF IInv, TaskOk, Idle
<1>4. ids \in Seq(Nfts)
  <2>1. Cardinality(Nfts) \in Nat
    BY FiniteAssumption, FS_CardinalityType
  <2>2. PICK n \in 0 .. Cardinality(Nfts) : ids \in [1 .. n -> Nfts]
    OBVIOUS
  <2>3. n \in Nat
    BY <2>1
  <2>4. QED
    BY <2>2, <2>3
<1>5. /\ TaskOk' /\ task'.op = "getNftsById" /\ task'.phase = "objects"
      /\ task'.read = ids /\ task'.gathered = {}
  BY <1>1 DEF TaskOk, Phases, Idle
<1>6. ChainOk'
  BY <1>2 DEF IInv, ChainOk, InTimeOrder
<1>7. NftsByIdOk'
  BY <1>2, <1>3, <1>4, <1>5 DEF NftsByIdOk
<1>8. QED
  BY <1>5, <1>6, <1>7, NftsByIdSuffices

\* The ids that are NFTs of the kind, as a sequence.
LEMMA ParsedIds ==
    ASSUME NEW ids, ids \in Seq(Nfts)
    PROVE  IsSeq(Parsed(ids))
<1> DEFINE positions == {i \in DOMAIN ids : ids[i] \in Recognised}
<1>1. IsSeq(ids) /\ positions \in SUBSET (DOMAIN ids)
  BY SeqIsSeq
<1>2. Parsed(ids) = ItemsAt(ids, positions)
  BY DEF Parsed
<1> HIDE DEF positions
<1>3. IsSeq(ItemsAt(ids, positions))
  BY <1>1, Picked
<1>4. QED
  BY <1>2, <1>3

LEMMA ParsedNothing == Parsed(<< >>) = << >>
<1> DEFINE positions == {i \in DOMAIN << >> : << >>[i] \in Recognised}
           item(k) == << >>[Nth(positions, k)]
           t == ItemsAt(<< >>, positions)
<1>1. positions = {}
  OBVIOUS
<1>2. t = [k \in 1 .. Cardinality(positions) |-> item(k)]
  BY DEF ItemsAt
<1>3. Cardinality(positions) = 0
  BY <1>1, FS_EmptySet
<1>4. t = Parsed(<< >>)
  BY DEF Parsed
<1> HIDE DEF positions, item, t
<1>5. t = [k \in 1 .. 0 |-> item(k)]
  BY <1>2, <1>3
<1>6. [k \in 1 .. 0 |-> item(k)] = << >>
  OBVIOUS
<1>7. QED
  BY <1>4, <1>5, <1>6

LEMMA ObjectsAnsweredKeeps ==
    ASSUME IInv, ObjectsAnswered
    PROVE  IInv'
<1>1. /\ task.op = "getNftsById" /\ task.phase = "objects"
      /\ UNCHANGED <<result, spared, used, coins, place, history, stakes, changed, changes>>
  BY DEF ObjectsAnswered, At, chain
<1>2. task.read \in Seq(Nfts) /\ result = << >> /\ spared = {} /\ task.gathered = {}
  BY <1>1 DEF IInv, NftsByIdOk
<1>3. ChainOk'
  BY <1>1 DEF IInv, ChainOk, InTimeOrder
<1>4. CASE task.read # << >> /\ ~IsInjective(task.read)
  <2>1. task' = [task EXCEPT !.phase = "threw", !.pending = {}]
    BY <1>4 DEF ObjectsAnswered, Throw
  <2>2. TaskOk' /\ task'.op = "getNftsById" /\ task'.phase = "threw" /\ task'.read = task.read
    BY <1>1, <2>1 DEF IInv, TaskOk, Phases
  <2>3. NftsByIdOk'
    BY <1>2, <2>2 DEF NftsByIdOk
  <2>4. QED
    BY <1>3, <2>2, <2>3, NftsByIdSuffices
<1>5. CASE /\ ~ (task.read # << >> /\ ~IsInjective(task.read))
           /\ task.read = << >> \/ (IsInjective(task.read) /\ Parsed(task.read) = << >>)
  <2>1. task' = [task EXCEPT !.phase = "returned", !.pending = {}]
    BY <1>5 DEF ObjectsAnswered, Return
  <2>2. TaskOk' /\ task'.op = "getNftsById" /\ task'.phase = "returned" /\ task'.read = task.read
    BY <1>1, <2>1 DEF IInv, TaskOk, Phases
  <2>3. Parsed(task'.read) = << >>
    BY <1>5, <2>2, ParsedNothing
  <2>4. result' = << >> /\ DOMAIN (result') = {}
    BY <1>1, <1>2
  <2>5. [i \in DOMAIN (result') |-> (result')[i].nft] = << >>
    BY <2>4
  <2>6. NftsByIdOk'
    BY <1>2, <2>2, <2>3, <2>4, <2>5 DEF NftsByIdOk, NftsById
  <2>7. QED
    BY <1>3, <2>2, <2>6, NftsByIdSuffices
<1>6. CASE /\ ~ (task.read # << >> /\ ~IsInjective(task.read))
           /\ ~ (task.read = << >> \/ (IsInjective(task.read) /\ Parsed(task.read) = << >>))
  <2>1. task' = [task EXCEPT !.phase = "bags", !.pending = ToSet(Parsed(task.read))]
    BY <1>6 DEF ObjectsAnswered
  <2>2. /\ TaskOk' /\ task'.op = "getNftsById" /\ task'.phase = "bags"
        /\ task'.read = task.read /\ task'.gathered = {} /\ task'.pending = ToSet(Parsed(task.read))
    BY <1>1, <1>2, <2>1 DEF IInv, TaskOk, Phases
  <2>3. \A n : FieldsOf(n, {}) = {}
    BY DEF FieldsOf
  <2>4. NftsByIdOk'
    BY <1>1, <1>2, <2>2, <2>3 DEF NftsByIdOk
  <2>5. QED
    BY <1>3, <2>2, <2>4, NftsByIdSuffices
<1>7. QED
  BY <1>4, <1>5, <1>6

\* A bag's page adds the fields of its own NFT and no other's.
LEMMA BagAnsweredKeeps ==
    ASSUME IInv, NEW n \in Nfts, BagAnswered(n)
    PROVE  IInv'
<1> DEFINE nfts == Parsed(task.read)
<1>1. /\ task.op = "getNftsById" /\ task.phase = "bags" /\ n \in task.pending
      /\ UNCHANGED <<used, coins, place, history, stakes, changed, changes>>
  BY DEF BagAnswered, At, chain
<1>2. PICK page \in OnePage(Bag(n)) :
        /\ spared' = spared \cup (Bag(n) \ page)
        /\ task' = [task EXCEPT !.gathered = task.gathered \cup page, !.pending = @ \ {n},
                                !.phase = IF task.pending = {n} THEN "returned" ELSE @]
        /\ result' = IF task.pending = {n}
                     THEN [i \in DOMAIN nfts |->
                            [nft |-> nfts[i], fields |-> FieldsOf(nfts[i], task.gathered \cup page)]]
                     ELSE result
  BY DEF BagAnswered
<1>3. ChainOk'
  BY <1>1 DEF IInv, ChainOk, InTimeOrder
<1>4. /\ task.read \in Seq(Nfts)
      /\ \A m \in task.pending : FieldsOf(m, task.gathered) = {} /\ Bag(m) \cap spared = {}
      /\ \A m \in ToSet(nfts) \ task.pending : FieldsOf(m, task.gathered) = Bag(m) \ spared
  BY <1>1 DEF IInv, NftsByIdOk
<1>5. page \subseteq Bag(n) /\ \A m : \A field \in Bag(m) : field[1] = m
  BY DEF OnePage, Bag
<1>6. FieldsOf(n, task.gathered \cup page) = Bag(n) \ spared'
  <2>1. FieldsOf(n, task.gathered \cup page) = FieldsOf(n, task.gathered) \cup page
    BY <1>5 DEF FieldsOf
  <2>2. Bag(n) \ spared' = page
    BY <1>1, <1>2, <1>4, <1>5
  <2>3. QED
    BY <1>1, <1>4, <2>1, <2>2
<1>7. ASSUME NEW m, m # n
      PROVE  /\ FieldsOf(m, task.gathered \cup page) = FieldsOf(m, task.gathered)
             /\ Bag(m) \cap spared' = Bag(m) \cap spared /\ Bag(m) \ spared' = Bag(m) \ spared
  <2>1. FieldsOf(m, page) = {}
    BY <1>5, <1>7 DEF FieldsOf
  <2>2. Bag(m) \cap Bag(n) = {}
    BY <1>5, <1>7
  <2>3. FieldsOf(m, task.gathered \cup page) = FieldsOf(m, task.gathered) \cup FieldsOf(m, page)
    BY DEF FieldsOf
  <2>4. QED
    BY <1>2, <2>1, <2>2, <2>3
<1> HIDE DEF nfts
<1>8. /\ task'.op = "getNftsById" /\ task'.read = task.read /\ task'.gathered = task.gathered \cup page
      /\ task'.pending = task.pending \ {n}
      /\ task'.phase = IF task.pending = {n} THEN "returned" ELSE "bags"
      /\ TaskOk'
  BY <1>1, <1>2 DEF IInv, TaskOk, Phases
<1>9. \A m \in ToSet(nfts) \ task'.pending : FieldsOf(m, task'.gathered) = Bag(m) \ spared'
  BY <1>4, <1>6, <1>7, <1>8
<1>10. \A m \in task'.pending : FieldsOf(m, task'.gathered) = {} /\ Bag(m) \cap spared' = {}
  BY <1>4, <1>7, <1>8
<1>11. CASE task.pending # {n}
  <2>1. task'.phase = "bags"
    BY <1>8, <1>11
  <2>2. NftsByIdOk'
    BY <1>4, <1>8, <1>9, <1>10, <2>1 DEF NftsByIdOk, nfts
  <2>3. QED
    BY <1>3, <1>8, <2>2, NftsByIdSuffices
<1>12. CASE task.pending = {n}
  <2>1. task'.phase = "returned" /\ task'.pending = {}
    BY <1>8, <1>12
  <2>2. IsSeq(nfts)
    BY <1>4, ParsedIds DEF nfts
  <2>3. /\ DOMAIN (result') = DOMAIN nfts
        /\ \A i \in DOMAIN nfts : /\ (result')[i].nft = nfts[i]
                                  /\ (result')[i].fields = FieldsOf(nfts[i], task'.gathered)
    BY <1>2, <1>8, <1>12
  <2>4. [i \in DOMAIN (result') |-> (result')[i].nft] = nfts
    <3>1. nfts = [i \in DOMAIN nfts |-> nfts[i]]
      <4>1. DOMAIN nfts = 1 .. Len(nfts)
        BY <2>2 DEF IsSeq
      <4>2. QED
        BY <2>2, <4>1 DEF IsSeq
    <3>2. [i \in DOMAIN (result') |-> (result')[i].nft] = [i \in DOMAIN nfts |-> nfts[i]]
      BY <2>3
    <3>3. QED
      BY <3>1, <3>2
  <2>5. \A i \in DOMAIN (result') : (result')[i].fields = Bag((result')[i].nft) \ spared'
    <3>1. \A i \in DOMAIN nfts : nfts[i] \in ToSet(nfts) \ task'.pending
      BY <2>1 DEF ToSet
    <3>2. QED
      BY <1>9, <2>3, <3>1
  <2>6. NftsById'
    BY <1>8, <2>4, <2>5 DEF NftsById, nfts
  <2>7. NftsByIdOk'
    BY <1>4, <1>8, <2>1, <2>6 DEF NftsByIdOk
  <2>8. QED
    BY <1>3, <1>8, <2>7, NftsByIdSuffices
<1>13. QED
  BY <1>11, <1>12

-----------------------------------------------------------------------------
(* getValidatorsList *)

LEMMA ValidatorsSuffices ==
    ASSUME task'.op = "getValidatorsList", TaskOk', ChainOk', ValidatorsOk'
    PROVE  IInv'
BY DEF IInv, ImportOk, GetCoinsOk, CustomCoinsOk, NftsOk, NftsByIdOk, TransactionsOk

\* Sorting by share keeps each of the reads, once.
LEMMA ByShareLists ==
    ASSUME NEW reads, reads \in Seq(Nat \X Validators)
    PROVE  LET sorted == ByShare(reads)
           IN  \E at \in [DOMAIN sorted -> DOMAIN reads] :
                    /\ \A i, j \in DOMAIN sorted : at[i] = at[j] => i = j
                    /\ \A k \in DOMAIN reads : \E i \in DOMAIN sorted : at[i] = k
                    /\ \A i \in DOMAIN sorted : sorted[i] = reads[at[i]]
<1> DEFINE S == DOMAIN reads
           R == LessShare(reads)
           order == SortedBy(R, S)
           n == Cardinality(S)
           ascending == [k \in DOMAIN order |-> reads[order[k]]]
           sorted == ByShare(reads)
<1>1. /\ DOMAIN reads = 1 .. Len(reads) /\ Len(reads) \in Nat
      /\ \A i \in DOMAIN reads : reads[i] \in Nat \X Validators
  BY SeqIsSeq
<1>2. \A i \in S : i \in Nat /\ reads[i][1] \in Nat
  BY <1>1
<1>3. IsFiniteSet(S)
  BY <1>1, FS_Interval
<1>4. \A i, j \in S : <<i, j>> \in R <=> (reads[i][1] < reads[j][1] \/ (reads[i][1] = reads[j][1] /\ i < j))
  BY DEF LessShare
<1>5. sorted = Reverse(ascending)
  BY DEF ByShare
<1> HIDE DEF S, R, sorted
<1>6. /\ \A x \in S : <<x, x>> \notin R
      /\ \A x, y, z \in S : <<x, y>> \in R /\ <<y, z>> \in R => <<x, z>> \in R
      /\ \A x, y \in S : x = y \/ <<x, y>> \in R \/ <<y, x>> \in R
  <2>1. \A x \in S : <<x, x>> \notin R
    BY <1>2, <1>4
  <2>2. ASSUME NEW x \in S, NEW y \in S, NEW z \in S, <<x, y>> \in R, <<y, z>> \in R
        PROVE  <<x, z>> \in R
    <3> DEFINE share(i) == reads[i][1]
    <3>1. /\ x \in Nat /\ y \in Nat /\ z \in Nat
          /\ share(x) \in Nat /\ share(y) \in Nat /\ share(z) \in Nat
      BY <1>2
    <3>2. /\ share(x) < share(y) \/ (share(x) = share(y) /\ x < y)
          /\ share(y) < share(z) \/ (share(y) = share(z) /\ y < z)
      BY <1>4, <2>2
    <3>3. (share(x) < share(z) \/ (share(x) = share(z) /\ x < z)) => <<x, z>> \in R
      BY <1>4
    <3> HIDE DEF share
    <3>4. QED
      BY <3>1, <3>2, <3>3
  <2>3. ASSUME NEW x \in S, NEW y \in S
        PROVE  x = y \/ <<x, y>> \in R \/ <<y, x>> \in R
    BY <1>2, <1>4
  <2>4. QED
    BY <2>1, <2>2, <2>3
<1>7. /\ n \in Nat /\ order \in [1 .. n -> S]
      /\ \A i, j \in 1 .. n : i < j => <<order[i], order[j]>> \in R
      /\ \A x \in S : \E i \in 1 .. n : order[i] = x
  BY <1>3, <1>6, SortedByLists
<1> HIDE DEF order, n
<1>8. /\ Len(ascending) = n /\ DOMAIN ascending = 1 .. n
      /\ \A k \in 1 .. n : ascending[k] = reads[order[k]]
  BY <1>7
<1> HIDE DEF ascending
<1>9. DOMAIN sorted = 1 .. n /\ \A i \in 1 .. n : sorted[i] = ascending[(n - i) + 1]
  BY <1>5, <1>8 DEF Reverse
<1> DEFINE at == [i \in 1 .. n |-> order[(n - i) + 1]]
<1>10. \A i \in 1 .. n : /\ (n - i) + 1 \in 1 .. n /\ at[i] = order[(n - i) + 1]
                         /\ at[i] \in S /\ sorted[i] = reads[at[i]]
  BY <1>7, <1>8, <1>9
<1>11. at \in [1 .. n -> S]
  BY <1>10
<1> HIDE DEF at
<1>12. \A i, j \in 1 .. n : order[i] = order[j] => i = j
  <2>1. SUFFICES ASSUME NEW i \in 1 .. n, NEW j \in 1 .. n, order[i] = order[j], i # j
                 PROVE  FALSE
    OBVIOUS
  <2>2. i < j \/ j < i
    BY <1>7, <2>1
  <2>3. <<order[i], order[i]>> \in R /\ order[i] \in S
    BY <1>7, <2>1, <2>2
  <2>4. QED
    BY <1>6, <2>3
<1>13. ASSUME NEW i \in 1 .. n, NEW j \in 1 .. n, at[i] = at[j]
       PROVE  i = j
  <2>1. (n - i) + 1 = (n - j) + 1
    BY <1>10, <1>12, <1>13
  <2>2. QED
    BY <1>7, <2>1
<1>14. ASSUME NEW k \in S
       PROVE  \E i \in 1 .. n : at[i] = k
  <2>1. PICK l \in 1 .. n : order[l] = k
    BY <1>7
  <2>2. (n - l) + 1 \in 1 .. n /\ (n - ((n - l) + 1)) + 1 = l
    BY <1>7
  <2>3. at[(n - l) + 1] = k
    BY <1>10, <2>1, <2>2
  <2>4. QED
    BY <2>2, <2>3
<1>15. \E f \in [DOMAIN sorted -> S] :
        /\ \A i, j \in DOMAIN sorted : f[i] = f[j] => i = j
        /\ \A k \in S : \E i \in DOMAIN sorted : f[i] = k
        /\ \A i \in DOMAIN sorted : sorted[i] = reads[f[i]]
  <2>1. at \in [DOMAIN sorted -> S]
    BY <1>9, <1>11
  <2>2. /\ \A i, j \in DOMAIN sorted : at[i] = at[j] => i = j
        /\ \A k \in S : \E i \in DOMAIN sorted : at[i] = k
        /\ \A i \in DOMAIN sorted : sorted[i] = reads[at[i]]
    BY <1>9, <1>10, <1>13, <1>14
  <2>3. WITNESS at \in [DOMAIN sorted -> S]
  <2>4. QED
    BY <2>2
<1>16. QED
  BY <1>15 DEF S, sorted

LEMMA StartValidatorsKeeps ==
    ASSUME IInv, StartValidators
    PROVE  IInv'
<1>1. /\ task = Idle /\ task' = [Idle EXCEPT !.op = "getValidatorsList", !.phase = "systemState"]
      /\ stakes' \in [Validators -> 0 .. MaxStake]
      /\ UNCHANGED <<result, spared, used, coins, place, history, changed, changes>>
  BY DEF StartValidators, Begin
<1>2. TaskOk' /\ task'.op = "getValidatorsList" /\ task'.phase = "systemState"
  BY <1>1 DEF TaskOk, Phases, Idle
<1>3. ChainOk'
  BY <1>1 DEF IInv, ChainOk, InTimeOrder
<1>4. ValidatorsOk'
  BY <1>2 DEF ValidatorsOk
<1>5. QED
  BY <1>2, <1>3, <1>4, ValidatorsSuffices

LEMMA SystemStateAnsweredKeeps ==
    ASSUME IInv, SystemStateAnswered
    PROVE  IInv'
<1> DEFINE listed == SetToSeq(Active)
           reads == [i \in DOMAIN listed |-> <<stakes[listed[i]], listed[i]>>]
           n == Cardinality(Active)
<1>1. /\ task.op = "getValidatorsList" /\ task.phase = "systemState"
      /\ task' = [task EXCEPT !.phase = "totalStake", !.read = reads]
      /\ UNCHANGED <<result, spared, used, coins, place, history, stakes, changed, changes>>
  BY DEF SystemStateAnswered, At, chain
<1>2. ChainOk'
  BY <1>1 DEF IInv, ChainOk, InTimeOrder
<1>3. IsFiniteSet(Active) /\ Active \subseteq Validators /\ \A v \in Validators : stakes[v] \in Nat
  <2>1. Active \subseteq Validators
    BY DEF Active
  <2>2. IsFiniteSet(Active)
    BY <2>1, FiniteAssumption, FS_Subset
  <2>3. stakes \in [Validators -> 0 .. MaxStake]
    BY DEF IInv, ChainOk
  <2>4. QED
    BY <2>1, <2>2, <2>3, ParametersAssumption
<1>4. /\ n \in Nat /\ listed \in [1 .. n -> Active]
      /\ \A i, j \in 1 .. n : i # j => listed[i] # listed[j]
      /\ \A x \in Active : \E i \in 1 .. n : listed[i] = x
  BY <1>3, SetToSeqLists
<1> HIDE DEF listed, n
<1>5. /\ DOMAIN reads = 1 .. n /\ Len(reads) = n
      /\ \A i \in 1 .. n : reads[i] = <<stakes[listed[i]], listed[i]>> /\ listed[i] \in Active
  BY <1>4
<1>6. IsSeq(reads)
  BY <1>4, <1>5 DEF IsSeq
<1> HIDE DEF reads
<1>7. TaskOk' /\ task'.op = "getValidatorsList" /\ task'.phase = "totalStake" /\ task'.read = reads
  BY <1>1 DEF IInv, TaskOk, Phases
<1>8. reads \in Seq(Nat \X Validators)
  <2>1. \A i \in DOMAIN reads : reads[i] \in Nat \X Validators
    BY <1>3, <1>5
  <2>2. QED
    BY <1>6, <2>1, IsSeqOf
<1>9. \A v \in Active : <<stakes[v], v>> \in ToSet(reads)
  BY <1>4, <1>5 DEF ToSet
<1>10. \A i, j \in DOMAIN reads : i # j => reads[i][2] # reads[j][2]
  BY <1>4, <1>5
<1>11. \A i \in DOMAIN reads : reads[i][2] \in Active /\ reads[i][1] = stakes[reads[i][2]]
  BY <1>5
<1>12. ListedOk'
  <2>1. stakes' = stakes /\ Active' = Active
    BY <1>1 DEF Active
  <2>2. QED
    BY <1>7, <1>8, <1>9, <1>10, <1>11, <2>1 DEF ListedOk
<1>13. ValidatorsOk'
  BY <1>7, <1>12 DEF ValidatorsOk
<1>14. QED
  BY <1>2, <1>7, <1>13, ValidatorsSuffices

LEMMA TotalStakeAnsweredKeeps ==
    ASSUME IInv, TotalStakeAnswered
    PROVE  IInv'
<1>1. /\ task.op = "getValidatorsList" /\ task.phase = "totalStake"
      /\ task' = [task EXCEPT !.phase = "apys", !.gathered = Total]
      /\ UNCHANGED <<result, spared, used, coins, place, history, stakes, changed, changes>>
  BY DEF TotalStakeAnswered, At, chain
<1>2. ChainOk'
  BY <1>1 DEF IInv, ChainOk, InTimeOrder
<1>3. /\ TaskOk' /\ task'.op = "getValidatorsList" /\ task'.phase = "apys"
      /\ task'.gathered = Total /\ task'.read = task.read
  BY <1>1 DEF IInv, TaskOk, Phases
<1>4. Active' = Active /\ Total' = Total
  BY <1>1 DEF Active, Total
<1>5. ListedOk'
  BY <1>1, <1>3, <1>4 DEF IInv, ValidatorsOk, ListedOk
<1>6. ValidatorsOk'
  BY <1>3, <1>4, <1>5 DEF ValidatorsOk
<1>7. QED
  BY <1>2, <1>3, <1>6, ValidatorsSuffices

LEMMA ApysAnsweredKeeps ==
    ASSUME IInv, ApysAnswered
    PROVE  IInv'
<1> DEFINE reads == task.read
           sorted == ByShare(reads)
           summaries == [i \in DOMAIN sorted |-> Summary(sorted[i], task.gathered)]
<1>1. /\ task.op = "getValidatorsList" /\ task.phase = "apys"
      /\ result' = summaries
      /\ task' = [task EXCEPT !.phase = "returned", !.pending = {}]
      /\ UNCHANGED <<spared, used, coins, place, history, stakes, changed, changes>>
  BY DEF ApysAnswered, At, chain, Return
<1>2. ChainOk'
  BY <1>1 DEF IInv, ChainOk, InTimeOrder
<1>3. TaskOk' /\ task'.op = "getValidatorsList" /\ task'.phase = "returned"
  BY <1>1 DEF IInv, TaskOk, Phases
<1>4. /\ reads \in Seq(Nat \X Validators)
      /\ \A i, j \in DOMAIN reads : i # j => reads[i][2] # reads[j][2]
      /\ \A v \in Validators \ changed :
            /\ v \in Active => <<stakes[v], v>> \in ToSet(reads)
            /\ \A i \in DOMAIN reads :
                reads[i][2] = v => v \in Active /\ reads[i][1] = stakes[v]
      /\ changed = {} => task.gathered = Total
  BY <1>1 DEF IInv, ValidatorsOk, ListedOk
<1>5. PICK at \in [DOMAIN sorted -> DOMAIN reads] :
        /\ \A i, j \in DOMAIN sorted : at[i] = at[j] => i = j
        /\ \A k \in DOMAIN reads : \E i \in DOMAIN sorted : at[i] = k
        /\ \A i \in DOMAIN sorted : sorted[i] = reads[at[i]]
  BY <1>4, ByShareLists
<1> HIDE DEF sorted, reads
<1>6. /\ DOMAIN summaries = DOMAIN sorted
      /\ \A i \in DOMAIN summaries : /\ summaries[i].validator = reads[at[i]][2]
                                     /\ summaries[i].share[1] = reads[at[i]][1]
                                     /\ summaries[i].share[2] = task.gathered
                                     /\ summaries[i].hasApy = (reads[at[i]][2] \in Active)
                                     /\ at[i] \in DOMAIN reads
  BY <1>5 DEF Summary
<1> HIDE DEF summaries
<1>7. stakes' = stakes /\ changed' = changed /\ Active' = Active
  BY <1>1 DEF Active
<1>8. \A v \in Active : v \in Validators
  BY DEF Active
<1>9. ASSUME NEW v \in Active \ changed
      PROVE  Cardinality({i \in DOMAIN summaries :
                summaries[i].validator = v /\ summaries[i].share[1] = stakes[v]}) = 1
  <2> DEFINE places == {i \in DOMAIN summaries :
                            summaries[i].validator = v /\ summaries[i].share[1] = stakes[v]}
  <2>1. PICK k \in DOMAIN reads : reads[k] = <<stakes[v], v>>
    BY <1>4, <1>8 DEF ToSet
  <2>2. PICK i \in DOMAIN summaries : at[i] = k
    BY <1>5, <1>6
  <2>3. i \in places
    BY <1>6, <2>1, <2>2
  <2>4. \A j \in places : j = i
    <3>1. SUFFICES ASSUME NEW j \in places PROVE j = i
      OBVIOUS
    <3>2. reads[at[j]][2] = v /\ at[j] \in DOMAIN reads /\ reads[k][2] = v
      BY <1>6, <2>1
    <3>3. at[j] = k
      BY <1>4, <3>2
    <3>4. QED
      BY <1>5, <1>6, <2>2, <3>3
  <2>5. places = {i}
    BY <2>3, <2>4
  <2> HIDE DEF places
  <2>6. Cardinality(places) = 1
    BY <2>5, FS_Singleton
  <2>7. QED
    BY <2>6 DEF places
<1>10. ASSUME changed = {}
       PROVE  \A i \in DOMAIN summaries :
                /\ summaries[i].hasApy
                /\ summaries[i].share[2] = {<<r.share[1], r.validator>> : r \in ToSet(summaries)}
  <2>1. /\ \A i \in DOMAIN reads : reads[i] \in Nat \X Validators
    BY <1>4, SeqIsSeq
  <2>2. \A i \in DOMAIN reads : reads[i][2] \in Active /\ reads[i][1] = stakes[reads[i][2]]
    BY <1>4, <1>10, <2>1
  <2>3. task.gathered = {<<stakes[v], v>> : v \in Active}
    BY <1>4, <1>10 DEF Total
  <2>4. ASSUME NEW v \in Active
        PROVE  \E r \in ToSet(summaries) : <<stakes[v], v>> = <<r.share[1], r.validator>>
    <3>1. PICK k \in DOMAIN reads : reads[k] = <<stakes[v], v>>
      BY <1>4, <1>8, <1>10 DEF ToSet
    <3>2. PICK i \in DOMAIN summaries : at[i] = k
      BY <1>5, <1>6
    <3>3. summaries[i].share[1] = stakes[v] /\ summaries[i].validator = v
      BY <1>6, <3>1, <3>2
    <3>4. summaries[i] \in ToSet(summaries)
      BY DEF ToSet
    <3>5. QED
      BY <3>3, <3>4
  <2>5. ASSUME NEW r \in ToSet(summaries)
        PROVE  \E v \in Active : <<r.share[1], r.validator>> = <<stakes[v], v>>
    <3>1. PICK i \in DOMAIN summaries : r = summaries[i]
      BY DEF ToSet
    <3>2. r.share[1] = reads[at[i]][1] /\ r.validator = reads[at[i]][2] /\ at[i] \in DOMAIN reads
      BY <1>6, <3>1
    <3>3. QED
      BY <2>2, <3>2
  <2>6. task.gathered = {<<r.share[1], r.validator>> : r \in ToSet(summaries)}
    BY <2>3, <2>4, <2>5
  <2>7. QED
    BY <1>6, <2>2, <2>6
<1>11. ValidatorsOk'
  BY <1>1, <1>3, <1>7, <1>9, <1>10 DEF ValidatorsOk
<1>12. QED
  BY <1>2, <1>3, <1>11, ValidatorsSuffices

LEMMA EpochChangeKeeps ==
    ASSUME IInv, NEW newStakes \in [Validators -> 0 .. MaxStake], EpochChange(newStakes)
    PROVE  IInv'
<1>1. /\ task.op = "getValidatorsList" /\ task.phase # "returned"
      /\ newStakes # stakes
      /\ changes' = changes + 1 /\ stakes' = newStakes
      /\ changed' = changed \cup {v \in Validators : newStakes[v] # stakes[v]}
      /\ UNCHANGED <<task, result, spared, used, coins, place, history>>
  BY DEF EpochChange, Change, Running
<1>2. TaskOk' /\ task'.op = "getValidatorsList" /\ task'.phase = task.phase
  BY <1>1 DEF IInv, TaskOk
<1>3. stakes \in [Validators -> 0 .. MaxStake] /\ changes \in Nat
  BY DEF IInv, ChainOk
<1>4. ChainOk'
  <2>1. stakes' \in [Validators -> 0 .. MaxStake]
    BY <1>1
  <2>2. changes' \in Nat
    BY <1>1, <1>3
  <2>3. QED
    BY <1>1, <2>1, <2>2 DEF IInv, ChainOk, InTimeOrder
<1>5. changed' # {}
  <2>1. PICK v \in Validators : newStakes[v] # stakes[v]
    BY <1>1, <1>3
  <2>2. QED
    BY <1>1, <2>1
<1>6. \A v \in Validators \ changed' :
        v \in Validators \ changed /\ stakes'[v] = stakes[v] /\ (v \in Active' <=> v \in Active)
  BY <1>1 DEF Active
<1>7. ListedOk => ListedOk'
  BY <1>1, <1>6 DEF ListedOk
<1>8. ValidatorsOk'
  BY <1>1, <1>2, <1>5, <1>7 DEF IInv, ValidatorsOk
<1>9. QED
  BY <1>2, <1>4, <1>8, ValidatorsSuffices

-----------------------------------------------------------------------------
(* getTransactions *)

LEMMA TransactionsSuffices ==
    ASSUME task'.op = "getTransactions", TaskOk', ChainOk', TransactionsOk'
    PROVE  IInv'
BY DEF IInv, ImportOk, GetCoinsOk, CustomCoinsOk, NftsOk, NftsByIdOk, ValidatorsOk

\* A page of a query misses nothing of its side down to where it ends.
LEMMA QueryPageLists ==
    ASSUME ChainOk, NEW side
    PROVE  PageOk(side, QueryPage(side))
<1> DEFINE matching == {i \in DOMAIN history : history[i].side \in {side, "both"}}
           all == Cardinality(matching)
           m == Least(all, Limit)
           page == QueryPage(side)
<1>1. DOMAIN history = 1 .. Len(history) /\ Len(history) \in Nat
  BY DEF ChainOk
<1>2. matching \subseteq Nat /\ matching \subseteq DOMAIN history /\ IsFiniteSet(matching)
  <2>1. IsFiniteSet(1 .. Len(history))
    BY <1>1, FS_Interval
  <2>2. matching \subseteq 1 .. Len(history)
    BY <1>1
  <2>3. IsFiniteSet(matching)
    BY <2>1, <2>2, FS_Subset
  <2>4. QED
    BY <1>1, <2>2, <2>3
<1>3. page = [k \in 1 .. m |-> Nth(matching, all + 1 - k)]
  BY DEF QueryPage
<1>4. \A i \in DOMAIN history : history[i].side \in {side, "both"} => i \in matching
  OBVIOUS
<1> HIDE DEF matching, page
<1>5. /\ all \in Nat
      /\ \A i \in 1 .. all : Nth(matching, i) \in matching
      /\ \A j \in matching : \E i \in 1 .. all : j = Nth(matching, i)
  BY <1>2, NthLists
<1>6. \A i, j \in 1 .. all : i < j => Nth(matching, i) < Nth(matching, j)
  BY <1>2, NthGrows
<1> HIDE DEF all
<1>7. m \in Nat /\ m <= all /\ (m = all \/ m = Limit) /\ Limit \in Nat \ {0}
  BY <1>5, ParametersAssumption DEF Least
<1> HIDE DEF m
<1>8. DOMAIN page = 1 .. m /\ Len(page) = m /\ IsSeq(page)
  BY <1>3, <1>7 DEF IsSeq
<1>9. \A k \in 1 .. m : all + 1 - k \in 1 .. all /\ page[k] = Nth(matching, all + 1 - k)
  BY <1>3, <1>5, <1>7
<1>10. page \in Seq(DOMAIN history)
  <2>1. \A k \in DOMAIN page : page[k] \in DOMAIN history
    BY <1>2, <1>5, <1>8, <1>9
  <2>2. QED
    BY <1>8, <2>1, IsSeqOf
<1>11. ASSUME NEW i \in matching
       PROVE  i \in ToSet(page) \/ (Len(page) = Limit /\ i < page[Len(page)])
  <2>1. PICK j \in 1 .. all : i = Nth(matching, j)
    BY <1>5
  <2>2. all + 1 - j \in 1 .. all /\ all + 1 - (all + 1 - j) = j
    BY <1>5
  <2>3. CASE all + 1 - j <= m
    <3>1. all + 1 - j \in 1 .. m
      BY <1>7, <2>2, <2>3
    <3>2. page[all + 1 - j] = i
      BY <1>9, <2>1, <2>2, <3>1
    <3>3. QED
      BY <1>8, <3>1, <3>2 DEF ToSet
  <2>4. CASE ~ (all + 1 - j <= m)
    <3>1. m = Limit /\ m \in 1 .. m /\ j < all + 1 - m
      BY <1>5, <1>7, <2>2, <2>4
    <3>2. all + 1 - m \in 1 .. all /\ page[m] = Nth(matching, all + 1 - m)
      BY <1>9, <3>1
    <3>3. i < page[m]
      BY <1>6, <2>1, <3>1, <3>2
    <3>4. QED
      BY <1>8, <3>1, <3>3
  <2>5. QED
    BY <2>3, <2>4
<1>12. \A i \in DOMAIN history \ changed :
        history[i].side \in {side, "both"} =>
            \/ i \in ToSet(page)
            \/ Len(page) = Limit /\ i < page[Len(page)]
  BY <1>4, <1>11
<1>13. QED
  BY <1>10, <1>12 DEF PageOk, page

\* Sorting by time keeps the transactions and puts no older one before a newer.
LEMMA ByTimeLists ==
    ASSUME ChainOk, NEW txs, txs \in Seq(DOMAIN history)
    PROVE  LET sorted == ByTime(txs)
           IN  /\ IsSeq(sorted) /\ ToSet(sorted) = ToSet(txs)
               /\ \A i, j \in DOMAIN sorted : i < j => history[sorted[i]].time >= history[sorted[j]].time
<1> DEFINE S == DOMAIN txs
           R == Newer(txs)
           order == SortedBy(R, S)
           n == Cardinality(S)
           sorted == ByTime(txs)
           time(i) == history[txs[i]].time
<1>1. /\ DOMAIN txs = 1 .. Len(txs) /\ Len(txs) \in Nat
      /\ \A i \in DOMAIN txs : txs[i] \in DOMAIN history
  BY SeqIsSeq
<1>2. \A i \in S : i \in Nat /\ time(i) \in Nat
  <2>1. \A k \in DOMAIN history : history[k] \in [side : Sides, time : Nat]
    BY SeqIsSeq DEF ChainOk
  <2>2. QED
    BY <1>1, <2>1
<1>3. IsFiniteSet(S)
  BY <1>1, FS_Interval
<1>4. \A i, j \in S : <<i, j>> \in R <=> (time(i) > time(j) \/ (time(i) = time(j) /\ i < j))
  BY DEF Newer
<1>5. sorted = [k \in DOMAIN order |-> txs[order[k]]]
  BY DEF ByTime
<1>6. \A i \in S : time(i) = history[txs[i]].time
  OBVIOUS
<1> HIDE DEF S, R, sorted, time
<1>7. /\ \A x \in S : <<x, x>> \notin R
      /\ \A x, y, z \in S : <<x, y>> \in R /\ <<y, z>> \in R => <<x, z>> \in R
      /\ \A x, y \in S : x = y \/ <<x, y>> \in R \/ <<y, x>> \in R
  <2>1. \A x \in S : <<x, x>> \notin R
    BY <1>2, <1>4
  <2>2. ASSUME NEW x \in S, NEW y \in S, NEW z \in S, <<x, y>> \in R, <<y, z>> \in R
        PROVE  <<x, z>> \in R
    <3>1. /\ x \in Nat /\ y \in Nat /\ z \in Nat
          /\ time(x) \in Nat /\ time(y) \in Nat /\ time(z) \in Nat
      BY <1>2
    <3>2. /\ time(x) > time(y) \/ (time(x) = time(y) /\ x < y)
          /\ time(y) > time(z) \/ (time(y) = time(z) /\ y < z)
      BY <1>4, <2>2
    <3>3. (time(x) > time(z) \/ (time(x) = time(z) /\ x < z)) => <<x, z>> \in R
      BY <1>4
    <3>4. QED
      BY <3>1, <3>2, <3>3
  <2>3. ASSUME NEW x \in S, NEW y \in S
        PROVE  x = y \/ <<x, y>> \in R \/ <<y, x>> \in R
    BY <1>2, <1>4
  <2>4. QED
    BY <2>1, <2>2, <2>3
<1>8. /\ n \in Nat /\ order \in [1 .. n -> S]
      /\ \A i, j \in 1 .. n : i < j => <<order[i], order[j]>> \in R
      /\ \A x \in S : \E i \in 1 .. n : order[i] = x
  BY <1>3, <1>7, SortedByLists
<1> HIDE DEF order, n
<1>9. /\ DOMAIN sorted = 1 .. n /\ Len(sorted) = n /\ IsSeq(sorted)
      /\ \A k \in 1 .. n : sorted[k] = txs[order[k]] /\ order[k] \in S
  BY <1>5, <1>8 DEF IsSeq
<1>10. ToSet(sorted) = ToSet(txs)
  <2>1. \A k \in DOMAIN sorted : sorted[k] \in ToSet(txs)
    BY <1>9 DEF ToSet, S
  <2>2. \A x \in S : txs[x] \in ToSet(sorted)
    BY <1>8, <1>9 DEF ToSet
  <2>3. QED
    BY <2>1, <2>2 DEF ToSet, S
<1>11. ASSUME NEW i \in 1 .. n, NEW j \in 1 .. n, i < j
       PROVE  history[sorted[i]].time >= history[sorted[j]].time
  <2>1. time(order[i]) >= time(order[j])
    <3>1. order[i] \in S /\ order[j] \in S /\ <<order[i], order[j]>> \in R
      BY <1>8, <1>11
    <3>2. time(order[i]) \in Nat /\ time(order[j]) \in Nat
      BY <1>2, <3>1
    <3>3. time(order[i]) > time(order[j]) \/ time(order[i]) = time(order[j])
      BY <1>4, <3>1
    <3>4. QED
      BY <3>2, <3>3
  <2>2. QED
    BY <1>6, <1>9, <2>1
<1>12. QED
  BY <1>9, <1>10, <1>11 DEF sorted

\* Each where it comes first: all of them, none twice, in the same order.
LEMMA UniqueLists ==
    ASSUME NEW s, IsSeq(s)
    PROVE  LET u == Unique(s)
           IN  /\ ToSet(u) = ToSet(s)
               /\ \A i, j \in DOMAIN u : i < j =>
                    \E k, l \in DOMAIN s : k < l /\ u[i] = s[k] /\ u[j] = s[l] /\ s[k] # s[l]
<1> DEFINE firsts == {i \in DOMAIN s : \A j \in DOMAIN s : j < i => s[j] # s[i]}
           u == Unique(s)
<1>1. DOMAIN s = 1 .. Len(s) /\ Len(s) \in Nat
  BY DEF IsSeq
<1>2. u = ItemsAt(s, firsts)
  BY DEF Unique
<1>3. firsts \in SUBSET (DOMAIN s)
  OBVIOUS
<1>4. \A i \in firsts : i \in DOMAIN s /\ \A j \in DOMAIN s : j < i => s[j] # s[i]
  OBVIOUS
<1>5. \A i \in DOMAIN s : (\A j \in DOMAIN s : j < i => s[j] # s[i]) => i \in firsts
  OBVIOUS
<1> HIDE DEF firsts, u
<1>6. /\ ToSet(u) = {s[i] : i \in firsts}
      /\ \E at \in [DOMAIN u -> firsts] :
            /\ \A i, j \in DOMAIN u : i < j => at[i] < at[j]
            /\ \A i \in DOMAIN u : u[i] = s[at[i]]
  BY <1>2, <1>3, Picked
<1>7. ASSUME NEW p \in DOMAIN s
      PROVE  \E i \in firsts : s[i] = s[p]
  <2> DEFINE T == {j \in DOMAIN s : s[j] = s[p]}
  <2>1. T \subseteq Nat /\ T # {}
    BY <1>1
  <2>2. \A j \in DOMAIN s : s[j] = s[p] => j \in T
    OBVIOUS
  <2>3. \A j \in T : j \in DOMAIN s /\ s[j] = s[p]
    OBVIOUS
  <2> HIDE DEF T
  <2>4. PICK i \in T : \A j \in T : i <= j
    BY <2>1, LeastOf
  <2>5. \A j \in DOMAIN s : j < i => s[j] # s[i]
    <3>1. SUFFICES ASSUME NEW j \in DOMAIN s, j < i, s[j] = s[i] PROVE FALSE
      OBVIOUS
    <3>2. j \in T /\ j \in Nat /\ i \in Nat
      BY <1>1, <2>1, <2>2, <2>3, <2>4, <3>1
    <3>3. QED
      BY <2>4, <3>1, <3>2
  <2>6. QED
    BY <1>5, <2>3, <2>4, <2>5
<1>8. ToSet(u) = ToSet(s)
  <2>1. ToSet(s) = {s[p] : p \in DOMAIN s}
    BY DEF ToSet
  <2>2. {s[i] : i \in firsts} = {s[p] : p \in DOMAIN s}
    BY <1>4, <1>7
  <2>3. QED
    BY <1>6, <2>1, <2>2
<1>9. ASSUME NEW i \in DOMAIN u, NEW j \in DOMAIN u, i < j
      PROVE  \E k, l \in DOMAIN s : k < l /\ u[i] = s[k] /\ u[j] = s[l] /\ s[k] # s[l]
  <2>1. PICK at \in [DOMAIN u -> firsts] :
            /\ \A x, y \in DOMAIN u : x < y => at[x] < at[y]
            /\ \A x \in DOMAIN u : u[x] = s[at[x]]
    BY <1>6
  <2>2. at[i] < at[j] /\ at[i] \in firsts /\ at[j] \in firsts /\ u[i] = s[at[i]] /\ u[j] = s[at[j]]
    BY <1>9, <2>1
  <2>3. QED
    BY <1>4, <2>2
<1>10. QED
  BY <1>8, <1>9 DEF u

LEMMA StartTransactionsKeeps ==
    ASSUME IInv, StartTransactions
    PROVE  IInv'
<1>1. /\ task = Idle /\ task' = [Idle EXCEPT !.op = "getTransactions", !.phase = "queries"]
      /\ UNCHANGED <<result, spared, used, coins, place, stakes, changed, changes>>
  BY DEF StartTransactions, Begin
<1>2. /\ TaskOk' /\ task'.op = "getTransactions" /\ task'.phase = "queries"
      /\ task'.read = << >>
  BY <1>1 DEF TaskOk, Phases, Idle
<1>3. PICK n \in 0 .. MaxHistory - 1 :
        history' \in [1 .. n -> [side : Sides, time : {1, 2}]] /\ InTimeOrder(history')
  BY DEF StartTransactions
<1>4. /\ history' \in Seq([side : Sides, time : Nat]) /\ Len(history') <= MaxHistory
  <2>1. n \in Nat /\ n <= MaxHistory
    BY ParametersAssumption
  <2>2. [side : Sides, time : {1, 2}] \subseteq [side : Sides, time : Nat]
    OBVIOUS
  <2>3. history' \in [1 .. n -> [side : Sides, time : Nat]]
    BY <1>3, <2>2
  <2>4. \A E, h : h \in [1 .. n -> E] => h \in Seq(E) /\ Len(h) = n
    BY <2>1
  <2>5. history' \in Seq([side : Sides, time : Nat]) /\ Len(history') = n
    BY <2>3, <2>4, Zenon
  <2>6. QED
    BY <2>1, <2>5
<1>5. ChainOk'
  BY <1>1, <1>3, <1>4 DEF IInv, ChainOk
<1>6. TransactionsOk'
  <2>1. /\ << >> \in Seq({"to", "from"} \X Seq(DOMAIN (history'))) /\ Len(<< >>) <= 1
        /\ ToSet(<< >>) = {}
    BY DEF ToSet
  <2>2. QED
    BY <1>2, <2>1 DEF TransactionsOk
<1>7. QED
  BY <1>2, <1>5, <1>6, TransactionsSuffices

\* A later transaction leaves a page what it was.
LEMMA PageStays ==
    ASSUME NEW side, NEW page, PageOk(side, page), ChainOk,
           DOMAIN (history') = DOMAIN history \cup {Len(history) + 1},
           \A i \in DOMAIN history : (history')[i] = history[i],
           changed' = changed \cup {Len(history) + 1}
    PROVE  PageOk(side, page)' /\ page \in Seq(DOMAIN (history'))
<1>1. IsSeq(page) /\ \A k \in DOMAIN page : page[k] \in DOMAIN history
  BY SeqIsSeq DEF PageOk
<1>2. page \in Seq(DOMAIN (history'))
  <2>1. \A k \in DOMAIN page : page[k] \in DOMAIN (history')
    BY <1>1
  <2>2. QED
    BY <1>1, <2>1, IsSeqOf
<1>3. \A i \in DOMAIN (history') \ changed' :
        i \in DOMAIN history \ changed /\ (history')[i] = history[i]
  OBVIOUS
<1>4. QED
  BY <1>2, <1>3 DEF PageOk

LEMMA NewTransactionKeeps ==
    ASSUME IInv, NEW side \in Sides, NEW later \in {0, 1}, NewTransaction(side, later)
    PROVE  IInv'
<1> DEFINE last == IF history = << >> THEN 1 ELSE history[Len(history)].time
           new == [side |-> side, time |-> last + later]
           n == Len(history)
<1>1. /\ task.op = "getTransactions" /\ task.phase # "returned"
      /\ changes' = changes + 1
      /\ n < MaxHistory /\ history' = Append(history, new)
      /\ changed' = changed \cup {n + 1}
      /\ UNCHANGED <<task, result, spared, used, coins, place, stakes>>
  BY DEF NewTransaction, Change, Running
<1>2. TaskOk' /\ task'.op = "getTransactions" /\ task'.phase = task.phase /\ task'.read = task.read
  BY <1>1 DEF IInv, TaskOk
<1>3. /\ history \in Seq([side : Sides, time : Nat]) /\ InTimeOrder(history) /\ changes \in Nat
      /\ n \in Nat /\ DOMAIN history = 1 .. n /\ MaxHistory \in Nat
      /\ \A i \in DOMAIN history : history[i] \in [side : Sides, time : Nat]
  <2>1. /\ history \in Seq([side : Sides, time : Nat]) /\ InTimeOrder(history) /\ changes \in Nat
    BY DEF IInv, ChainOk
  <2>2. QED
    BY <2>1, SeqIsSeq, ParametersAssumption
<1>4. last \in Nat /\ \A i \in DOMAIN history : history[i].time <= last
  <2>1. CASE history = << >>
    BY <2>1
  <2>2. CASE history # << >>
    <3>1. n \in DOMAIN history
      BY <1>3, <2>2
    <3>2. last = history[n].time /\ \A i \in DOMAIN history : history[i].time \in Nat
      BY <1>3, <2>2
    <3>3. \A i \in DOMAIN history : i = n \/ i < n
      BY <1>3
    <3>4. QED
      BY <1>3, <3>1, <3>2, <3>3 DEF InTimeOrder
  <2>3. QED
    BY <2>1, <2>2
<1>5. new \in [side : Sides, time : Nat] /\ new.time \in Nat /\ last <= new.time
  BY <1>4
<1> HIDE DEF new, last
<1>6. /\ history' \in Seq([side : Sides, time : Nat]) /\ Len(history') = n + 1
      /\ DOMAIN (history') = 1 .. n + 1
      /\ \A i \in DOMAIN history : (history')[i] = history[i]
      /\ (history')[n + 1] = new
  BY <1>1, <1>3, <1>5
<1>7. InTimeOrder(history')
  <2>1. SUFFICES ASSUME NEW i \in DOMAIN (history'), NEW j \in DOMAIN (history'), i < j
                 PROVE  (history')[i].time <= (history')[j].time
    BY DEF InTimeOrder
  <2>2. i \in DOMAIN history /\ (j \in DOMAIN history \/ j = n + 1)
    BY <1>3, <1>6, <2>1
  <2>3. CASE j \in DOMAIN history
    BY <1>3, <1>6, <2>1, <2>2, <2>3 DEF InTimeOrder
  <2>4. CASE j = n + 1
    <3>1. (history')[i].time <= last /\ (history')[j].time = new.time /\ (history')[i].time \in Nat
      BY <1>3, <1>4, <1>6, <2>2, <2>4
    <3>2. QED
      BY <1>4, <1>5, <3>1
  <2>5. QED
    BY <2>2, <2>3, <2>4
<1>8. ChainOk'
  <2>1. Len(history') <= MaxHistory /\ changes' \in Nat
    BY <1>1, <1>3, <1>6
  <2>2. QED
    BY <1>1, <1>6, <1>7, <2>1 DEF IInv, ChainOk
<1>9. DOMAIN (history') = DOMAIN history \cup {n + 1}
  BY <1>3, <1>6
<1>10. ASSUME NEW s, NEW page, PageOk(s, page)
       PROVE  PageOk(s, page)' /\ page \in Seq(DOMAIN (history'))
  <2>1. ChainOk
    BY DEF IInv
  <2>2. QED
    BY <1>1, <1>6, <1>9, <1>10, <2>1, PageStays
<1>11. TransactionsOk'
  <2>1. CASE task.phase = "queries"
    <3>1. /\ Len(task.read) <= 1
          /\ task.read \in Seq({"to", "from"} \X Seq(DOMAIN history))
          /\ \A r \in ToSet(task.read) : PageOk(r[1], r[2])
      BY <1>1, <2>1 DEF IInv, TransactionsOk
    <3>2. \A r \in ToSet(task.read) : PageOk(r[1], r[2])' /\ r[2] \in Seq(DOMAIN (history'))
      BY <1>10, <3>1
    <3>3. /\ IsSeq(task.read)
          /\ \A i \in DOMAIN task.read : task.read[i] \in {"to", "from"} \X Seq(DOMAIN history)
      BY <3>1, SeqIsSeq
    <3>4. task.read \in Seq({"to", "from"} \X Seq(DOMAIN (history')))
      <4>1. ASSUME NEW i \in DOMAIN task.read
            PROVE  task.read[i] \in {"to", "from"} \X Seq(DOMAIN (history'))
        <5>1. task.read[i] \in ToSet(task.read)
          BY DEF ToSet
        <5>2. task.read[i][2] \in Seq(DOMAIN (history'))
          BY <3>2, <5>1
        <5>3. QED
          BY <3>3, <5>2
      <4>2. QED
        BY <3>3, <4>1, IsSeqOf
    <3>5. QED
      BY <1>2, <2>1, <3>1, <3>2, <3>4 DEF TransactionsOk
  <2>2. CASE task.phase # "queries"
    BY <1>1, <1>2, <2>2 DEF IInv, TransactionsOk
  <2>3. QED
    BY <2>1, <2>2
<1>12. QED
  BY <1>2, <1>8, <1>11, TransactionsSuffices

LEMMA QueryAnsweredKeeps ==
    ASSUME IInv, NEW side \in {"to", "from"}, QueryAnswered(side)
    PROVE  IInv'
<1> DEFINE page == QueryPage(side)
           before == task.read
           reads == Append(before, <<side, page>>)
<1>1. /\ task.op = "getTransactions" /\ task.phase = "queries"
      /\ side \notin {r[1] : r \in ToSet(before)}
      /\ IF Len(reads) = 2
         THEN /\ result' = Unique(ByTime(PageOf("to", reads) \o PageOf("from", reads)))
              /\ task' = [task EXCEPT !.phase = "returned", !.read = reads]
         ELSE task' = [task EXCEPT !.read = reads] /\ UNCHANGED result
      /\ UNCHANGED <<spared, used, coins, place, history, stakes, changed, changes>>
  BY DEF QueryAnswered, At, chain
<1>2. /\ Len(before) <= 1 /\ before \in Seq({"to", "from"} \X Seq(DOMAIN history))
      /\ \A r \in ToSet(before) : PageOk(r[1], r[2])
  BY <1>1 DEF IInv, TransactionsOk
<1>3. ChainOk' /\ ChainOk
  BY <1>1 DEF IInv, ChainOk, InTimeOrder
<1>4. PageOk(side, page) /\ page \in Seq(DOMAIN history)
  BY <1>3, QueryPageLists DEF PageOk
<1> HIDE DEF page, before
<1>5. /\ Len(before) \in Nat /\ DOMAIN before = 1 .. Len(before)
      /\ \A i \in DOMAIN before : before[i] \in {"to", "from"} \X Seq(DOMAIN history)
  BY <1>2, SeqIsSeq
<1>6. /\ reads \in Seq({"to", "from"} \X Seq(DOMAIN history)) /\ Len(reads) = Len(before) + 1
      /\ DOMAIN reads = 1 .. Len(before) + 1
      /\ \A i \in DOMAIN before : reads[i] = before[i]
      /\ reads[Len(before) + 1] = <<side, page>>
  BY <1>2, <1>4
<1> HIDE DEF reads
<1>7. \A i \in DOMAIN reads : PageOk(reads[i][1], reads[i][2])
  <2>1. \A i \in DOMAIN before : PageOk(before[i][1], before[i][2])
    BY <1>2 DEF ToSet
  <2>2. \A i \in DOMAIN reads : i \in DOMAIN before \/ i = Len(before) + 1
    BY <1>5, <1>6
  <2>3. QED
    BY <1>4, <1>6, <2>1, <2>2
<1>8. CASE Len(reads) # 2
  <2>1. task' = [task EXCEPT !.read = reads] /\ result' = result
    BY <1>1, <1>8
  <2>2. /\ TaskOk' /\ task'.op = "getTransactions" /\ task'.phase = "queries" /\ task'.read = reads
    BY <1>1, <2>1 DEF IInv, TaskOk
  <2>3. Len(reads) <= 1
    BY <1>2, <1>5, <1>6, <1>8
  <2>4. \A r \in ToSet(reads) : PageOk(r[1], r[2])'
    BY <1>1, <1>7 DEF ToSet, PageOk
  <2>5. TransactionsOk'
    BY <1>1, <1>6, <2>2, <2>3, <2>4 DEF TransactionsOk
  <2>6. QED
    BY <1>3, <2>2, <2>5, TransactionsSuffices
<1>9. CASE Len(reads) = 2
  <2> DEFINE to == PageOf("to", reads)
             from == PageOf("from", reads)
             both == to \o from
             sorted == ByTime(both)
             u == Unique(sorted)
  <2>1. task' = [task EXCEPT !.phase = "returned", !.read = reads] /\ result' = u
    BY <1>1, <1>9
  <2>2. /\ TaskOk' /\ task'.op = "getTransactions" /\ task'.phase = "returned" /\ task'.read = reads
    BY <1>1, <2>1 DEF IInv, TaskOk, Phases
  <2>3. /\ DOMAIN reads = {1, 2} /\ DOMAIN before = {1}
        /\ reads[1] \in {"to", "from"} \X Seq(DOMAIN history)
        /\ reads[2] = <<side, page>>
    <3>1. Len(before) = 1 /\ Len(before) + 1 = 2
      <4>1. Len(before) + 1 = 2 /\ Len(before) \in Nat
        BY <1>5, <1>6, <1>9
      <4>2. \A n \in Nat : n + 1 = 2 => n = 1
        OBVIOUS
      <4>3. QED
        BY <4>1, <4>2, Zenon
    <3>2. DOMAIN before = 1 .. 1 /\ DOMAIN reads = 1 .. 2 /\ reads[2] = <<side, page>>
      BY <1>5, <1>6, <3>1
    <3>3. 1 .. 1 = {1} /\ 1 .. 2 = {1, 2}
      OBVIOUS
    <3>4. 1 \in DOMAIN before
      BY <3>2, <3>3
    <3>5. reads[1] = before[1] /\ before[1] \in {"to", "from"} \X Seq(DOMAIN history)
      BY <1>5, <1>6, <3>4
    <3>6. QED
      BY <3>2, <3>3, <3>5
  <2>4. reads[1][1] # side /\ reads[1][1] \in {"to", "from"}
    <3>1. reads[1] \in ToSet(before)
      BY <1>6, <2>3 DEF ToSet
    <3>2. QED
      BY <1>1, <2>3, <3>1
  <2>5. ASSUME NEW which \in {"to", "from"}
        PROVE  \E i \in DOMAIN reads : reads[i][1] = which /\ PageOf(which, reads) = reads[i][2]
    <3>1. \E i \in DOMAIN reads : reads[i][1] = which
      BY <2>3, <2>4
    <3>2. QED
      BY <3>1 DEF PageOf
  <2>6. PICK i \in DOMAIN reads : reads[i][1] = "to" /\ to = reads[i][2]
    BY <2>5
  <2>7. PICK j \in DOMAIN reads : reads[j][1] = "from" /\ from = reads[j][2]
    BY <2>5
  <2> HIDE DEF to, from
  <2>8. /\ PageOk("to", to) /\ PageOk("from", from)
        /\ reads[i] \in ToSet(reads) /\ reads[j] \in ToSet(reads)
    BY <1>7, <2>6, <2>7 DEF ToSet
  <2>9. /\ IsSeq(to) /\ IsSeq(from) /\ to \in Seq(DOMAIN history) /\ from \in Seq(DOMAIN history)
        /\ \A k \in DOMAIN to : to[k] \in DOMAIN history
        /\ \A k \in DOMAIN from : from[k] \in DOMAIN history
        /\ DOMAIN to = 1 .. Len(to) /\ DOMAIN from = 1 .. Len(from)
    BY <2>8, SeqIsSeq DEF PageOk
  <2>10. both \in Seq(DOMAIN history) /\ ToSet(both) = ToSet(to) \cup ToSet(from)
    <3>1. ToSet(both) = ToSet(to) \cup ToSet(from)
      BY <2>9, Joined
    <3>2. QED
      BY <2>9, <3>1
  <2> HIDE DEF both
  <2>11. /\ IsSeq(sorted) /\ ToSet(sorted) = ToSet(both)
         /\ \A k, l \in DOMAIN sorted : k < l => history[sorted[k]].time >= history[sorted[l]].time
    BY <1>3, <2>10, ByTimeLists
  <2> HIDE DEF sorted
  <2>12. /\ ToSet(u) = ToSet(sorted)
         /\ \A x, y \in DOMAIN u : x < y =>
                \E k, l \in DOMAIN sorted :
                    k < l /\ u[x] = sorted[k] /\ u[y] = sorted[l] /\ sorted[k] # sorted[l]
    BY <2>11, UniqueLists
  <2> HIDE DEF u
  <2>13. \A x, y \in DOMAIN u : x < y => u[x] # u[y] /\ history[u[x]].time >= history[u[y]].time
    BY <2>11, <2>12
  <2>14. ASSUME NEW x \in DOMAIN history \ changed,
                \A r \in ToSet(reads) : Len(r[2]) = Limit => history[x].time > OldestOf(r[2])
         PROVE  x \in ToSet(u)
    <3>1. /\ \A k \in DOMAIN history : history[k] \in [side : Sides, time : Nat]
          /\ \A k, l \in DOMAIN history : k < l => history[k].time <= history[l].time
      BY <1>3, SeqIsSeq DEF ChainOk, InTimeOrder
    <3>2. ASSUME NEW p, IsSeq(p), \A k \in DOMAIN p : p[k] \in DOMAIN history,
                 Len(p) = Limit, x < p[Len(p)]
          PROVE  ~ (history[x].time > OldestOf(p))
      <4>1. p[Len(p)] \in DOMAIN history
        <5>1. Limit \in 1 .. Limit
          BY ParametersAssumption
        <5>2. DOMAIN p = 1 .. Len(p)
          BY <3>2 DEF IsSeq
        <5>3. QED
          BY <3>2, <5>1, <5>2
      <4>2. history[x].time <= history[p[Len(p)]].time
        BY <3>1, <3>2, <4>1
      <4>3. history[x].time \in Nat /\ history[p[Len(p)]].time \in Nat
        BY <3>1, <4>1
      <4>4. QED
        BY <4>2, <4>3 DEF OldestOf
    <3>3. ~ (Len(to) = Limit /\ x < to[Len(to)])
      BY <2>6, <2>8, <2>9, <2>14, <3>2
    <3>4. ~ (Len(from) = Limit /\ x < from[Len(from)])
      BY <2>7, <2>8, <2>9, <2>14, <3>2
    <3>5. history[x].side \in {"to", "both"} \/ history[x].side \in {"from", "both"}
      BY <3>1 DEF Sides
    <3>6. x \in ToSet(to) \/ x \in ToSet(from)
      BY <2>8, <3>3, <3>4, <3>5 DEF PageOk
    <3>7. QED
      BY <2>10, <2>11, <2>12, <3>6
  <2>15. HistoryComplete'
    <3>1. \A x \in DOMAIN (history') \ changed' : Since(x)' => x \in ToSet(result')
      <4>1. SUFFICES ASSUME NEW x \in DOMAIN history \ changed, Since(x)'
                     PROVE  x \in ToSet(u)
        BY <1>1, <2>1
      <4>2. \A r \in ToSet(reads) : Len(r[2]) = Limit => history[x].time > OldestOf(r[2])
        BY <1>1, <2>2, <4>1 DEF Since, OldestOf
      <4>3. QED
        BY <2>14, <4>2
    <3>2. QED
      BY <1>1, <2>1, <2>13, <3>1 DEF HistoryComplete
  <2>16. TransactionsOk'
    BY <2>2, <2>15 DEF TransactionsOk
  <2>17. QED
    BY <1>3, <2>2, <2>16, TransactionsSuffices
<1>10. QED
  BY <1>8, <1>9

-----------------------------------------------------------------------------
(* The theorems *)

LEMMA StutterKeeps ==
    ASSUME IInv, UNCHANGED vars
    PROVE  IInv'
<1>1. UNCHANGED <<task, result, spared, used, coins, place, history, stakes, changed, changes>>
  BY DEF vars, chain
<1>2. /\ AccountsFound' = AccountsFound /\ HistoryComplete' = HistoryComplete
      /\ NftsById' = NftsById
  BY <1>1 DEF AccountsFound, HistoryComplete, NftsById, Returned, At, Since, OldestOf
<1>3. TaskOk' /\ ChainOk'
  BY <1>1 DEF IInv, TaskOk, ChainOk, InTimeOrder
<1>4. ImportOk' /\ GetCoinsOk' /\ CustomCoinsOk' /\ NftsByIdOk'
  BY <1>1, <1>2 DEF IInv, ImportOk, GetCoinsOk, CustomCoinsOk, NftsByIdOk, Ascending
<1>5. NftsOk'
  BY <1>1 DEF IInv, NftsOk, ReadsOk, WalletNfts, Distinct, Lasting, Found, OnPage
<1>6. ValidatorsOk'
  BY <1>1 DEF IInv, ValidatorsOk, ListedOk, Active, Total
<1>7. TransactionsOk'
  BY <1>1, <1>2 DEF IInv, TransactionsOk, PageOk
<1>8. QED
  BY <1>3, <1>4, <1>5, <1>6, <1>7 DEF IInv

\* Every step keeps the invariant.
THEOREM StepsKeepIInv ==
    IInv /\ [Next]_vars => IInv'
<1>1. SUFFICES ASSUME IInv, [Next]_vars PROVE IInv'
  OBVIOUS
<1>2. CASE StartImport \/ BalancesAnswered \/ BalancesFail \/ CreateNewAccount
  BY <1>1, <1>2, StartImportKeeps, BalancesAnsweredKeeps, BalancesFailKeeps, CreateNewAccountKeeps
<1>3. CASE StartCoins("getCoins", "coins") \/ CoinsAnswered \/ EmptyPageAnswered
           \/ StartCoins("getCustomCoins", "coins") \/ AllCoinsAnswered
  BY <1>1, <1>3, StartCoinsKeeps, CoinsAnsweredKeeps, EmptyPageAnsweredKeeps, AllCoinsAnsweredKeeps
<1>4. ASSUME NEW c \in Coins, CoinMetadataAnswered(c) \/ CoinMetadataFails(c) \/ CoinComesOrGoes(c)
      PROVE  IInv'
  BY <1>1, <1>4, CoinMetadataKeeps, CoinComesOrGoesKeeps
<1>5. CASE StartNfts \/ WalletAnswered \/ WalletAnsweredOnly \/ ObContentsAnswered \/ SuiContentsAnswered
  BY <1>1, <1>5, StartNftsKeeps, WalletAnsweredKeeps, ObContentsAnsweredKeeps, SuiContentsAnsweredKeeps
<1>6. ASSUME NEW kiosk, (kiosk \in ObKiosks /\ ObKioskAnswered(kiosk))
                        \/ (kiosk \in SuiKiosks /\ SuiKioskAnswered(kiosk))
      PROVE  IInv'
  BY <1>1, <1>6, KioskAnsweredKeeps
<1>7. ASSUME NEW n \in Nfts, NftMetadataAnswered(n) \/ BagAnswered(n)
      PROVE  IInv'
  BY <1>1, <1>7, NftMetadataAnsweredKeeps, BagAnsweredKeeps
<1>8. CASE StartNftsById \/ ObjectsAnswered \/ ObTokensAnswered \/ SuiCapsAnswered
  BY <1>1, <1>8, StartNftsByIdKeeps, ObjectsAnsweredKeeps, KiosksAnsweredKeeps
<1>9. CASE StartValidators \/ SystemStateAnswered \/ TotalStakeAnswered \/ ApysAnswered
  BY <1>1, <1>9, StartValidatorsKeeps, SystemStateAnsweredKeeps, TotalStakeAnsweredKeeps,
     ApysAnsweredKeeps
<1>10. CASE StartTransactions
  BY <1>1, <1>10, StartTransactionsKeeps
<1>11. ASSUME NEW side \in {"to", "from"}, QueryAnswered(side)
       PROVE  IInv'
  BY <1>1, <1>11, QueryAnsweredKeeps
<1>12. CASE RequestFails
  BY <1>1, <1>12, FailureKeeps
<1>13. ASSUME NEW i \in 0 .. MAX_ACCOUNTS - 1, UseAccount(i)
       PROVE  IInv'
  BY <1>1, <1>13, UseAccountKeeps
<1>14. ASSUME NEW n \in Nfts, NEW to \in Places, NftMoves(n, to)
       PROVE  IInv'
  BY <1>1, <1>14, NftMovesKeeps
<1>15. ASSUME NEW newStakes \in [Validators -> 0 .. MaxStake], EpochChange(newStakes)
       PROVE  IInv'
  BY <1>1, <1>15, EpochChangeKeeps
<1>16. ASSUME NEW side \in Sides, NEW later \in {0, 1}, NewTransaction(side, later)
       PROVE  IInv'
  BY <1>1, <1>16, NewTransactionKeeps
<1>17. CASE UNCHANGED vars
  BY <1>1, <1>17, StutterKeeps
<1>18. QED
  BY <1>1, <1>2, <1>3, <1>4, <1>5, <1>6, <1>7, <1>8, <1>9, <1>10, <1>11, <1>12, <1>13, <1>14, <1>15,
     <1>16, <1>17 DEF Next

\* The invariant holds in every state.
THEOREM IInvHolds ==
    Spec => []IInv
<1>1. QED
  BY Initially, StepsKeepIInv, PTL DEF Spec

\* A list without repeats of entries has at most one of an NFT from each of the
\* three sources.
LEMMA ThreeOfEach ==
    ASSUME result \in Seq(Entries), Distinct(result)
    PROVE  Len(result) <= 3 * Cardinality(Nfts)
<1> DEFINE T == (1 .. 3) \X Nfts
           s == [i \in 1 .. Len(result) |-> <<Source(result[i]), result[i].nft>>]
<1>1. /\ DOMAIN result = 1 .. Len(result) /\ Len(result) \in Nat
      /\ \A i \in DOMAIN result : result[i] \in Entries
  BY SeqIsSeq
<1>2. \A e \in Entries : Source(e) \in 1 .. 3 /\ e.nft \in Nfts
  <2>1. Displayed \subseteq Nfts
    BY ParametersAssumption
  <2>2. \A e \in Entries : e.nft \in Displayed
    BY DEF Entries
  <2>3. \A e \in Entries : Source(e) \in 1 .. 3
    <3>1. 1 \in 1 .. 3 /\ 2 \in 1 .. 3 /\ 3 \in 1 .. 3
      OBVIOUS
    <3>2. QED
      BY <3>1 DEF Source
  <2>4. QED
    BY <2>1, <2>2, <2>3
<1>3. IsFiniteSet(T) /\ Cardinality(T) = 3 * Cardinality(Nfts)
  <2>1. IsFiniteSet(1 .. 3) /\ Cardinality(1 .. 3) = 3
    <3>1. 1 \in Int /\ 3 \in Int /\ ~ (1 > 3) /\ 3 - 1 + 1 = 3
      OBVIOUS
    <3>2. \A b \in Int : IsFiniteSet(1 .. b) /\ Cardinality(1 .. b) = IF 1 > b THEN 0 ELSE b - 1 + 1
      BY <3>1, FS_Interval
    <3>3. QED
      BY <3>1, <3>2
  <2>2. IsFiniteSet(Nfts)
    BY FiniteAssumption
  <2>3. QED
    BY <2>1, <2>2, FS_Product
<1>4. /\ Len(s) = Len(result) /\ DOMAIN s = 1 .. Len(result)
      /\ \A i \in DOMAIN s : s[i] = <<Source(result[i]), result[i].nft>>
  BY <1>1
<1>5. IsSeq(s)
  BY <1>1, <1>4 DEF IsSeq
<1> HIDE DEF s
<1>6. \A i \in DOMAIN s : s[i] \in T
  <2>1. SUFFICES ASSUME NEW i \in DOMAIN s PROVE s[i] \in T
    OBVIOUS
  <2>2. Source(result[i]) \in 1 .. 3 /\ result[i].nft \in Nfts /\ s[i] = <<Source(result[i]), result[i].nft>>
    BY <1>1, <1>2, <1>4
  <2>3. QED
    BY <2>2
<1>7. \A i, j \in DOMAIN s : i # j => s[i] # s[j]
  BY <1>1, <1>4 DEF Distinct
<1> HIDE DEF T
<1>8. Len(s) <= Cardinality(T)
  BY <1>3, <1>5, <1>6, <1>7, NoMoreThan
<1>9. QED
  BY <1>3, <1>4, <1>8

\* The state is of its type, and no listing is longer than what there is to
\* list: src/wallet-client.ts:105-186, 330-352, 659-784.
THEOREM SpecTypeOK ==
    Spec => []TypeOK
<1>1. IInv => TypeOK
  <2>1. SUFFICES ASSUME IInv PROVE TypeOK
    OBVIOUS
  <2>2. DOMAIN task = DOMAIN Idle
    BY <2>1 DEF IInv, TaskOk, Idle
  <2>3. task.op = "getNfts" => Len(result) <= 3 * Cardinality(Nfts)
    BY <2>1, ThreeOfEach DEF IInv, NftsOk
  <2>4. task.op = "getCoins" => Len(result) <= Cardinality(Coins)
    <3>1. SUFFICES ASSUME result \in Seq(Coins), Ascending(result)
                   PROVE  Len(result) <= Cardinality(Coins)
      BY <2>1 DEF IInv, GetCoinsOk
    <3>2. /\ IsSeq(result) /\ DOMAIN result = 1 .. Len(result) /\ Len(result) \in Nat
          /\ \A i \in DOMAIN result : result[i] \in Coins
      BY <3>1, SeqIsSeq
    <3>3. \A i \in DOMAIN result : result[i] \in Nat
      BY <3>2, ParametersAssumption
    <3>4. \A i, j \in DOMAIN result : i # j => result[i] # result[j]
      <4>1. SUFFICES ASSUME NEW i \in DOMAIN result, NEW j \in DOMAIN result, i # j
                     PROVE  result[i] # result[j]
        OBVIOUS
      <4>2. i < j \/ j < i
        BY <3>2, <4>1
      <4>3. result[i] < result[j] \/ result[j] < result[i]
        BY <3>1, <4>2 DEF Ascending
      <4>4. QED
        BY <3>3, <4>3
    <3>5. QED
      BY <3>2, <3>4, FiniteAssumption, NoMoreThan
  <2>5. task.op = "importWallet" => Len(result) <= MAX_ACCOUNTS
    <3>1. SUFFICES ASSUME task.op = "importWallet" PROVE Len(result) <= MAX_ACCOUNTS
      OBVIOUS
    <3>2. CASE task.phase = "balances"
      BY <2>1, <3>1, <3>2, ParametersAssumption DEF IInv, ImportOk
    <3>3. CASE task.phase = "returned"
      BY <2>1, <3>1, <3>3, ParametersAssumption DEF IInv, ImportOk, AccountsFound, Returned, At
    <3>4. QED
      BY <2>1, <3>1, <3>2, <3>3 DEF IInv, ImportOk
  <2>6. QED
    BY <2>1, <2>2, <2>3, <2>4, <2>5 DEF IInv, TaskOk, ChainOk, TypeOK
<1>2. QED
  BY <1>1, IInvHolds, PTL

\* The accounts of an imported wallet are numbered without a gap from 0, and
\* all but the first, one that failed and those created later had a balance:
\* src/wallet-client.ts:105-186.
THEOREM SpecAccountsFound ==
    Spec => []AccountsFound
<1>1. IInv => AccountsFound
  BY DEF IInv, ImportOk, AccountsFound, Returned, At
<1>2. QED
  BY <1>1, IInvHolds, PTL

\* The merged history is in order, without repeats, and complete down to where
\* the page that ends later ends: src/wallet-client.ts:388-434.
THEOREM SpecHistoryComplete ==
    Spec => []HistoryComplete
<1>1. IInv => HistoryComplete
  BY DEF IInv, TransactionsOk, HistoryComplete, Returned, At
<1>2. QED
  BY <1>1, IInvHolds, PTL

\* What is in an ascending list is in it once.
LEMMA OnceInAscending ==
    ASSUME NEW s, s \in Seq(Coins), Ascending(s), NEW c \in ToSet(s)
    PROVE  Occurrences(c, s) = 1
<1> DEFINE places == {i \in DOMAIN s : s[i] = c}
<1>1. /\ DOMAIN s = 1 .. Len(s) /\ Len(s) \in Nat
      /\ \A i \in DOMAIN s : s[i] \in Coins
  BY SeqIsSeq
<1>2. Coins \subseteq Nat
  BY ParametersAssumption
<1>3. PICK k \in DOMAIN s : s[k] = c
  BY DEF ToSet
<1>4. ASSUME NEW i \in DOMAIN s, s[i] = c
      PROVE  i = k
  <2>1. s[i] = s[k] /\ s[i] \in Nat
    BY <1>1, <1>2, <1>3, <1>4
  <2>2. \A m \in Nat : ~ (m < m)
    OBVIOUS
  <2>3. ~ (i < k) /\ ~ (k < i)
    BY <2>1, <2>2 DEF Ascending
  <2>4. QED
    BY <1>1, <2>3
<1>5. places = {k}
  BY <1>3, <1>4
<1> HIDE DEF places
<1>6. Cardinality(places) = 1
  BY <1>5, FS_Singleton
<1>7. QED
  BY <1>6 DEF places, Occurrences

\* What is known of an NFT with display data that stays where it is, in a listing
\* that is complete.
LEMMA NftListedOnce ==
    ASSUME NEW there \in Places, NEW n \in Displayed,
           result \in Seq(Entries), Distinct(result),
           InWallet(n) \in ToSet(result) <=> there = "wallet",
           InObKiosk(n) \in ToSet(result) <=> there \in ObKiosks,
           \A k \in SuiKiosks : InSuiKiosk(n, k) \in ToSet(result) <=> there = k
    PROVE  /\ Cardinality(ListedAs(n)) = IF there # "elsewhere" THEN 1 ELSE 0
           /\ \A i \in ListedAs(n) :
                \/ there = "wallet" /\ result[i].type = "nft"
                \/ there \in ObKiosks /\ result[i].kiosk = "ob"
                \/ there \in SuiKiosks /\ result[i].kiosk = there
<1> DEFINE places == {i \in DOMAIN result : result[i].nft = n}
<1>1. \A i \in DOMAIN result : result[i] \in Entries
  BY SeqIsSeq
<1>2. ASSUME NEW e \in Entries, e.nft = n
      PROVE  e = InWallet(n) \/ e = InObKiosk(n) \/ \E k \in SuiKiosks : e = InSuiKiosk(n, k)
  <2>1. CASE e \in [nft : Displayed, type : {"nft"}, kiosk : {None}]
    <3>1. e = [nft |-> n, type |-> "nft", kiosk |-> None]
      BY <1>2, <2>1
    <3>2. QED
      BY <3>1 DEF InWallet, Listed
  <2>2. CASE e \in [nft : Displayed, type : {"kiosk-nft"}, kiosk : {"ob"} \cup SuiKiosks]
    <3>1. e = [nft |-> n, type |-> "kiosk-nft", kiosk |-> e.kiosk] /\ e.kiosk \in {"ob"} \cup SuiKiosks
      BY <1>2, <2>2
    <3>2. QED
      BY <3>1 DEF InObKiosk, InSuiKiosk, Listed
  <2>3. QED
    BY <2>1, <2>2 DEF Entries
<1>3. /\ "wallet" \notin ObKiosks \cup SuiKiosks /\ "elsewhere" \notin ObKiosks \cup SuiKiosks
      /\ ObKiosks \cap SuiKiosks = {} /\ "wallet" # "elsewhere"
  BY ParametersAssumption
<1>4. ASSUME NEW i \in places
      PROVE  \/ there = "wallet" /\ result[i] = InWallet(n)
             \/ there \in ObKiosks /\ result[i] = InObKiosk(n)
             \/ \E k \in SuiKiosks : there = k /\ result[i] = InSuiKiosk(n, k)
  <2>1. result[i] \in Entries /\ result[i].nft = n /\ result[i] \in ToSet(result)
    BY <1>1 DEF ToSet
  <2>2. QED
    BY <1>2, <2>1
<1>5. \A i, j \in places : i = j
  <2>1. SUFFICES ASSUME NEW i \in places, NEW j \in places PROVE i = j
    OBVIOUS
  <2>2. result[i] = result[j]
    BY <1>3, <1>4
  <2>3. QED
    BY <2>2 DEF Distinct
<1>6. ListedAs(n) = places
  BY DEF ListedAs
<1>7. InWallet(n).type = "nft" /\ InObKiosk(n).kiosk = "ob" /\ \A k \in SuiKiosks : InSuiKiosk(n, k).kiosk = k
  BY EntryOf DEF InWallet, InObKiosk, Listed
<1>8. \A i \in places : \/ there = "wallet" /\ result[i].type = "nft"
                        \/ there \in ObKiosks /\ result[i].kiosk = "ob"
                        \/ there \in SuiKiosks /\ result[i].kiosk = there
  <2> HIDE DEF places
  <2>1. QED
    BY <1>4, <1>7
<1>9. CASE there = "elsewhere"
  <2>1. places = {}
    BY <1>3, <1>4, <1>9
  <2> HIDE DEF places
  <2>2. Cardinality(places) = 0
    BY <2>1, FS_EmptySet
  <2>3. QED
    BY <1>6, <1>8, <1>9, <2>2
<1>10. CASE there # "elsewhere"
  <2>1. there = "wallet" \/ there \in ObKiosks \/ there \in SuiKiosks
    BY <1>10 DEF Places
  <2>2. \E e \in ToSet(result) : e.nft = n
    <3>1. CASE there \in SuiKiosks
      BY <3>1, EntryOf
    <3>2. CASE there = "wallet" \/ there \in ObKiosks
      BY <3>2, EntryOfWallet
    <3>3. QED
      BY <2>1, <3>1, <3>2
  <2>3. PICK i \in DOMAIN result : result[i].nft = n
    BY <2>2 DEF ToSet
  <2>4. places = {i}
    BY <1>5, <2>3
  <2> HIDE DEF places
  <2>5. Cardinality(places) = 1
    BY <2>4, FS_Singleton
  <2>6. QED
    BY <1>6, <1>8, <1>10, <2>5
<1>11. QED
  BY <1>9, <1>10

\* A coin that stays while coins are listed, and that no failure and no unread
\* page spared, is listed exactly once, in whatever order the answers come and
\* whatever else comes or goes; and so is a validator whose stake lasts, with that
\* stake: src/wallet-client.ts:276-352, 803-837.
THEOREM SpecLastingListedOnce ==
    Spec => []LastingListedOnce
<1>1. IInv => LastingListedOnce
  <2>1. SUFFICES ASSUME IInv PROVE LastingListedOnce
    OBVIOUS
  <2>2. \A op \in {"getCoins", "getCustomCoins"} : Returned(op) =>
            \A c \in (coins \ changed) \ spared : Occurrences(c, result) = 1
    <3>1. SUFFICES ASSUME NEW op \in {"getCoins", "getCustomCoins"}, Returned(op),
                          NEW c \in (coins \ changed) \ spared
                   PROVE  Occurrences(c, result) = 1
      OBVIOUS
    <3>2. /\ result \in Seq(Coins) /\ Ascending(result)
          /\ coins \ changed \subseteq ToSet(result) \cup spared
      BY <2>1, <3>1 DEF IInv, GetCoinsOk, CustomCoinsOk, Returned, At
    <3>3. QED
      BY <3>2, OnceInAscending
  <2>3. Returned("getValidatorsList") =>
            /\ \A v \in Active \ changed :
                Cardinality({i \in DOMAIN result :
                    result[i].validator = v /\ result[i].share[1] = stakes[v]}) = 1
            /\ changed = {} =>
                \A i \in DOMAIN result :
                    /\ result[i].hasApy
                    /\ result[i].share[2] = {<<r.share[1], r.validator>> : r \in ToSet(result)}
    BY <2>1 DEF IInv, ValidatorsOk, Returned, At
  <2>4. QED
    BY <2>2, <2>3 DEF LastingListedOnce
<1>2. QED
  BY <1>1, IInvHolds, PTL

\* getNfts lists exactly once, and with the kiosk it is in, each NFT with display
\* data that stays on the page of the wallet or in a kiosk; what it leaves out
\* without a word is in a kiosk, beyond a first page: src/wallet-client.ts:501-784.
THEOREM SpecNftsListed ==
    Spec => []NftsListed
<1>1. IInv => NftsListed
  <2>1. SUFFICES ASSUME IInv, Returned("getNfts"), NEW n \in Nfts \ changed
                 PROVE  IF n \in spared
                        THEN place[n] \in ObKiosks \cup SuiKiosks
                        ELSE /\ Cardinality(ListedAs(n)) =
                                    IF n \in Displayed /\ Found[n] # "elsewhere" THEN 1 ELSE 0
                             /\ \A i \in ListedAs(n) :
                                    CASE place[n] = "wallet" -> result[i].type = "nft"
                                      [] place[n] \in ObKiosks -> result[i].kiosk = "ob"
                                      [] OTHER -> result[i].kiosk = place[n]
    BY DEF NftsListed
  <2>2. /\ result \in Seq(Entries) /\ Distinct(result) /\ place \in [Nfts -> Places]
        /\ n \in spared => place[n] \in ObKiosks \cup SuiKiosks
    BY <2>1 DEF IInv, NftsOk, ChainOk, Returned, At
  <2>3. CASE n \in spared
    BY <2>2, <2>3
  <2>4. CASE n \notin spared /\ n \notin Displayed
    <3>1. \A i \in DOMAIN result : result[i].nft # n
      BY <2>2, <2>4, SeqIsSeq DEF Entries
    <3>2. ListedAs(n) = {}
      BY <3>1 DEF ListedAs
    <3>3. QED
      BY <2>4, <3>2, FS_EmptySet
  <2>5. CASE n \notin spared /\ n \in Displayed
    <3>1. n \in Lasting \cap Displayed
      BY <2>1, <2>5 DEF Lasting
    <3>2. /\ InWallet(n) \in ToSet(result) <=> Found[n] = "wallet"
          /\ InObKiosk(n) \in ToSet(result) <=> Found[n] \in ObKiosks
          /\ \A k \in SuiKiosks : InSuiKiosk(n, k) \in ToSet(result) <=> Found[n] = k
      BY <2>1, <3>1 DEF IInv, NftsOk, Returned, At
    <3>3. /\ Found[n] \in Places
          /\ Found[n] = "wallet" => place[n] = "wallet"
          /\ Found[n] \in ObKiosks \cup SuiKiosks => place[n] = Found[n]
      BY <2>1, <2>2, FoundWhere
    <3> DEFINE there == Found[n]
    <3> HIDE DEF there
    <3>4. /\ there \in Places
          /\ InWallet(n) \in ToSet(result) <=> there = "wallet"
          /\ InObKiosk(n) \in ToSet(result) <=> there \in ObKiosks
          /\ \A k \in SuiKiosks : InSuiKiosk(n, k) \in ToSet(result) <=> there = k
      BY <3>2, <3>3 DEF there
    <3>5. /\ Cardinality(ListedAs(n)) = IF there # "elsewhere" THEN 1 ELSE 0
          /\ \A i \in ListedAs(n) :
                \/ there = "wallet" /\ result[i].type = "nft"
                \/ there \in ObKiosks /\ result[i].kiosk = "ob"
                \/ there \in SuiKiosks /\ result[i].kiosk = there
      BY <2>2, <2>5, <3>4, NftListedOnce
    <3>6. \A i \in ListedAs(n) :
            CASE place[n] = "wallet" -> result[i].type = "nft"
              [] place[n] \in ObKiosks -> result[i].kiosk = "ob"
              [] OTHER -> result[i].kiosk = place[n]
      <4>1. SUFFICES ASSUME NEW i \in ListedAs(n)
                     PROVE  CASE place[n] = "wallet" -> result[i].type = "nft"
                              [] place[n] \in ObKiosks -> result[i].kiosk = "ob"
                              [] OTHER -> result[i].kiosk = place[n]
        OBVIOUS
      <4>2. "wallet" \notin ObKiosks \cup SuiKiosks /\ ObKiosks \cap SuiKiosks = {}
        BY ParametersAssumption
      <4>3. CASE there = "wallet" /\ result[i].type = "nft"
        <5>1. place[n] = "wallet" /\ place[n] \notin ObKiosks
          BY <3>3, <4>2, <4>3 DEF there
        <5>2. QED
          BY <4>3, <5>1
      <4>4. CASE there \in ObKiosks /\ result[i].kiosk = "ob"
        <5>1. place[n] # "wallet" /\ place[n] \in ObKiosks
          BY <3>3, <4>2, <4>4 DEF there
        <5>2. QED
          BY <4>4, <5>1
      <4>5. CASE there \in SuiKiosks /\ result[i].kiosk = there
        <5>1. place[n] # "wallet" /\ place[n] \notin ObKiosks /\ result[i].kiosk = place[n]
          BY <3>3, <4>2, <4>5 DEF there
        <5>2. QED
          BY <5>1
      <4>6. QED
        BY <3>5, <4>3, <4>4, <4>5
    <3>7. QED
      BY <2>5, <3>5, <3>6 DEF there
  <2>6. QED
    BY <2>3, <2>4, <2>5
<1>2. QED
  BY <1>1, IInvHolds, PTL

\* getNftsById returns the ids of its kind, in the order asked, each with its own
\* bag but for what the bag's page left out: src/nft-client.ts:167-236.
THEOREM SpecNftsById ==
    Spec => []NftsById
<1>1. IInv => NftsById
  BY DEF IInv, NftsByIdOk, NftsById, Returned, At
<1>2. QED
  BY <1>1, IInvHolds, PTL
=============================================================================
