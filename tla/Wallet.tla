-------------------------------- MODULE Wallet --------------------------------
(***************************************************************************)
(* The reads of src/wallet-client.ts and src/nft-client.ts that take more   *)
(* than one request: discovering accounts, fetching all coins, coins with   *)
(* their metadata, NFTs in the wallet and in kiosks, NFTs with their bags,  *)
(* the validators with their shares of the stake, and the merged history of *)
(* an address. Each answer is one step, answers to requests made together   *)
(* (Promise.all) come in any order, and the chain may change between any    *)
(* two of them.                                                             *)
(*                                                                         *)
(* One operation runs in a behaviour: operations share nothing but the      *)
(* chain. It starts on any chain state of the part it reads.                *)
(***************************************************************************)
EXTENDS Integers, FiniteSets, SequencesExt, Ranks

CONSTANTS
    MAX_ACCOUNTS,   \* 20 in the code
    Coins,          \* coin ids, numbers in the order the node lists them
    SuiCoins,       \* those of them that are SUI
    PageSize,       \* bound: what a page holds (MAX_COINS_PER_REQUEST, or the node's own limit)
    Nfts,           \* objects, numbers in the order the node lists a wallet
    Displayed,      \* those of them that have display data
    Recognised,     \* those of them whose type is NftClient's
    ObKiosks,       \* OriginByte kiosks of the owner
    SuiKiosks,      \* Sui kiosks of the owner
    Validators,     \* validators, active when they have stake
    MaxStake,       \* bound: stake of a validator
    MaxHistory,     \* bound: transactions of the address
    Limit,          \* transactions per query
    MaxChanges,     \* bound: changes of the chain while an operation runs
    None

ASSUME ParametersAssumption ==
    /\ MAX_ACCOUNTS \in Nat \ {0} /\ PageSize \in Nat \ {0} /\ Limit \in Nat \ {0}
    /\ MaxStake \in Nat \ {0} /\ MaxHistory \in Nat
    /\ Coins \subseteq Nat \ {0} /\ SuiCoins \subseteq Coins
    /\ Nfts \subseteq Nat \ {0} /\ Displayed \subseteq Nfts /\ Recognised \subseteq Nfts
    /\ ObKiosks \cap SuiKiosks = {}
    /\ {"wallet", "elsewhere", "ob"} \cap (ObKiosks \cup SuiKiosks) = {}

ASSUME FiniteAssumption ==
    /\ IsFiniteSet(Coins) /\ IsFiniteSet(Nfts) /\ IsFiniteSet(Validators)
    /\ IsFiniteSet(ObKiosks) /\ IsFiniteSet(SuiKiosks)

VARIABLES
    task,      \* the operation and how far it is
    result,    \* what it has pushed so far, its result once it has returned
    spared,    \* what it left out and does not report: after a failure, or beyond
               \* a page whose next cursor it ignores
    used,      \* accounts that have a balance
    coins,     \* coins of the owner
    place,     \* where each NFT is: "wallet", a kiosk or "elsewhere"
    history,   \* transactions of the address, oldest first: [side, time]
    stakes,    \* the stake of each validator
    changed,   \* coins, NFTs and validators that moved since the operation started
    changes    \* number of changes since then

chain == <<used, coins, place, history, stakes, changed, changes>>

vars == <<task, result, spared, chain>>

Places == {"wallet", "elsewhere"} \cup ObKiosks \cup SuiKiosks

Sides == {"to", "from", "both"}

(* pending: requests not answered; read: what answers gave, in a list;
   gathered: what they gave, in no order; cursor: the cursor to ask with;
   next: the next cursor it reports, 0 when there is no next page. *)
Idle ==
    [op |-> "none", phase |-> "start", pending |-> {}, read |-> << >>, gathered |-> {},
     cursor |-> 0, next |-> 0]

Running == task.op # "none" /\ task.phase \notin {"returned", "threw"}

Init ==
    /\ task = Idle
    /\ result = << >>
    /\ spared = {}
    /\ used = {}
    /\ coins = {}
    /\ place = [n \in Nfts |-> "elsewhere"]
    /\ history = << >>
    /\ stakes = [v \in Validators |-> 0]
    /\ changed = {}
    /\ changes = 0

Begin(op, phase) == task = Idle /\ task' = [Idle EXCEPT !.op = op, !.phase = phase]

At(op, phase) == task.op = op /\ task.phase = phase

Return == task' = [task EXCEPT !.phase = "returned", !.pending = {}]

(* A request fails where nothing catches it: the operation rejects, and what
   it had read is lost. *)
Throw == task' = [task EXCEPT !.phase = "threw", !.pending = {}]

RequestFails ==
    /\ Running
    /\ task.op # "importWallet" /\ task.phase # "coinMetadata"
    /\ Throw
    /\ UNCHANGED <<result, spared, chain>>

-----------------------------------------------------------------------------
(* importWallet: balances of one derived account after the other *)

StartImport ==
    /\ Begin("importWallet", "balances")
    /\ used' \in SUBSET (0 .. MAX_ACCOUNTS - 1)
    /\ UNCHANGED <<result, spared, coins, place, history, stakes, changed, changes>>

(* Mutant: the first account is treated like the others. *)
MutKeepsAccount(i, balances) == balances # {}

KeepsAccount(i, balances) == balances # {} \/ i = 0

BalancesAnswered ==
    LET i == task.cursor
        balances == used \cap {i}
    IN  /\ At("importWallet", "balances")
        /\ IF KeepsAccount(i, balances)
           THEN /\ result' = Append(result, i)
                /\ IF i + 1 < MAX_ACCOUNTS THEN task' = [task EXCEPT !.cursor = i + 1] ELSE Return
           ELSE Return /\ UNCHANGED result
        /\ UNCHANGED <<spared, chain>>

(* The failure ends the search, and the account is taken without an answer. *)
BalancesFail ==
    /\ At("importWallet", "balances")
    /\ result' = Append(result, task.cursor)
    /\ spared' = {task.cursor}
    /\ Return
    /\ UNCHANGED chain

(* createNewAccount with the index after the last. *)
CreateNewAccount ==
    /\ At("importWallet", "returned")
    /\ Len(result) < MAX_ACCOUNTS
    /\ result' = Append(result, Len(result))
    /\ spared' = spared \cup {Len(result)}
    /\ UNCHANGED <<task, chain>>

-----------------------------------------------------------------------------
(* getCoins and getCustomCoins *)

Least(m, n) == IF m < n THEN m ELSE n

(* The page of this size of what comes after the cursor. *)
Page(all, after, size) ==
    LET rest == {x \in all : x > after}
    IN  [k \in 1 .. Least(Cardinality(rest), size) |-> Nth(rest, k)]

StartCoins(op, phase) ==
    /\ Begin(op, phase)
    /\ coins' \in SUBSET Coins
    /\ UNCHANGED <<result, spared, used, place, history, stakes, changed, changes>>

(* Mutant: the next page is asked for from the first coin of this one. *)
MutNextCursors(page) == {page[1]}

(* The node's next cursor for a page; at the end it may be null or not. *)
NextCursors(page) ==
    LET last == page[Len(page)]
    IN  {last} \cup (IF \E c \in coins : c > last THEN {} ELSE {0})

CoinsAnswered ==
    LET page == Page(coins, task.cursor, PageSize)
    IN  /\ At("getCoins", "coins")
        /\ result' = result \o page
        /\ IF page = << >>
           THEN Return
           ELSE \E cursor \in NextCursors(page) :
                    IF cursor = 0 THEN Return ELSE task' = [task EXCEPT !.cursor = cursor]
        /\ UNCHANGED <<spared, chain>>

(* An empty page with a cursor, before the end: the loop breaks all the same. *)
EmptyPageAnswered ==
    /\ At("getCoins", "coins")
    /\ Page(coins, task.cursor, PageSize) # << >>
    /\ spared' = {c \in coins : c > task.cursor}
    /\ Return
    /\ UNCHANGED <<result, chain>>

(* getCustomCoins reads one page of all coins, then all metadata at once. *)
AllCoinsAnswered ==
    LET page == Page(coins, 0, PageSize)
    IN  /\ At("getCustomCoins", "coins")
        /\ IF page = << >>
           THEN Return
           ELSE task' = [task EXCEPT !.phase = "coinMetadata", !.read = page, !.pending = ToSet(page)]
        /\ spared' = {c \in coins : c \notin ToSet(page)}
        /\ UNCHANGED <<result, chain>>

(* A coin whose metadata cannot be had is dropped, unless it is SUI. *)
Dropped(c) == c \notin SuiCoins

MetadataDone(c, left) ==
    /\ c \in task.pending
    /\ spared' = left
    /\ IF task.pending = {c}
       THEN /\ Return
            /\ result' = ItemsAt(task.read, {i \in DOMAIN task.read : task.read[i] \notin left})
       ELSE task' = [task EXCEPT !.pending = @ \ {c}] /\ UNCHANGED result
    /\ UNCHANGED chain

CoinMetadataAnswered(c) == At("getCustomCoins", "coinMetadata") /\ MetadataDone(c, spared)

CoinMetadataFails(c) ==
    /\ At("getCustomCoins", "coinMetadata")
    /\ MetadataDone(c, IF Dropped(c) THEN spared \cup {c} ELSE spared)

-----------------------------------------------------------------------------
(* getNfts: wallet, OriginByte kiosks, metadata, Sui kiosks *)

Listed(n, kind, kiosk) == [nft |-> n, type |-> kind, kiosk |-> kiosk]

(* What was read is kept as <<kiosk, nft>>, the wallet's as from "wallet". *)
Reads(where, items) == [i \in DOMAIN items |-> <<where, items[i]>>]

Nft(read) == read[2]

HasDuplicates(reads) == \E i, j \in DOMAIN reads : i # j /\ Nft(reads[i]) = Nft(reads[j])

(* Objects without display data are filtered out. *)
Shown(reads) == ItemsAt(reads, {i \in DOMAIN reads : Nft(reads[i]) \in Displayed})

WalletReads(reads) ==
    Shown(ItemsAt(reads, {i \in DOMAIN reads : reads[i][1] = "wallet"}))

KioskReads(reads) == ItemsAt(reads, {i \in DOMAIN reads : reads[i][1] # "wallet"})

In(where) == {n \in Nfts : place[n] = where}

(* The first page of a list that is in an order of the node's own; the node may
   put fewer on it than the limit. *)
OnePage(all) == {page \in SUBSET all : Cardinality(page) <= PageSize /\ (page = {} => all = {})}

(* The next cursor getNfts hands on, unless hasNextPage is false. *)
NextCursor(all, page) ==
    IF page # << >> /\ \E n \in all : n > page[Len(page)] THEN page[Len(page)] ELSE 0

StartNfts ==
    /\ task = Idle
    /\ \E after \in {0} \cup Nfts :
        task' = [Idle EXCEPT !.op = "getNfts", !.phase = "wallet", !.cursor = after]
    /\ place' \in [Nfts -> Places]
    /\ UNCHANGED <<result, spared, used, coins, history, stakes, changed, changes>>

(* One page of the wallet, of the caller's limit or the node's. *)
WalletAnswered ==
    /\ At("getNfts", "wallet")
    /\ \E size \in 1 .. PageSize :
        LET page == Page(In("wallet"), task.cursor, size)
        IN  task' = [task EXCEPT !.phase = "obTokens", !.read = Reads("wallet", page),
                                 !.next = NextCursor(In("wallet"), page)]
    /\ UNCHANGED <<result, spared, chain>>

(* shouldFetchKioskContents = false: obKioskContents stays undefined, and
   reading its kioskContent throws. *)
WalletAnsweredOnly ==
    /\ At("getNfts", "wallet")
    /\ Throw
    /\ UNCHANGED <<result, spared, chain>>

(* One page of the owner's kiosks: what is in the others is not asked for. *)
KiosksAnswered(kiosks, phase) ==
    \E page \in OnePage(kiosks) :
        /\ task' = [task EXCEPT !.phase = phase, !.pending = page]
        /\ spared' = spared \cup {n \in Nfts : place[n] \in kiosks \ page}

(* One page of the dynamic fields of a kiosk, nextCursor and hasNextPage unread. *)
KioskAnswered(kiosk) ==
    \E page \in OnePage(In(kiosk)) :
        /\ task' = [task EXCEPT !.pending = @ \ {kiosk}, !.read = @ \o Reads(kiosk, SetToSeq(page))]
        /\ spared' = spared \cup (In(kiosk) \ page)

ObTokensAnswered ==
    /\ At("getNfts", "obTokens")
    /\ KiosksAnswered(ObKiosks, "obKiosks")
    /\ UNCHANGED <<result, chain>>

ObKioskAnswered(kiosk) ==
    /\ At("getNfts", "obKiosks") /\ kiosk \in task.pending
    /\ KioskAnswered(kiosk)
    /\ UNCHANGED <<result, chain>>

ListedFromObKiosks ==
    LET shown == Shown(KioskReads(task.read))
    IN  [i \in DOMAIN shown |-> Listed(Nft(shown[i]), "kiosk-nft", "ob")]

(* With the wallet listed, the OriginByte kiosks follow and the Sui kiosks are
   asked for. *)
ToSuiKiosks(listed) ==
    /\ result' = listed \o ListedFromObKiosks
    /\ task' = [task EXCEPT !.phase = "suiCaps", !.pending = {}, !.read = << >>]

(* multiGetObjects of all items: throws when one was read in two kiosks. *)
ObContentsAnswered ==
    /\ At("getNfts", "obKiosks") /\ task.pending = {}
    /\ IF HasDuplicates(KioskReads(task.read))
       THEN Throw /\ UNCHANGED result
       ELSE IF WalletReads(task.read) = << >>
       THEN ToSuiKiosks(<< >>)
       ELSE /\ task' = [task EXCEPT !.phase = "nftMetadata",
                                    !.pending = {Nft(r) : r \in ToSet(WalletReads(task.read))}]
            /\ UNCHANGED result
    /\ UNCHANGED <<spared, chain>>

(* With its metadata or, when getNftMetadata gives null (the object is gone
   by now or shows no image), with what the first read displayed. *)
WithMetadata(n, kind) == <<Listed(n, kind, None)>>

(* Pushed in the order the answers come in. *)
NftMetadataAnswered(n) ==
    LET listed == result \o WithMetadata(n, "nft")
    IN  /\ At("getNfts", "nftMetadata") /\ n \in task.pending
        /\ IF task.pending = {n}
           THEN ToSuiKiosks(listed)
           ELSE result' = listed /\ task' = [task EXCEPT !.pending = @ \ {n}]
        /\ UNCHANGED <<spared, chain>>

(* getOwnedKiosks reads one page of owner caps. *)
SuiCapsAnswered ==
    /\ At("getNfts", "suiCaps")
    /\ KiosksAnswered(SuiKiosks, "suiKiosks")
    /\ UNCHANGED <<result, chain>>

SuiKioskAnswered(kiosk) ==
    /\ At("getNfts", "suiKiosks") /\ kiosk \in task.pending
    /\ KioskAnswered(kiosk)
    /\ UNCHANGED <<result, chain>>

(* Mutant: kiosk and item are matched by position, not by itemIds. *)
MutKioskOf(reads, i) == reads[1][1]

(* The kiosk whose itemIds include the object. *)
KioskOf(reads, i) == reads[i][1]

ListedFromSuiKiosks ==
    LET shown == Shown(task.read)
    IN  [i \in DOMAIN shown |-> Listed(Nft(shown[i]), "kiosk-nft", KioskOf(shown, i))]

SuiContentsAnswered ==
    /\ At("getNfts", "suiKiosks") /\ task.pending = {}
    /\ IF HasDuplicates(task.read)
       THEN Throw /\ UNCHANGED result
       ELSE /\ Return
            /\ result' = result \o ListedFromSuiKiosks
    /\ UNCHANGED <<spared, chain>>

-----------------------------------------------------------------------------
(* NftClient.getNftsById: the objects, then all their bags at once *)

StartNftsById ==
    /\ \E ids \in UNION {[1 .. n -> Nfts] : n \in 0 .. Cardinality(Nfts)} :
        /\ task = Idle
        /\ task' = [Idle EXCEPT !.op = "getNftsById", !.phase = "objects", !.read = ids]
    /\ UNCHANGED <<result, spared, chain>>

(* parseObjects drops what is not of the type it knows. *)
Parsed(ids) == ItemsAt(ids, {i \in DOMAIN ids : ids[i] \in Recognised})

(* multiGetObjects throws on a repeated id; without ids nothing is asked, and
   without NFTs no bag. *)
ObjectsAnswered ==
    /\ At("getNftsById", "objects")
    /\ CASE task.read # << >> /\ ~ IsInjective(task.read) -> Throw
         [] task.read = << >> \/ (IsInjective(task.read) /\ Parsed(task.read) = << >>) -> Return
         [] OTHER -> task' = [task EXCEPT !.phase = "bags", !.pending = ToSet(Parsed(task.read))]
    /\ UNCHANGED <<result, spared, chain>>

(* A bag holds the NFT's url and its name with its description. *)
Bag(n) == {n} \X {"url", "display"}

(* Mutant: the fields of all bags are taken for each. *)
MutFieldsOf(n, bags) == bags

FieldsOf(n, bags) == {field \in bags : field[1] = n}

(* One page of a bag. The answers come in any order; the list keeps the order
   of the ids, and each NFT gets its fields by its id. *)
BagAnswered(n) ==
    /\ At("getNftsById", "bags") /\ n \in task.pending
    /\ \E page \in OnePage(Bag(n)) :
        LET nfts == Parsed(task.read)
            bags == task.gathered \cup page
        IN  /\ spared' = spared \cup (Bag(n) \ page)
            /\ task' = [task EXCEPT !.gathered = bags, !.pending = @ \ {n},
                                    !.phase = IF task.pending = {n} THEN "returned" ELSE @]
            /\ result' = IF task.pending = {n}
                         THEN [i \in DOMAIN nfts |-> [nft |-> nfts[i], fields |-> FieldsOf(nfts[i], bags)]]
                         ELSE result
    /\ UNCHANGED chain

-----------------------------------------------------------------------------
(* getValidatorsList: the system state, the system state once more for the
   total stake, and the APYs *)

Active == {v \in Validators : stakes[v] > 0}

StartValidators ==
    /\ Begin("getValidatorsList", "systemState")
    /\ stakes' \in {s \in [Validators -> 0 .. MaxStake] : \E v \in Validators : s[v] > 0}
    /\ UNCHANGED <<result, spared, used, coins, place, history, changed, changes>>

(* Kept as reads <<stake, validator>>, in the order the node lists them. *)
SystemStateAnswered ==
    LET listed == SetToSeq(Active)
    IN  /\ At("getValidatorsList", "systemState")
        /\ task' = [task EXCEPT !.phase = "totalStake",
                                !.read = [i \in DOMAIN listed |-> <<stakes[listed[i]], listed[i]>>]]
        /\ UNCHANGED <<result, spared, chain>>

(* getTotalStake asks for the system state itself.  A sum is kept as what was
   added up. *)
Total == {<<stakes[v], v>> : v \in Active}

TotalStakeAnswered ==
    /\ At("getValidatorsList", "totalStake")
    /\ task' = [task EXCEPT !.phase = "apys", !.gathered = Total]
    /\ UNCHANGED <<result, spared, chain>>

(* A share of the stake is kept as its numerator and denominator; a validator
   without an APY in the third answer is given 0. *)
Summary(read, total) ==
    [validator |-> read[2], share |-> <<read[1], total>>, hasApy |-> read[2] \in Active]

(* By share, and the ascending order reversed unless it is asked for. *)
LessShare(reads) ==
    {p \in (DOMAIN reads) \X (DOMAIN reads) :
        LET i == p[1] j == p[2]
        IN  reads[i][1] < reads[j][1] \/ (reads[i][1] = reads[j][1] /\ i < j)}

ByShare(reads) ==
    LET ascending == SortedBy(LessShare(reads), DOMAIN reads)
    IN  Reverse([k \in DOMAIN ascending |-> reads[ascending[k]]])

ApysAnswered ==
    LET sorted == ByShare(task.read)
    IN  /\ At("getValidatorsList", "apys")
        /\ result' = [i \in DOMAIN sorted |-> Summary(sorted[i], task.gathered)]
        /\ Return
        /\ UNCHANGED <<spared, chain>>

-----------------------------------------------------------------------------
(* getTransactions: two queries at once, merged *)

InTimeOrder(txs) == \A i, j \in DOMAIN txs : i < j => txs[i].time <= txs[j].time

StartTransactions ==
    /\ Begin("getTransactions", "queries")
    /\ history' \in {h \in UNION {[1 .. n -> [side : Sides, time : {1, 2}]] : n \in 0 .. MaxHistory - 1} :
                        InTimeOrder(h)}
    /\ UNCHANGED <<result, spared, used, coins, place, stakes, changed, changes>>

(* One page of the address's transactions on that side, newest first, as
   indices into the history. *)
QueryPage(side) ==
    LET matching == {i \in DOMAIN history : history[i].side \in {side, "both"}}
        all == Cardinality(matching)
    IN  [k \in 1 .. Least(all, Limit) |-> Nth(matching, all + 1 - k)]

(* Sorted by time, newest first, ties in the order they come in. *)
Newer(txs) ==
    {p \in (DOMAIN txs) \X (DOMAIN txs) :
        LET i == p[1] j == p[2]
        IN  \/ history[txs[i]].time > history[txs[j]].time
            \/ history[txs[i]].time = history[txs[j]].time /\ i < j}

ByTime(txs) ==
    LET order == SortedBy(Newer(txs), DOMAIN txs)
    IN  [k \in DOMAIN order |-> txs[order[k]]]

(* Mutant: what both queries returned stays in twice. *)
MutUnique(txs) == txs

(* Each where it comes first. *)
Unique(txs) == ItemsAt(txs, {i \in DOMAIN txs : \A j \in DOMAIN txs : j < i => txs[j] # txs[i]})

(* task.read holds <<side, page>> pairs in the order of the answers; the
   ToAddress page is put first whichever came first. *)
PageOf(side, reads) ==
    LET i == CHOOSE i \in DOMAIN reads : reads[i][1] = side IN reads[i][2]

QueryAnswered(side) ==
    /\ At("getTransactions", "queries")
    /\ side \in {"to", "from"} \ {r[1] : r \in ToSet(task.read)}
    /\ LET reads == Append(task.read, <<side, QueryPage(side)>>)
       IN  IF Len(reads) = 2
           THEN /\ result' = Unique(ByTime(PageOf("to", reads) \o PageOf("from", reads)))
                /\ task' = [task EXCEPT !.phase = "returned", !.read = reads]
           ELSE task' = [task EXCEPT !.read = reads] /\ UNCHANGED result
    /\ UNCHANGED <<spared, chain>>

-----------------------------------------------------------------------------
(* The chain, while the operation that reads it runs *)

Change == Running /\ changes < MaxChanges /\ changes' = changes + 1 /\ UNCHANGED <<task, result, spared>>

UseAccount(i) ==
    /\ Change
    /\ task.op = "importWallet"
    /\ used' = used \cup {i}
    /\ UNCHANGED <<coins, place, history, stakes, changed>>

CoinComesOrGoes(c) ==
    /\ Change
    /\ task.op \in {"getCoins", "getCustomCoins"}
    /\ coins' = IF c \in coins THEN coins \ {c} ELSE coins \cup {c}
    /\ changed' = changed \cup {c}
    /\ UNCHANGED <<used, place, history, stakes>>

NftMoves(n, to) ==
    /\ Change
    /\ task.op = "getNfts"
    /\ place' = [place EXCEPT ![n] = to]
    /\ changed' = changed \cup {n}
    /\ UNCHANGED <<used, coins, history, stakes>>

(* The next epoch: some validators leave, join, gain or lose stake. *)
EpochChange(newStakes) ==
    /\ Change
    /\ task.op = "getValidatorsList"
    /\ newStakes # stakes /\ \E v \in Validators : newStakes[v] > 0
    /\ stakes' = newStakes
    /\ changed' = changed \cup {v \in Validators : newStakes[v] # stakes[v]}
    /\ UNCHANGED <<used, coins, place, history>>

NewTransaction(side, later) ==
    /\ Change
    /\ task.op = "getTransactions"
    /\ Len(history) < MaxHistory
    /\ LET last == IF history = << >> THEN 1 ELSE history[Len(history)].time
       IN  history' = Append(history, [side |-> side, time |-> last + later])
    /\ changed' = changed \cup {Len(history) + 1}
    /\ UNCHANGED <<used, coins, place, stakes>>

Next ==
    \/ StartImport \/ BalancesAnswered \/ BalancesFail \/ CreateNewAccount
    \/ StartCoins("getCoins", "coins") \/ CoinsAnswered \/ EmptyPageAnswered
    \/ StartCoins("getCustomCoins", "coins") \/ AllCoinsAnswered
    \/ \E c \in Coins : CoinMetadataAnswered(c) \/ CoinMetadataFails(c) \/ CoinComesOrGoes(c)
    \/ StartNfts \/ WalletAnswered \/ WalletAnsweredOnly \/ ObTokensAnswered
    \/ \E kiosk \in ObKiosks : ObKioskAnswered(kiosk)
    \/ ObContentsAnswered \/ SuiCapsAnswered
    \/ \E n \in Nfts : NftMetadataAnswered(n) \/ BagAnswered(n)
    \/ \E kiosk \in SuiKiosks : SuiKioskAnswered(kiosk)
    \/ SuiContentsAnswered
    \/ StartNftsById \/ ObjectsAnswered
    \/ StartValidators \/ SystemStateAnswered \/ TotalStakeAnswered \/ ApysAnswered
    \/ StartTransactions \/ \E side \in {"to", "from"} : QueryAnswered(side)
    \/ RequestFails
    \/ \E i \in 0 .. MAX_ACCOUNTS - 1 : UseAccount(i)
    \/ \E n \in Nfts, to \in Places : NftMoves(n, to)
    \/ \E newStakes \in [Validators -> 0 .. MaxStake] : EpochChange(newStakes)
    \/ \E side \in Sides, later \in {0, 1} : NewTransaction(side, later)

Spec == Init /\ [][Next]_vars

-----------------------------------------------------------------------------
(* Properties *)

Phases == {"start", "balances", "coins", "coinMetadata", "wallet", "obTokens", "obKiosks", "nftMetadata",
           "suiCaps", "suiKiosks", "objects", "bags", "systemState", "totalStake", "apys", "queries", "returned", "threw"}

TypeOK ==
    /\ DOMAIN task = DOMAIN Idle
    /\ task.phase \in Phases
    /\ task.cursor \in Nat
    /\ used \subseteq 0 .. MAX_ACCOUNTS - 1
    /\ coins \subseteq Coins
    /\ place \in [Nfts -> Places]
    /\ stakes \in [Validators -> 0 .. MaxStake]
    /\ Len(history) <= MaxHistory /\ InTimeOrder(history)
    /\ task.op = "getNfts" => Len(result) <= 3 * Cardinality(Nfts)  \* from three sources
    /\ task.op = "getCoins" => Len(result) <= Cardinality(Coins)
    /\ task.op = "importWallet" => Len(result) <= MAX_ACCOUNTS

Returned(op) == At(op, "returned")

(* How often x is in a sequence. *)
Occurrences(x, seq) == Cardinality({i \in DOMAIN seq : seq[i] = x})

(* The accounts of an imported wallet are numbered from 0 without a gap, never
   more than MAX_ACCOUNTS; each but the first has a balance, except the one
   whose request failed and those created after, and if none failed the first
   account left out has none unless it came to one meanwhile. *)
AccountsFound ==
    Returned("importWallet") =>
        /\ Len(result) \in 1 .. MAX_ACCOUNTS
        /\ \A i \in DOMAIN result : result[i] = i - 1
        /\ \A i \in ToSet(result) \ {0} : i \in used \cup spared
        /\ (spared = {} /\ changes = 0) => Len(result) \notin used

(* A coin that stays while coins are listed is listed exactly once, in whatever
   order the answers come and whatever else comes and goes; only what a failure
   or an unread page spared is missing. A validator whose stake lasts is listed
   exactly once, with that stake; if the epoch does not change in between, the
   shares of the validators add up to the whole, which is the sum of theirs and
   no others, and each has its APY. *)
LastingListedOnce ==
    /\ \A op \in {"getCoins", "getCustomCoins"} : Returned(op) =>
        \A c \in (coins \ changed) \ spared : Occurrences(c, result) = 1
    /\ Returned("getValidatorsList") =>
        /\ \A v \in Active \ changed :
            Cardinality({i \in DOMAIN result : result[i].validator = v /\ result[i].share[1] = stakes[v]}) = 1
        /\ changed = {} =>
            \A i \in DOMAIN result :
                /\ result[i].hasApy
                /\ result[i].share[2] = {<<r.share[1], r.validator>> : r \in ToSet(result)}

(* Between the cursor getNfts was given and the one it hands on. *)
OnPage(n) == task.cursor < n /\ (task.next = 0 \/ n <= task.next)

(* Where getNfts is to find what stays: nowhere when it is in the wallet, but
   on another page than the one asked for. *)
Found == [n \in Nfts |-> IF place[n] = "wallet" /\ ~OnPage(n) THEN "elsewhere" ELSE place[n]]

ListedAs(n) == {i \in DOMAIN result : result[i].nft = n}

(* An NFT that stays where it is while getNfts reads is listed exactly once,
   with the kiosk it is in, if it has display data and is in a kiosk or on the
   page of the wallet: that page is all of the wallet from the cursor given to
   the cursor handed on, so that no NFT falls between two calls. Only what a
   kiosk holds is ever left out without a word, and only beyond the first page
   of its fields or of the owner's kiosks. *)
NftsListed ==
    Returned("getNfts") =>
        \A n \in Nfts \ changed :
            IF n \in spared
            THEN place[n] \in ObKiosks \cup SuiKiosks
            ELSE /\ Cardinality(ListedAs(n)) = IF n \in Displayed /\ Found[n] # "elsewhere" THEN 1 ELSE 0
                 /\ \A i \in ListedAs(n) :
                        CASE place[n] = "wallet" -> result[i].type = "nft"
                          [] place[n] \in ObKiosks -> result[i].kiosk = "ob"
                          [] OTHER -> result[i].kiosk = place[n]

(* getNftsById returns the ids that are NFTs of its kind, in the order asked,
   each with all of its own bag but what the first page left out, in whatever
   order the bags were answered. *)
NftsById ==
    Returned("getNftsById") =>
        /\ [i \in DOMAIN result |-> result[i].nft] = Parsed(task.read)
        /\ \A i \in DOMAIN result : result[i].fields = Bag(result[i].nft) \ spared

(* The merged history is in order and without repeats, and it is complete down
   to where the page that ends later ends: below that one of the two queries
   may know more than it returned. *)
OldestOf(page) == history[page[Len(page)]].time

(* No query left out what is as new as i. *)
Since(i) == \A r \in ToSet(task.read) : Len(r[2]) = Limit => history[i].time > OldestOf(r[2])

HistoryComplete ==
    Returned("getTransactions") =>
        /\ \A i, j \in DOMAIN result : i < j =>
            result[i] # result[j] /\ history[result[i]].time >= history[result[j]].time
        /\ \A i \in DOMAIN history \ changed : Since(i) => i \in ToSet(result)
=============================================================================
