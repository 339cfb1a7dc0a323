--------------------------- MODULE ArcadeDeposits ---------------------------
(***************************************************************************)
(* Game balances funded from the chain: DepositWatcher and                 *)
(* DepositIntentService of src/src/arcade, attributed by the owners that   *)
(* WalletOwnership registers.                                              *)
(*                                                                         *)
(* A scan reads its cursor, asks a node for the signatures after it and    *)
(* for each transaction, records the transfers one database transaction    *)
(* each, and writes the cursor.  Every process has a watcher, and one may  *)
(* fail or die at any point of a scan.                                     *)
(***************************************************************************)
EXTENDS WalletOwnership, FiniteSetsExt, Sequences

CONSTANTS Watchers,
          Gross,         \* the amount of a transfer, in base units of the asset
          FeeBps,        \* ARCADE_DEPOSIT_FEE_BPS
          ScanLimit,     \* SCAN_LIMIT
          MaxTransfers,  \* bound on the transactions of the house address
          NoScan

ASSUME DepositsAssumption ==
    /\ "other" \notin Addresses
    /\ Gross \in Nat /\ FeeBps \in Nat /\ MaxTransfers \in Nat

VARIABLES
    landed,    \* the transactions of the house address, oldest first: the sender of a
               \*   transfer, or "other" for one that moved no USDC or failed
    cursor,    \* last_signature, as a position in landed
    deposit,   \* [1..MaxTransfers -> "none" or a row of arcade_deposits]
    credited,  \* [Users -> Nat], what StakeRepository.credit added
    scan,      \* [Watchers -> scan under way or NoScan]
    unseen     \* history: transactions a scan was not given

depositVars == <<landed, cursor, deposit, credited, scan, unseen>>

DepositsInit ==
    /\ OwnershipInit
    /\ landed = <<>> /\ cursor = 0
    /\ deposit = [i \in 1..MaxTransfers |-> [status |-> "none", user |-> Nobody]]
    /\ credited = [u \in Users |-> 0]
    /\ scan = [w \in Watchers |-> NoScan]
    /\ unseen = {}

\* DepositIntentService.build and submit: the transfer of a player, or anything
\* else somebody sends to a public address
Lands(sender) ==
    /\ Len(landed) < MaxTransfers
    /\ landed' = Append(landed, sender)
    /\ UNCHANGED <<cursor, deposit, credited, scan, unseen>>

ScanAt(w, step) == scan[w] # NoScan /\ scan[w].step = step

\* scan: the cursor
ScanStarts(w) ==
    /\ scan[w] = NoScan
    /\ scan' = [scan EXCEPT ![w] =
           [step |-> "list", until |-> cursor, newest |-> cursor, found |-> {}]]
    /\ UNCHANGED <<landed, cursor, deposit, credited, unseen>>

\* The newest ScanLimit signatures after the cursor
Listed(until) == {i \in until + 1 .. Len(landed) : i > Len(landed) - ScanLimit}

\* readUsdcTransferTo: the balance of the house went up, and another's went down.
IsTransfer(i) == landed[i] # "other"

\* scan: the node answers; it may not have some of the transactions it lists.
ScanLists(w) ==
    /\ ScanAt(w, "list")
    /\ LET listed == Listed(scan[w].until) IN
       \E absent \in SUBSET listed :
          /\ scan' = [scan EXCEPT ![w].step = "record",
                         ![w].newest = IF listed = {} THEN @ ELSE Len(landed),
                         ![w].found = {i \in listed \ absent : IsTransfer(i)}]
          /\ unseen' = unseen \cup absent \cup ((scan[w].until + 1 .. Len(landed)) \ listed)
    /\ UNCHANGED <<landed, cursor, deposit, credited>>

\* bpsOf: rounded down to the base unit
FeeOf(amount) == (amount * FeeBps) \div 10000

\* Mutant: a transfer that was recorded is recorded and credited again.
Unconditionally(i) == TRUE

NotRecorded(i) == deposit[i].status = "none"

\* record: newest first; INSERT IGNORE by signature, and the credit with it
Record(w) ==
    /\ ScanAt(w, "record") /\ scan[w].found # {}
    /\ LET i == Max(scan[w].found)
           u == owner[landed[i]]
       IN  /\ scan' = [scan EXCEPT ![w].found = @ \ {i}]
           /\ IF ~NotRecorded(i) THEN UNCHANGED <<deposit, credited>>
              ELSE /\ deposit' = [deposit EXCEPT ![i] =
                         [status |-> IF u = Nobody THEN "unattributed" ELSE "credited",
                          user |-> u]]
                   /\ credited' = IF u = Nobody THEN credited
                                  ELSE [credited EXCEPT ![u] = @ + Gross - FeeOf(Gross)]
    /\ UNCHANGED <<landed, cursor, unseen>>

\* Mutant: the cursor moves before everything found is recorded.
SomethingRecorded(w) == TRUE

AllRecorded(w) == scan[w].found = {}

\* scan: the new cursor
ScanEnds(w) ==
    /\ ScanAt(w, "record") /\ AllRecorded(w)
    /\ cursor' = scan[w].newest
    /\ scan' = [scan EXCEPT ![w] = NoScan]
    /\ UNCHANGED <<landed, deposit, credited, unseen>>

\* scan's catch, or the end of the process: the cursor stays.
ScanFails(w) ==
    /\ scan[w] # NoScan
    /\ scan' = [scan EXCEPT ![w] = NoScan]
    /\ UNCHANGED <<landed, cursor, deposit, credited, unseen>>

WatcherStep(w) == ScanStarts(w) \/ ScanLists(w) \/ Record(w) \/ ScanEnds(w)

DepositsNext ==
    \/ OwnershipNext /\ UNCHANGED depositVars
    \/ /\ \/ \E sender \in Addresses \cup {"other"} : Lands(sender)
          \/ \E w \in Watchers : WatcherStep(w) \/ ScanFails(w)
       /\ UNCHANGED ownershipVars

moneyInVars == <<ownershipVars, depositVars>>

DepositsSpec == DepositsInit /\ [][DepositsNext]_moneyInVars

-----------------------------------------------------------------------------
(* Properties. *)

\* The rows, scans and owners are well formed.
DepositsTypeOK ==
    /\ OwnershipTypeOK
    /\ cursor \in 0..Len(landed)
    /\ \A i \in 1..MaxTransfers : deposit[i].status \in {"none", "credited", "unattributed"}
    /\ \A w \in Watchers : scan[w] # NoScan =>
          /\ scan[w].until <= scan[w].newest /\ scan[w].newest <= Len(landed)
          /\ scan[w].found \subseteq scan[w].until + 1 .. scan[w].newest

CreditedTo(u) == {i \in 1..MaxTransfers : deposit[i] = [status |-> "credited", user |-> u]}

\* What a user was credited is the sum of the transfers recorded as his, less
\* their fees, however often, by however many watchers they are read; and they
\* came from an address that is his (record's INSERT IGNORE and attribution).
CreditedOnceToTheSender ==
    \A u \in Users :
        /\ credited[u] = Cardinality(CreditedTo(u)) * (Gross - FeeOf(Gross))
        /\ \A i \in CreditedTo(u) : owner[landed[i]] = u

\* The cursor, though a scan that dies leaves it, and a slow one sets it back,
\* never passes a transfer that the scans were given and did not record.
CursorPassesOnlyWhatWasSeen ==
    \A i \in 1..cursor :
        landed[i] \in Addresses /\ i \notin unseen => deposit[i].status # "none"
=============================================================================
