------------------------------- MODULE Filters -------------------------------
(* Which outputs the list endpoints select: entryForOutput turns an output   *)
(* into a row, every filter option of a request adds a condition on columns, *)
(* and Combined asks all six tables at once. One visible row is enough: a    *)
(* query selects each row on its own. Paging and the visibility of a row are *)
(* the subject of Query and Indexer.                                         *)
EXTENDS Integers, FiniteSets, Functions

CONSTANTS
  Addresses,          \* addresses
  AccountAddresses,   \* those of them that are account addresses
  Tokens,             \* native token IDs, which are foundry IDs
  Tags,               \* tags of the tag feature
  LastSlot,           \* bound: slots of conditions are 1..LastSlot
  CombinedOptions,    \* the options clients give to the combined endpoint
  MaxCombined,        \* bound: how many of them in one request
  MaxOptions,         \* bound: how many to the endpoint of a table
  NULL                \* an absent feature, and SQL's NULL

ASSUME AccountAddressesAssumption == AccountAddresses \subseteq Addresses
ASSUME FilterBoundsAssumption == {LastSlot, MaxOptions, MaxCombined} \subseteq Nat
ASSUME CombinedOptionsAssumption ==
  CombinedOptions \subseteq {"unlockableByAddress", "hasNativeToken", "nativeToken",
                             "createdBefore", "createdAfter"}

-----------------------------------------------------------------------------
(* Outputs of the ledger, booked in slot 1.                                  *)

Opt(S) == S \cup {NULL}
Slots  == 1..LastSlot

Expirations == [slot : Slots, to : Addresses]

\* NULL is nothing that is there.
ASSUME NULLAssumption ==
  /\ NULL \notin Addresses \cup Tokens \cup Tags \cup Nat
  /\ NULL \notin Expirations /\ NULL \notin {"amount", "combined"}

BasicOutputs == [kind : {"basic"}, sender : Opt(Addresses), tag : Opt(Tags),
                 token : Opt(Tokens), address : Addresses,
                 depositReturn : Opt(Addresses), timelock : Opt(Slots),
                 expiration : Opt(Expirations)]
NFTOutputs == [kind : {"nft"}, issuer : Opt(Addresses), sender : Opt(Addresses),
               tag : Opt(Tags), address : Addresses,
               depositReturn : Opt(Addresses), timelock : Opt(Slots),
               expiration : Opt(Expirations)]
AccountOutputs == [kind : {"account"}, issuer : Opt(Addresses),
                   sender : Opt(Addresses), address : Addresses]
AnchorOutputs == [kind : {"anchor"}, issuer : Opt(Addresses),
                  sender : Opt(Addresses), stateController : Addresses,
                  governor : Addresses]
FoundryOutputs == UNION {[kind : {"foundry"}, id : {t}, token : Opt({t}),
                          account : AccountAddresses] : t \in Tokens}
DelegationOutputs == [kind : {"delegation"}, address : Addresses,
                      validator : AccountAddresses]

LedgerOutputs == BasicOutputs \cup NFTOutputs \cup AccountOutputs
                 \cup AnchorOutputs \cup FoundryOutputs \cup DelegationOutputs

\* A feature of o, or NULL when its kind does not have it.
Feature(o, f) == IF f \in DOMAIN o THEN o[f] ELSE NULL

ExpirationTo(o) ==
  IF Feature(o, "expiration") = NULL THEN NULL ELSE o.expiration.to
ExpirationSlot(o) ==
  IF Feature(o, "expiration") = NULL THEN NULL ELSE o.expiration.slot

AddressFeatures ==
  {"sender", "issuer", "address", "depositReturn", "account",
   "stateController", "governor", "validator"}

\* Mutant: the address an expired output falls back to is left out.
AddressesWithoutExpiration(o) == {Feature(o, f) : f \in AddressFeatures} \ {NULL}

\* Mutant: an absent feature is not skipped.
AddressesWithAbsent(o) ==
  {Feature(o, f) : f \in AddressFeatures} \cup {ExpirationTo(o)}

\* addressesInOutput: the addresses the multiaddresses table counts.
AddressesInOutput(o) ==
  ({Feature(o, f) : f \in AddressFeatures} \cup {ExpirationTo(o)}) \ {NULL}

-----------------------------------------------------------------------------
(* Rows: the columns of all six tables, NULL in a row that does not use them.*)

Amount(feature) == IF feature = NULL THEN NULL ELSE "amount"

EntryForOutput(o) ==
  [created_at_slot                |-> 1,
   sender                         |-> Feature(o, "sender"),
   issuer                         |-> Feature(o, "issuer"),
   tag                            |-> Feature(o, "tag"),
   native_token                   |-> Feature(o, "token"),
   native_token_amount            |-> Amount(Feature(o, "token")),
   address                        |-> Feature(o, "address"),
   storage_deposit_return         |-> Amount(Feature(o, "depositReturn")),
   storage_deposit_return_address |-> Feature(o, "depositReturn"),
   timelock_slot                  |-> Feature(o, "timelock"),
   expiration_slot                |-> ExpirationSlot(o),
   expiration_return_address      |-> ExpirationTo(o),
   state_controller               |-> Feature(o, "stateController"),
   governor                       |-> Feature(o, "governor"),
   foundry_id                     |-> Feature(o, "id"),
   account_address                |-> Feature(o, "account"),
   validator                      |-> Feature(o, "validator")]

-----------------------------------------------------------------------------
(* Conditions. A request q maps the options it gives to their values.        *)

Equals(q, n, column) == n \in DOMAIN q => column = q[n]
OneOf(q, n, columns) == n \in DOMAIN q => q[n] \in columns
Has(q, n, column) == n \in DOMAIN q => (q[n] <=> column # NULL)
Above(q, n, column) == n \in DOMAIN q => column # NULL /\ column > q[n]

\* Mutant: an absent slot is stored as 0.
BelowOrAbsent(q, n, column) == n \in DOMAIN q => column = NULL \/ column < q[n]

Below(q, n, column) == n \in DOMAIN q => column # NULL /\ column < q[n]

CreatedIn(q, r) ==
  /\ Below(q, "createdBefore", r.created_at_slot)
  /\ Above(q, "createdAfter", r.created_at_slot)

\* What basic and NFT outputs have in common.
UnlockQuery(q, r) ==
  /\ OneOf(q, "unlockableByAddress", {r.address, r.expiration_return_address,
                                      r.storage_deposit_return_address})
  /\ Equals(q, "address", r.address)
  /\ Has(q, "hasStorageDepositReturn", r.storage_deposit_return)
  /\ Equals(q, "storageDepositReturnAddress", r.storage_deposit_return_address)
  /\ Has(q, "hasExpiration", r.expiration_return_address)
  /\ Equals(q, "expirationReturnAddress", r.expiration_return_address)
  /\ Below(q, "expiresBefore", r.expiration_slot)
  /\ Above(q, "expiresAfter", r.expiration_slot)
  /\ Has(q, "hasTimelock", r.timelock_slot)
  /\ Below(q, "timelockedBefore", r.timelock_slot)
  /\ Above(q, "timelockedAfter", r.timelock_slot)
  /\ Equals(q, "sender", r.sender)
  /\ Equals(q, "tag", r.tag)

BasicQueryWithFilter(q, r) ==
  /\ Has(q, "hasNativeToken", r.native_token_amount)
  /\ Equals(q, "nativeToken", r.native_token)
  /\ UnlockQuery(q, r)
  /\ CreatedIn(q, r)

\* Mutant: the issuer of an NFT is taken from the wrong column.
NFTQueryBySender(q, r) ==
  UnlockQuery(q, r) /\ Equals(q, "issuer", r.sender) /\ CreatedIn(q, r)

NFTQueryWithFilter(q, r) ==
  UnlockQuery(q, r) /\ Equals(q, "issuer", r.issuer) /\ CreatedIn(q, r)

AccountQueryWithFilter(q, r) ==
  /\ Equals(q, "address", r.address)
  /\ Equals(q, "sender", r.sender)
  /\ Equals(q, "issuer", r.issuer)
  /\ CreatedIn(q, r)

AnchorQueryWithFilter(q, r) ==
  /\ OneOf(q, "unlockableByAddress", {r.state_controller, r.governor})
  /\ Equals(q, "stateController", r.state_controller)
  /\ Equals(q, "governor", r.governor)
  /\ Equals(q, "sender", r.sender)
  /\ Equals(q, "issuer", r.issuer)
  /\ CreatedIn(q, r)

FoundryOutputsQueryWithFilter(q, r) ==
  /\ Has(q, "hasNativeToken", r.native_token_amount)
  /\ Equals(q, "nativeToken", r.foundry_id)
  /\ Equals(q, "account", r.account_address)
  /\ CreatedIn(q, r)

DelegationQueryWithFilter(q, r) ==
  /\ Equals(q, "address", r.address)
  /\ Equals(q, "validator", r.validator)
  /\ CreatedIn(q, r)

\* The query of one table.
Selects(kind, q, r) ==
  CASE kind = "basic"      -> BasicQueryWithFilter(q, r)
    [] kind = "nft"        -> NFTQueryWithFilter(q, r)
    [] kind = "account"    -> AccountQueryWithFilter(q, r)
    [] kind = "anchor"     -> AnchorQueryWithFilter(q, r)
    [] kind = "foundry"    -> FoundryOutputsQueryWithFilter(q, r)
    [] kind = "delegation" -> DelegationQueryWithFilter(q, r)

-----------------------------------------------------------------------------
(* The combined endpoint: its options in the terms of a table, or none when  *)
(* the table is not asked.                                                   *)

Renamed(q, to) ==
  [n \in {IF m = "unlockableByAddress" THEN to ELSE m : m \in DOMAIN q} |->
     IF n = to THEN q["unlockableByAddress"] ELSE q[n]]

WithoutTokens(q) == Restrict(q, DOMAIN q \ {"hasNativeToken", "nativeToken"})

WantsTokens(q) == "hasNativeToken" \in DOMAIN q /\ q["hasNativeToken"]

\* Mutant: without an account address the foundries are asked for any account.
FoundryOptionsAnyAccount(q) ==
  {IF OneOf(q, "unlockableByAddress", AccountAddresses) THEN Renamed(q, "account")
   ELSE Restrict(q, DOMAIN q \ {"unlockableByAddress"})}

FoundryFilterOptions(q) ==
  IF OneOf(q, "unlockableByAddress", AccountAddresses)
  THEN {Renamed(q, "account")} ELSE {}

AddressFilterOptions(q) ==
  IF WantsTokens(q) THEN {} ELSE {Renamed(WithoutTokens(q), "address")}

UnlockableFilterOptions(q) ==
  IF WantsTokens(q) THEN {} ELSE {WithoutTokens(q)}

CombinedFilterOptions(kind, q) ==
  CASE kind = "basic"                     -> {q}
    [] kind = "foundry"                   -> FoundryFilterOptions(q)
    [] kind \in {"account", "delegation"} -> AddressFilterOptions(q)
    [] kind \in {"anchor", "nft"}         -> UnlockableFilterOptions(q)

Combined(kind, q, r) ==
  \E p \in CombinedFilterOptions(kind, q) : Selects(kind, p, r)

-----------------------------------------------------------------------------
(* The options of the table endpoints, and their values.                     *)

CreatedOptions == {"createdBefore", "createdAfter"}

\* What the basic and the NFT endpoint have in common.
UnlockOptions ==
  {"unlockableByAddress", "address", "hasStorageDepositReturn",
   "storageDepositReturnAddress", "hasExpiration", "expirationReturnAddress",
   "expiresBefore", "expiresAfter", "hasTimelock", "timelockedBefore",
   "timelockedAfter", "sender", "tag"} \cup CreatedOptions

BasicOptions == UnlockOptions \cup {"hasNativeToken", "nativeToken"}
NFTOptions == UnlockOptions \cup {"issuer"}
AccountOptions == {"address", "sender", "issuer"} \cup CreatedOptions
AnchorOptions == {"unlockableByAddress", "stateController", "governor",
                  "sender", "issuer"} \cup CreatedOptions
FoundryOptions == {"hasNativeToken", "nativeToken", "account"} \cup CreatedOptions
DelegationOptions == {"address", "validator"} \cup CreatedOptions

OptionsOf ==
  [basic |-> BasicOptions, nft |-> NFTOptions, account |-> AccountOptions,
   anchor |-> AnchorOptions, foundry |-> FoundryOptions,
   delegation |-> DelegationOptions]

AddressOptions ==
  {"unlockableByAddress", "address", "storageDepositReturnAddress",
   "expirationReturnAddress", "sender", "issuer", "stateController",
   "governor", "account", "validator"}

Values(n) ==
  CASE n \in {"account", "validator"} -> AccountAddresses
    [] n \in AddressOptions \ {"account", "validator"} -> Addresses
    [] n = "tag" -> Tags
    [] n = "nativeToken" -> Tokens
    [] n \in {"hasNativeToken", "hasStorageDepositReturn", "hasExpiration",
              "hasTimelock"} -> BOOLEAN
    [] OTHER -> 0..(LastSlot + 1)

-----------------------------------------------------------------------------
(* One output is stored, then asked for with one option more at a time.      *)

VARIABLES
  output,      \* the output
  row,         \* its row
  counted,     \* the addresses the multiaddresses table counts for it
  endpoint,    \* the endpoint that is asked
  request      \* the options it is asked with

vars == <<output, row, counted, endpoint, request>>

\* The endpoints: the one of the output's table, and the combined one.
Endpoints == {output.kind, "combined"}

OptionsAt(e) == IF e = "combined" THEN CombinedOptions ELSE OptionsOf[e]
MostAt(e)    == IF e = "combined" THEN MaxCombined ELSE MaxOptions

TypeOK ==
  /\ output \in LedgerOutputs
  /\ row = NULL \/ row = EntryForOutput(output)
  /\ counted \in SUBSET Addresses
  /\ endpoint \in Endpoints \cup {NULL}
  /\ \A n \in DOMAIN request : n \in OptionsAt(endpoint) /\ request[n] \in Values(n)

Init ==
  /\ output \in LedgerOutputs
  /\ row = NULL /\ counted = {}
  /\ endpoint = NULL /\ request = << >>

\* processOutput
Store ==
  /\ row = NULL
  /\ row' = EntryForOutput(output)
  /\ counted' = AddressesInOutput(output)
  /\ UNCHANGED <<output, endpoint, request>>

Ask(e) ==
  /\ row # NULL /\ endpoint = NULL
  /\ endpoint' = e
  /\ UNCHANGED <<output, row, counted, request>>

\* The ...WithFilter handlers of the server: every parameter given is parsed
\* and becomes one option.
Give(n, v) ==
  /\ n \notin DOMAIN request
  /\ Cardinality(DOMAIN request) < MostAt(endpoint)
  /\ request' = [m \in DOMAIN request \cup {n} |-> IF m = n THEN v ELSE request[m]]
  /\ UNCHANGED <<output, row, counted, endpoint>>

\* The request is complete.
Asked == Cardinality(DOMAIN request) = MostAt(endpoint) /\ UNCHANGED vars

Next ==
  \/ Store
  \/ \E e \in Endpoints : Ask(e)
  \/ /\ endpoint # NULL
     /\ \/ \E n \in OptionsAt(endpoint) : \E v \in Values(n) : Give(n, v)
        \/ Asked

Spec == Init /\ [][Next]_vars

\* Is the output in the answer?
Found ==
  IF endpoint = "combined" THEN Combined(output.kind, request, row)
  ELSE endpoint # NULL /\ Selects(endpoint, request, row)

-----------------------------------------------------------------------------
(* Properties.                                                               *)

Given(n) == n \in DOMAIN request

\* Whom the unlock conditions of an output name.
Unlockers(o) ==
  {Feature(o, f) : f \in {"address", "depositReturn", "account",
                          "stateController", "governor"}} \cup {ExpirationTo(o)}

\* The combined endpoint answers its question on every kind of output alike,
\* although each table is asked with options of its own and some are not asked
\* (the FilterOptions methods of combined.go). Only nativeToken narrows no more
\* than the tables that have tokens; a foundry counts for the one it mints.
CombinedIsExact ==
  endpoint = "combined" =>
    (Found <=>
       /\ Given("unlockableByAddress") =>
            request["unlockableByAddress"] \in Unlockers(output)
       /\ Given("hasNativeToken") =>
            (request["hasNativeToken"] <=> Feature(output, "token") # NULL)
       /\ Given("nativeToken") /\ output.kind \in {"basic", "foundry"} =>
            request["nativeToken"] =
              Feature(output, IF output.kind = "basic" THEN "token" ELSE "id")
       /\ Given("createdBefore") => 1 < request["createdBefore"]
       /\ Given("createdAfter") => 1 > request["createdAfter"])

\* Whatever address an output is found by, it is one the multiaddresses table
\* counts for the output, so a multi address among them can be resolved
\* (entryForOutput and the queries against addressesInOutput).
FoundByCountedAddress ==
  Found => \A n \in AddressOptions : Given(n) => request[n] \in counted

\* And an address is counted only for an output that can be found by it.
CountedAddressFinds ==
  row # NULL =>
    \A a \in counted :
      \E n \in OptionsOf[output.kind] \cap AddressOptions :
        a \in Values(n) /\ Selects(output.kind, [m \in {n} |-> a], row)

\* An output found by a detail of a condition is one that has the condition:
\* the options that ask for it and for its absence agree, also where the
\* column is NULL.
Details ==
  [hasNativeToken          |-> {"nativeToken"},
   hasStorageDepositReturn |-> {"storageDepositReturnAddress"},
   hasExpiration           |-> {"expirationReturnAddress", "expiresBefore",
                                "expiresAfter"},
   hasTimelock             |-> {"timelockedBefore", "timelockedAfter"}]

DetailsAgree ==
  Found /\ endpoint \in {"basic", "nft"} =>
    \A h \in DOMAIN Details : DOMAIN request \cap Details[h] # {} =>
      /\ Selects(endpoint, [m \in {h} |-> TRUE], row)
      /\ ~Selects(endpoint, [m \in {h} |-> FALSE], row)

-----------------------------------------------------------------------------
(* The inductive invariant behind the theorems of FilterProofs.              *)

FilterInv ==
  /\ TypeOK
  /\ row # NULL => counted = AddressesInOutput(output)
  /\ endpoint # NULL => row # NULL
  /\ endpoint = NULL => DOMAIN request = {}
=============================================================================
