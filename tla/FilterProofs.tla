---------------------------- MODULE FilterProofs ----------------------------
(* Proofs about Filters, for any addresses, tokens, tags, slots and numbers  *)
(* of options in a request.                                                  *)
EXTENDS Filters, TLAPS

-----------------------------------------------------------------------------
(* Rows: the columns a query of each kind of output reads.                   *)

LEMMA BasicRow ==
  ASSUME NEW o \in BasicOutputs
  PROVE  LET r == EntryForOutput(o) IN
         /\ o.kind = "basic" /\ r.created_at_slot = 1
         /\ r.sender = o.sender /\ r.tag = o.tag /\ r.address = o.address
         /\ r.native_token = o.token /\ r.native_token_amount = Amount(o.token)
         /\ r.storage_deposit_return = Amount(o.depositReturn)
         /\ r.storage_deposit_return_address = o.depositReturn
         /\ r.timelock_slot = o.timelock
         /\ r.expiration_slot = ExpirationSlot(o)
         /\ r.expiration_return_address = ExpirationTo(o)
BY DEF BasicOutputs, EntryForOutput, Feature

LEMMA NFTRow ==
  ASSUME NEW o \in NFTOutputs
  PROVE  LET r == EntryForOutput(o) IN
         /\ o.kind = "nft" /\ r.created_at_slot = 1
         /\ r.sender = o.sender /\ r.tag = o.tag /\ r.address = o.address
         /\ r.issuer = o.issuer
         /\ r.storage_deposit_return = Amount(o.depositReturn)
         /\ r.storage_deposit_return_address = o.depositReturn
         /\ r.timelock_slot = o.timelock
         /\ r.expiration_slot = ExpirationSlot(o)
         /\ r.expiration_return_address = ExpirationTo(o)
BY DEF NFTOutputs, EntryForOutput, Feature

LEMMA AccountRow ==
  ASSUME NEW o \in AccountOutputs
  PROVE  LET r == EntryForOutput(o) IN
         /\ o.kind = "account" /\ r.created_at_slot = 1
         /\ r.address = o.address /\ r.sender = o.sender /\ r.issuer = o.issuer
BY DEF AccountOutputs, EntryForOutput, Feature

LEMMA AnchorRow ==
  ASSUME NEW o \in AnchorOutputs
  PROVE  LET r == EntryForOutput(o) IN
         /\ o.kind = "anchor" /\ r.created_at_slot = 1
         /\ r.state_controller = o.stateController /\ r.governor = o.governor
         /\ r.sender = o.sender /\ r.issuer = o.issuer
BY DEF AnchorOutputs, EntryForOutput, Feature

LEMMA FoundryFacts ==
  ASSUME NEW o \in FoundryOutputs
  PROVE  /\ DOMAIN o = {"kind", "id", "token", "account"} /\ o.kind = "foundry"
         /\ o.id \in Tokens /\ o.token \in Tokens \cup {NULL}
         /\ o.account \in AccountAddresses
<1>1. PICK t \in Tokens : o \in [kind : {"foundry"}, id : {t}, token : Opt({t}),
                                 account : AccountAddresses]
  BY DEF FoundryOutputs
<1> QED
  BY <1>1 DEF Opt

LEMMA FoundryRow ==
  ASSUME NEW o \in FoundryOutputs
  PROVE  LET r == EntryForOutput(o) IN
         /\ o.kind = "foundry" /\ r.created_at_slot = 1
         /\ r.native_token_amount = Amount(o.token)
         /\ r.foundry_id = o.id /\ r.account_address = o.account
BY FoundryFacts DEF EntryForOutput, Feature

LEMMA DelegationRow ==
  ASSUME NEW o \in DelegationOutputs
  PROVE  LET r == EntryForOutput(o) IN
         /\ o.kind = "delegation" /\ r.created_at_slot = 1
         /\ r.address = o.address /\ r.validator = o.validator
BY DEF DelegationOutputs, EntryForOutput, Feature

\* What is in a column is an address, or NULL where it may be absent.
LEMMA ExpirationFacts ==
  ASSUME NEW o \in BasicOutputs \cup NFTOutputs
  PROVE  /\ o.expiration = NULL => ExpirationTo(o) = NULL /\ ExpirationSlot(o) = NULL
         /\ o.expiration # NULL =>
              /\ ExpirationTo(o) \in Addresses /\ ExpirationTo(o) # NULL
              /\ ExpirationSlot(o) \in Slots /\ ExpirationSlot(o) # NULL
<1>1. Feature(o, "expiration") = o.expiration
  BY DEF BasicOutputs, NFTOutputs, Feature
<1>2. o.expiration # NULL => o.expiration \in Expirations
  BY DEF BasicOutputs, NFTOutputs, Opt
<1>3. Slots \subseteq Nat
  BY FilterBoundsAssumption DEF Slots
<1> QED
  BY <1>1, <1>2, <1>3, NULLAssumption DEF ExpirationTo, ExpirationSlot, Expirations

\* An amount is there when the feature is.
LEMMA AmountPresent == \A f : Amount(f) # NULL <=> f # NULL
BY NULLAssumption DEF Amount

\* The addresses that are counted, kind by kind.
LEMMA CountedAddresses ==
  /\ \A o \in BasicOutputs : AddressesInOutput(o) =
       {o.sender, o.address, o.depositReturn, ExpirationTo(o)} \ {NULL}
  /\ \A o \in NFTOutputs : AddressesInOutput(o) =
       {o.issuer, o.sender, o.address, o.depositReturn, ExpirationTo(o)} \ {NULL}
  /\ \A o \in AccountOutputs : AddressesInOutput(o) =
       {o.issuer, o.sender, o.address} \ {NULL}
  /\ \A o \in AnchorOutputs : AddressesInOutput(o) =
       {o.issuer, o.sender, o.stateController, o.governor} \ {NULL}
  /\ \A o \in FoundryOutputs : AddressesInOutput(o) = {o.account} \ {NULL}
  /\ \A o \in DelegationOutputs : AddressesInOutput(o) = {o.address, o.validator} \ {NULL}
<1>1. ASSUME NEW o \in BasicOutputs
      PROVE  AddressesInOutput(o) =
               {o.sender, o.address, o.depositReturn, ExpirationTo(o)} \ {NULL}
  <2>1. DOMAIN o = {"kind", "sender", "tag", "token", "address", "depositReturn",
                    "timelock", "expiration"}
    BY DEF BasicOutputs
  <2> QED
    BY <2>1 DEF AddressesInOutput, AddressFeatures, Feature
<1>2. ASSUME NEW o \in NFTOutputs
      PROVE  AddressesInOutput(o) =
               {o.issuer, o.sender, o.address, o.depositReturn, ExpirationTo(o)} \ {NULL}
  <2>1. DOMAIN o = {"kind", "issuer", "sender", "tag", "address", "depositReturn",
                    "timelock", "expiration"}
    BY DEF NFTOutputs
  <2> QED
    BY <2>1 DEF AddressesInOutput, AddressFeatures, Feature
<1>3. ASSUME NEW o \in AccountOutputs
      PROVE  AddressesInOutput(o) = {o.issuer, o.sender, o.address} \ {NULL}
  <2>1. DOMAIN o = {"kind", "issuer", "sender", "address"}
    BY DEF AccountOutputs
  <2> QED
    BY <2>1 DEF AddressesInOutput, AddressFeatures, Feature, ExpirationTo
<1>4. ASSUME NEW o \in AnchorOutputs
      PROVE  AddressesInOutput(o) =
               {o.issuer, o.sender, o.stateController, o.governor} \ {NULL}
  <2>1. DOMAIN o = {"kind", "issuer", "sender", "stateController", "governor"}
    BY DEF AnchorOutputs
  <2> QED
    BY <2>1 DEF AddressesInOutput, AddressFeatures, Feature, ExpirationTo
<1>5. ASSUME NEW o \in FoundryOutputs
      PROVE  AddressesInOutput(o) = {o.account} \ {NULL}
  <2>1. DOMAIN o = {"kind", "id", "token", "account"}
    BY FoundryFacts
  <2> QED
    BY <2>1 DEF AddressesInOutput, AddressFeatures, Feature, ExpirationTo
<1>6. ASSUME NEW o \in DelegationOutputs
      PROVE  AddressesInOutput(o) = {o.address, o.validator} \ {NULL}
  <2>1. DOMAIN o = {"kind", "address", "validator"}
    BY DEF DelegationOutputs
  <2> QED
    BY <2>1 DEF AddressesInOutput, AddressFeatures, Feature, ExpirationTo
<1> QED
  BY <1>1, <1>2, <1>3, <1>4, <1>5, <1>6

\* They are addresses.
LEMMA CountedType ==
  ASSUME NEW o \in LedgerOutputs
  PROVE  AddressesInOutput(o) \in SUBSET Addresses
<1>1. CASE o \in BasicOutputs \cup NFTOutputs
  <2>1. ExpirationTo(o) \in Addresses \cup {NULL}
    BY <1>1, ExpirationFacts
  <2>2. CASE o \in BasicOutputs
    <3>1. /\ o.sender \in Addresses \cup {NULL} /\ o.address \in Addresses
          /\ o.depositReturn \in Addresses \cup {NULL}
      BY <2>2 DEF BasicOutputs, Opt
    <3> QED
      BY <2>1, <2>2, <3>1, CountedAddresses
  <2>3. CASE o \in NFTOutputs
    <3>1. /\ o.sender \in Addresses \cup {NULL} /\ o.address \in Addresses
          /\ o.depositReturn \in Addresses \cup {NULL} /\ o.issuer \in Addresses \cup {NULL}
      BY <2>3 DEF NFTOutputs, Opt
    <3> QED
      BY <2>1, <2>3, <3>1, CountedAddresses
  <2> QED
    BY <1>1, <2>2, <2>3
<1>2. CASE o \in AccountOutputs
  <2>1. /\ o.sender \in Addresses \cup {NULL} /\ o.address \in Addresses
        /\ o.issuer \in Addresses \cup {NULL}
    BY <1>2 DEF AccountOutputs, Opt
  <2> QED
    BY <1>2, <2>1, CountedAddresses
<1>3. CASE o \in AnchorOutputs
  <2>1. /\ o.sender \in Addresses \cup {NULL} /\ o.issuer \in Addresses \cup {NULL}
        /\ o.stateController \in Addresses /\ o.governor \in Addresses
    BY <1>3 DEF AnchorOutputs, Opt
  <2> QED
    BY <1>3, <2>1, CountedAddresses
<1>4. CASE o \in FoundryOutputs
  <2>1. o.account \in Addresses
    BY <1>4, FoundryFacts, AccountAddressesAssumption
  <2> QED
    BY <1>4, <2>1, CountedAddresses
<1>5. CASE o \in DelegationOutputs
  <2>1. o.address \in Addresses /\ o.validator \in Addresses
    BY <1>5, AccountAddressesAssumption DEF DelegationOutputs
  <2> QED
    BY <1>5, <2>1, CountedAddresses
<1> QED
  BY <1>1, <1>2, <1>3, <1>4, <1>5 DEF LedgerOutputs

-----------------------------------------------------------------------------
(* Requests: what the options give.                                          *)

\* The values of the options, spelled out.
LEMMA OptionValues ==
  /\ \A n \in AddressOptions : Values(n) \subseteq Addresses
  /\ \A n \in AddressOptions \ {"account", "validator"} : Values(n) = Addresses
  /\ Values("account") = AccountAddresses /\ Values("validator") = AccountAddresses
  /\ Values("tag") = Tags /\ Values("nativeToken") = Tokens
  /\ \A n \in {"hasNativeToken", "hasStorageDepositReturn", "hasExpiration",
               "hasTimelock"} : Values(n) = BOOLEAN
  /\ \A n \in {"createdBefore", "createdAfter", "expiresBefore", "expiresAfter",
               "timelockedBefore", "timelockedAfter"} : Values(n) \subseteq Nat
<1>1. 0..(LastSlot + 1) \subseteq Nat
  BY FilterBoundsAssumption
<1>2. Values("account") = AccountAddresses /\ Values("validator") = AccountAddresses
  BY DEF Values
<1>3. \A n \in AddressOptions \ {"account", "validator"} : Values(n) = Addresses
  BY DEF Values, AddressOptions
<1>4. Values("tag") = Tags /\ Values("nativeToken") = Tokens
  BY DEF Values, AddressOptions
<1>5. \A n \in {"hasNativeToken", "hasStorageDepositReturn", "hasExpiration",
               "hasTimelock"} : Values(n) = BOOLEAN
  BY DEF Values, AddressOptions
<1>6. \A n \in {"createdBefore", "createdAfter", "expiresBefore", "expiresAfter",
               "timelockedBefore", "timelockedAfter"} : Values(n) = 0..(LastSlot + 1)
  BY DEF Values, AddressOptions
<1> QED
  BY <1>1, <1>2, <1>3, <1>4, <1>5, <1>6, AccountAddressesAssumption

\* What a request to endpoint e may be.
Request(e, q) == \A n \in DOMAIN q : n \in OptionsAt(e) /\ q[n] \in Values(n)

-----------------------------------------------------------------------------
(* The invariant.                                                            *)

LEMMA Kinds ==
  ASSUME NEW o \in LedgerOutputs
  PROVE  o.kind \in {"basic", "nft", "account", "anchor", "foundry", "delegation"}
BY BasicRow, NFTRow, AccountRow, AnchorRow, FoundryRow, DelegationRow DEF LedgerOutputs

LEMMA InitFilterInv == Init => FilterInv
<1> SUFFICES ASSUME Init PROVE FilterInv
  OBVIOUS
<1>1. DOMAIN request = {}
  BY DEF Init
<1> QED
  BY <1>1 DEF Init, FilterInv, TypeOK

LEMMA NextFilterInv == FilterInv /\ [Next]_vars => FilterInv'
<1> SUFFICES ASSUME FilterInv, [Next]_vars PROVE FilterInv'
  OBVIOUS
<1> USE DEF FilterInv, TypeOK
<1>1. CASE Store
  <2>1. counted' \in SUBSET Addresses
    BY <1>1, CountedType DEF Store
  <2> QED
    BY <1>1, <2>1 DEF Store, Endpoints
<1>2. ASSUME NEW e \in Endpoints, Ask(e) PROVE FilterInv'
  BY <1>2 DEF Ask, Endpoints
<1>3. ASSUME endpoint # NULL,
             NEW n \in OptionsAt(endpoint), NEW v \in Values(n), Give(n, v)
      PROVE  FilterInv'
  <2>1. \A m \in DOMAIN request' :
          m \in OptionsAt(endpoint) /\ request'[m] \in Values(m)
    BY <1>3 DEF Give
  <2> QED
    BY <1>3, <2>1 DEF Give, Endpoints, OptionsAt
<1>4. CASE UNCHANGED vars
  BY <1>4 DEF vars, Endpoints, OptionsAt
<1> QED
  BY <1>1, <1>2, <1>3, <1>4 DEF Next, Asked

\* The row, the counted addresses and the request always fit the output: the
\* invariant the theorems below rest on (processOutput, the parsers of the
\* handlers).
THEOREM FilterInvariance == Spec => []FilterInv
BY InitFilterInv, NextFilterInv, PTL DEF Spec

-----------------------------------------------------------------------------
(* The combined endpoint.                                                    *)

\* What the combined endpoint is asked, as CombinedIsExact has it.
Exact(o, q) ==
  /\ "unlockableByAddress" \in DOMAIN q => q["unlockableByAddress"] \in Unlockers(o)
  /\ "hasNativeToken" \in DOMAIN q =>
       (q["hasNativeToken"] <=> Feature(o, "token") # NULL)
  /\ "nativeToken" \in DOMAIN q /\ o.kind \in {"basic", "foundry"} =>
       q["nativeToken"] = Feature(o, IF o.kind = "basic" THEN "token" ELSE "id")
  /\ "createdBefore" \in DOMAIN q => 1 < q["createdBefore"]
  /\ "createdAfter" \in DOMAIN q => 1 > q["createdAfter"]

Created(q) ==
  /\ "createdBefore" \in DOMAIN q => 1 < q["createdBefore"]
  /\ "createdAfter" \in DOMAIN q => 1 > q["createdAfter"]

CombinedNames == {"unlockableByAddress", "hasNativeToken", "nativeToken",
                  "createdBefore", "createdAfter"}

LEMMA CombinedRequest ==
  ASSUME NEW q, Request("combined", q)
  PROVE  /\ DOMAIN q \subseteq CombinedNames
         /\ "unlockableByAddress" \in DOMAIN q =>
              q["unlockableByAddress"] \in Addresses /\ q["unlockableByAddress"] # NULL
         /\ "hasNativeToken" \in DOMAIN q => q["hasNativeToken"] \in BOOLEAN
         /\ "nativeToken" \in DOMAIN q => q["nativeToken"] \in Tokens
<1>1. DOMAIN q \subseteq CombinedNames
  BY CombinedOptionsAssumption DEF Request, OptionsAt, CombinedNames
<1>2. Values("unlockableByAddress") = Addresses
  BY OptionValues DEF AddressOptions
<1> QED
  BY <1>1, <1>2, OptionValues, NULLAssumption DEF Request

LEMMA CreatedExact ==
  ASSUME NEW q, NEW r, r.created_at_slot = 1
  PROVE  CreatedIn(q, r) <=> Created(q)
<1>1. 1 # NULL
  BY NULLAssumption
<1> QED
  BY <1>1 DEF CreatedIn, Created, Below, Above

\* The options of the tables that know an address by another name.
LEMMA RenamedFacts ==
  ASSUME NEW q, DOMAIN q \subseteq CombinedNames, NEW to \in {"address", "account"}
  PROVE  LET p == Renamed(q, to) IN
         /\ DOMAIN p \subseteq (CombinedNames \ {"unlockableByAddress"}) \cup {to}
         /\ to \in DOMAIN p <=> "unlockableByAddress" \in DOMAIN q
         /\ to \in DOMAIN p => p[to] = q["unlockableByAddress"]
         /\ \A n \in CombinedNames \ {"unlockableByAddress"} :
              (n \in DOMAIN p <=> n \in DOMAIN q) /\ (n \in DOMAIN q => p[n] = q[n])
<1> DEFINE p == Renamed(q, to)
           D == {IF m = "unlockableByAddress" THEN to ELSE m : m \in DOMAIN q}
<1>1. p = [n \in D |-> IF n = to THEN q["unlockableByAddress"] ELSE q[n]]
  BY DEF Renamed
<1>2. DOMAIN p = D
  BY <1>1
<1>3. to \notin CombinedNames
  BY DEF CombinedNames
<1>4. to \in D <=> "unlockableByAddress" \in DOMAIN q
  BY <1>3
<1>5. \A n \in CombinedNames \ {"unlockableByAddress"} : n \in D <=> n \in DOMAIN q
  BY <1>3
<1>6. D \subseteq (CombinedNames \ {"unlockableByAddress"}) \cup {to}
  OBVIOUS
<1> HIDE DEF D
<1>7. to \in D => p[to] = q["unlockableByAddress"]
  BY <1>1
<1>8. \A n \in CombinedNames \ {"unlockableByAddress"} : n \in D => p[n] = q[n]
  BY <1>1, <1>3
<1> HIDE DEF p
<1>9. /\ DOMAIN p \subseteq (CombinedNames \ {"unlockableByAddress"}) \cup {to}
      /\ to \in DOMAIN p <=> "unlockableByAddress" \in DOMAIN q
      /\ to \in DOMAIN p => p[to] = q["unlockableByAddress"]
      /\ \A n \in CombinedNames \ {"unlockableByAddress"} :
           (n \in DOMAIN p <=> n \in DOMAIN q) /\ (n \in DOMAIN q => p[n] = q[n])
  BY <1>2, <1>4, <1>5, <1>6, <1>7, <1>8
<1> QED
  BY <1>9 DEF p

LEMMA WithoutTokensFacts ==
  ASSUME NEW q, DOMAIN q \subseteq CombinedNames
  PROVE  LET p == WithoutTokens(q) IN
         /\ DOMAIN p = DOMAIN q \ {"hasNativeToken", "nativeToken"}
         /\ \A n \in DOMAIN p : p[n] = q[n]
BY DEF WithoutTokens, Restrict

LEMMA CombinedBasic ==
  ASSUME NEW o \in BasicOutputs, NEW q, Request("combined", q)
  PROVE  Combined("basic", q, EntryForOutput(o)) <=> Exact(o, q)
<1> DEFINE r == EntryForOutput(o)
<1>1. /\ o.kind = "basic" /\ r.created_at_slot = 1 /\ r.address = o.address
      /\ r.native_token = o.token /\ r.native_token_amount = Amount(o.token)
      /\ r.storage_deposit_return_address = o.depositReturn
      /\ r.expiration_return_address = ExpirationTo(o)
  BY BasicRow
<1>2. Feature(o, "token") = o.token
  BY DEF BasicOutputs, Feature
<1>3. Unlockers(o) = {o.address, o.depositReturn, ExpirationTo(o), NULL}
  BY DEF Unlockers, BasicOutputs, Feature
<1>4. Amount(o.token) # NULL <=> o.token # NULL
  BY AmountPresent
<1> HIDE DEF r
<1>5. Combined("basic", q, r) <=> BasicQueryWithFilter(q, r)
  BY DEF Combined, CombinedFilterOptions, Selects
<1>6. BasicQueryWithFilter(q, r) <=>
        /\ "hasNativeToken" \in DOMAIN q => (q["hasNativeToken"] <=> o.token # NULL)
        /\ "nativeToken" \in DOMAIN q => o.token = q["nativeToken"]
        /\ "unlockableByAddress" \in DOMAIN q =>
             q["unlockableByAddress"] \in {o.address, o.depositReturn, ExpirationTo(o)}
        /\ CreatedIn(q, r)
  BY <1>1, <1>4, CombinedRequest
     DEF BasicQueryWithFilter, UnlockQuery, Has, Equals, OneOf, Below, Above, CombinedNames
<1>7. Exact(o, q) <=>
        /\ "hasNativeToken" \in DOMAIN q => (q["hasNativeToken"] <=> o.token # NULL)
        /\ "nativeToken" \in DOMAIN q => o.token = q["nativeToken"]
        /\ "unlockableByAddress" \in DOMAIN q =>
             q["unlockableByAddress"] \in {o.address, o.depositReturn, ExpirationTo(o)}
        /\ Created(q)
  BY <1>1, <1>2, <1>3, CombinedRequest DEF Exact, Created
<1>8. CreatedIn(q, r) <=> Created(q)
  BY <1>1, CreatedExact
<1>9. Combined("basic", q, r) <=> Exact(o, q)
  BY <1>5, <1>6, <1>7, <1>8
<1> QED
  BY <1>9 DEF r

\* A table without native tokens answers nothing to a request for them, and
\* ignores the rest of what is asked about them.
LEMMA CombinedWithoutTokens ==
  ASSUME NEW o, Feature(o, "token") = NULL, o.kind \notin {"basic", "foundry"},
         NEW q, Request("combined", q)
  PROVE  Exact(o, q) <=>
           /\ ~WantsTokens(q)
           /\ "unlockableByAddress" \in DOMAIN q =>
                q["unlockableByAddress"] \in Unlockers(o) \ {NULL}
           /\ Created(q)
<1>1. ("hasNativeToken" \in DOMAIN q => (q["hasNativeToken"] <=> NULL # NULL))
        <=> ~WantsTokens(q)
  BY CombinedRequest DEF WantsTokens
<1> QED
  BY <1>1, CombinedRequest DEF Exact, Created

LEMMA CombinedNFT ==
  ASSUME NEW o \in NFTOutputs, NEW q, Request("combined", q)
  PROVE  Combined("nft", q, EntryForOutput(o)) <=> Exact(o, q)
<1> DEFINE r == EntryForOutput(o)
           p == WithoutTokens(q)
<1>1. /\ o.kind = "nft" /\ r.created_at_slot = 1 /\ r.address = o.address
      /\ r.storage_deposit_return_address = o.depositReturn
      /\ r.expiration_return_address = ExpirationTo(o)
  BY NFTRow
<1>2. Feature(o, "token") = NULL
  BY DEF NFTOutputs, Feature
<1>3. Unlockers(o) \ {NULL} = {o.address, o.depositReturn, ExpirationTo(o)} \ {NULL}
  BY DEF Unlockers, NFTOutputs, Feature
<1>4. /\ DOMAIN p = DOMAIN q \ {"hasNativeToken", "nativeToken"}
      /\ \A n \in DOMAIN p : p[n] = q[n]
  BY WithoutTokensFacts, CombinedRequest
<1> HIDE DEF r, p
<1>5. Combined("nft", q, r) <=> ~WantsTokens(q) /\ NFTQueryWithFilter(p, r)
  BY DEF Combined, CombinedFilterOptions, UnlockableFilterOptions, Selects, p
<1>6. NFTQueryWithFilter(p, r) <=>
        /\ "unlockableByAddress" \in DOMAIN q =>
             q["unlockableByAddress"] \in {o.address, o.depositReturn, ExpirationTo(o)}
        /\ CreatedIn(p, r)
  BY <1>1, <1>4, CombinedRequest
     DEF NFTQueryWithFilter, UnlockQuery, Has, Equals, OneOf, Below, Above, CombinedNames
<1>7. CreatedIn(p, r) <=> Created(q)
  BY <1>1, <1>4, CreatedExact DEF Created
<1>8. Combined("nft", q, r) <=> Exact(o, q)
  BY <1>1, <1>2, <1>3, <1>5, <1>6, <1>7, CombinedWithoutTokens, CombinedRequest
<1> QED
  BY <1>8 DEF r

LEMMA CombinedAnchor ==
  ASSUME NEW o \in AnchorOutputs, NEW q, Request("combined", q)
  PROVE  Combined("anchor", q, EntryForOutput(o)) <=> Exact(o, q)
<1> DEFINE r == EntryForOutput(o)
           p == WithoutTokens(q)
<1>1. /\ o.kind = "anchor" /\ r.created_at_slot = 1
      /\ r.state_controller = o.stateController /\ r.governor = o.governor
  BY AnchorRow
<1>2. Feature(o, "token") = NULL
  BY DEF AnchorOutputs, Feature
<1>3. Unlockers(o) \ {NULL} = {o.stateController, o.governor} \ {NULL}
  BY DEF Unlockers, AnchorOutputs, Feature, ExpirationTo
<1>4. /\ DOMAIN p = DOMAIN q \ {"hasNativeToken", "nativeToken"}
      /\ \A n \in DOMAIN p : p[n] = q[n]
  BY WithoutTokensFacts, CombinedRequest
<1> HIDE DEF r, p
<1>5. Combined("anchor", q, r) <=> ~WantsTokens(q) /\ AnchorQueryWithFilter(p, r)
  BY DEF Combined, CombinedFilterOptions, UnlockableFilterOptions, Selects, p
<1>6. AnchorQueryWithFilter(p, r) <=>
        /\ "unlockableByAddress" \in DOMAIN q =>
             q["unlockableByAddress"] \in {o.stateController, o.governor}
        /\ CreatedIn(p, r)
  BY <1>1, <1>4, CombinedRequest
     DEF AnchorQueryWithFilter, Equals, OneOf, CombinedNames
<1>7. CreatedIn(p, r) <=> Created(q)
  BY <1>1, <1>4, CreatedExact DEF Created
<1>8. Combined("anchor", q, r) <=> Exact(o, q)
  BY <1>1, <1>2, <1>3, <1>5, <1>6, <1>7, CombinedWithoutTokens, CombinedRequest
<1> QED
  BY <1>8 DEF r

\* The account and the delegation endpoint know the address as "address".
LEMMA AddressFacts ==
  ASSUME NEW q, Request("combined", q)
  PROVE  LET p == Renamed(WithoutTokens(q), "address") IN
         /\ DOMAIN p \subseteq {"address", "createdBefore", "createdAfter"}
         /\ "address" \in DOMAIN p <=> "unlockableByAddress" \in DOMAIN q
         /\ "address" \in DOMAIN p => p["address"] = q["unlockableByAddress"]
         /\ Created(p) <=> Created(q)
<1> DEFINE w == WithoutTokens(q)
           p == Renamed(w, "address")
<1>1. /\ DOMAIN w = DOMAIN q \ {"hasNativeToken", "nativeToken"}
      /\ \A n \in DOMAIN w : w[n] = q[n]
  BY WithoutTokensFacts, CombinedRequest
<1>2. DOMAIN w \subseteq CombinedNames
  BY <1>1, CombinedRequest
<1> HIDE DEF w
<1>3. /\ DOMAIN p \subseteq (CombinedNames \ {"unlockableByAddress"}) \cup {"address"}
      /\ "address" \in DOMAIN p <=> "unlockableByAddress" \in DOMAIN w
      /\ "address" \in DOMAIN p => p["address"] = w["unlockableByAddress"]
      /\ \A n \in CombinedNames \ {"unlockableByAddress"} :
           (n \in DOMAIN p <=> n \in DOMAIN w) /\ (n \in DOMAIN w => p[n] = w[n])
  BY <1>2, RenamedFacts
<1> HIDE DEF p
<1>4. /\ DOMAIN p \subseteq {"address", "createdBefore", "createdAfter"}
      /\ "address" \in DOMAIN p <=> "unlockableByAddress" \in DOMAIN q
      /\ "address" \in DOMAIN p => p["address"] = q["unlockableByAddress"]
  BY <1>1, <1>3 DEF CombinedNames
<1>5. Created(p) <=> Created(q)
  BY <1>1, <1>3 DEF CombinedNames, Created
<1> QED
  BY <1>4, <1>5 DEF p, w

LEMMA CombinedAccount ==
  ASSUME NEW o \in AccountOutputs, NEW q, Request("combined", q)
  PROVE  Combined("account", q, EntryForOutput(o)) <=> Exact(o, q)
<1> DEFINE r == EntryForOutput(o)
           p == Renamed(WithoutTokens(q), "address")
<1>1. o.kind = "account" /\ r.created_at_slot = 1 /\ r.address = o.address
  BY AccountRow
<1>2. Feature(o, "token") = NULL
  BY DEF AccountOutputs, Feature
<1>3. Unlockers(o) \ {NULL} = {o.address} \ {NULL}
  BY DEF Unlockers, AccountOutputs, Feature, ExpirationTo
<1>4. /\ DOMAIN p \subseteq {"address", "createdBefore", "createdAfter"}
      /\ "address" \in DOMAIN p <=> "unlockableByAddress" \in DOMAIN q
      /\ "address" \in DOMAIN p => p["address"] = q["unlockableByAddress"]
      /\ Created(p) <=> Created(q)
  BY AddressFacts
<1> HIDE DEF r, p
<1>5. Combined("account", q, r) <=> ~WantsTokens(q) /\ AccountQueryWithFilter(p, r)
  BY DEF Combined, CombinedFilterOptions, AddressFilterOptions, Selects, p
<1>6. AccountQueryWithFilter(p, r) <=>
        /\ "unlockableByAddress" \in DOMAIN q => q["unlockableByAddress"] = o.address
        /\ CreatedIn(p, r)
  BY <1>1, <1>4 DEF AccountQueryWithFilter, Equals
<1>7. CreatedIn(p, r) <=> Created(q)
  BY <1>1, <1>4, CreatedExact
<1>8. Combined("account", q, r) <=> Exact(o, q)
  BY <1>1, <1>2, <1>3, <1>5, <1>6, <1>7, CombinedWithoutTokens, CombinedRequest
<1> QED
  BY <1>8 DEF r

LEMMA CombinedDelegation ==
  ASSUME NEW o \in DelegationOutputs, NEW q, Request("combined", q)
  PROVE  Combined("delegation", q, EntryForOutput(o)) <=> Exact(o, q)
<1> DEFINE r == EntryForOutput(o)
           p == Renamed(WithoutTokens(q), "address")
<1>1. o.kind = "delegation" /\ r.created_at_slot = 1 /\ r.address = o.address
  BY DelegationRow
<1>2. Feature(o, "token") = NULL
  BY DEF DelegationOutputs, Feature
<1>3. Unlockers(o) \ {NULL} = {o.address} \ {NULL}
  BY DEF Unlockers, DelegationOutputs, Feature, ExpirationTo
<1>4. /\ DOMAIN p \subseteq {"address", "createdBefore", "createdAfter"}
      /\ "address" \in DOMAIN p <=> "unlockableByAddress" \in DOMAIN q
      /\ "address" \in DOMAIN p => p["address"] = q["unlockableByAddress"]
      /\ Created(p) <=> Created(q)
  BY AddressFacts
<1> HIDE DEF r, p
<1>5. Combined("delegation", q, r) <=> ~WantsTokens(q) /\ DelegationQueryWithFilter(p, r)
  BY DEF Combined, CombinedFilterOptions, AddressFilterOptions, Selects, p
<1>6. DelegationQueryWithFilter(p, r) <=>
        /\ "unlockableByAddress" \in DOMAIN q => q["unlockableByAddress"] = o.address
        /\ CreatedIn(p, r)
  BY <1>1, <1>4 DEF DelegationQueryWithFilter, Equals
<1>7. CreatedIn(p, r) <=> Created(q)
  BY <1>1, <1>4, CreatedExact
<1>8. Combined("delegation", q, r) <=> Exact(o, q)
  BY <1>1, <1>2, <1>3, <1>5, <1>6, <1>7, CombinedWithoutTokens, CombinedRequest
<1> QED
  BY <1>8 DEF r

LEMMA CombinedFoundry ==
  ASSUME NEW o \in FoundryOutputs, NEW q, Request("combined", q)
  PROVE  Combined("foundry", q, EntryForOutput(o)) <=> Exact(o, q)
<1> DEFINE r == EntryForOutput(o)
           p == Renamed(q, "account")
           u == "unlockableByAddress"
           OfAccount == u \in DOMAIN q => q[u] \in AccountAddresses
<1>1. /\ o.kind = "foundry" /\ r.created_at_slot = 1
      /\ r.native_token_amount = Amount(o.token)
      /\ r.foundry_id = o.id /\ r.account_address = o.account
  BY FoundryRow
<1>2. Feature(o, "token") = o.token /\ Feature(o, "id") = o.id
  BY FoundryFacts DEF Feature
<1>3. Unlockers(o) = {o.account, NULL}
  BY FoundryFacts DEF Unlockers, Feature, ExpirationTo
<1>4. /\ DOMAIN p \subseteq (CombinedNames \ {u}) \cup {"account"}
      /\ "account" \in DOMAIN p <=> u \in DOMAIN q
      /\ "account" \in DOMAIN p => p["account"] = q[u]
      /\ \A n \in CombinedNames \ {u} :
           (n \in DOMAIN p <=> n \in DOMAIN q) /\ (n \in DOMAIN q => p[n] = q[n])
  BY RenamedFacts, CombinedRequest
<1>5. o.account \in AccountAddresses
  BY FoundryFacts
<1>6. Amount(o.token) # NULL <=> o.token # NULL
  BY AmountPresent
<1> HIDE DEF r, p
<1>7. Combined("foundry", q, r) <=> OfAccount /\ FoundryOutputsQueryWithFilter(p, r)
  BY DEF Combined, CombinedFilterOptions, FoundryFilterOptions, OneOf, Selects, p
<1>8. FoundryOutputsQueryWithFilter(p, r) <=>
        /\ "hasNativeToken" \in DOMAIN q => (q["hasNativeToken"] <=> o.token # NULL)
        /\ "nativeToken" \in DOMAIN q => o.id = q["nativeToken"]
        /\ u \in DOMAIN q => o.account = q[u]
        /\ CreatedIn(p, r)
  BY <1>1, <1>4, <1>6 DEF FoundryOutputsQueryWithFilter, Equals, Has, CombinedNames
<1>9. CreatedIn(p, r) <=> Created(q)
  BY <1>1, <1>4, CreatedExact DEF Created, CombinedNames
<1>10. Exact(o, q) <=>
        /\ "hasNativeToken" \in DOMAIN q => (q["hasNativeToken"] <=> o.token # NULL)
        /\ "nativeToken" \in DOMAIN q => o.id = q["nativeToken"]
        /\ u \in DOMAIN q => o.account = q[u]
        /\ Created(q)
  BY <1>1, <1>2, <1>3, CombinedRequest DEF Exact, Created
<1>11. Combined("foundry", q, r) <=> Exact(o, q)
  BY <1>5, <1>7, <1>8, <1>9, <1>10
<1> QED
  BY <1>11 DEF r

LEMMA CombinedExact ==
  ASSUME NEW o \in LedgerOutputs, NEW q, Request("combined", q)
  PROVE  Combined(o.kind, q, EntryForOutput(o)) <=> Exact(o, q)
<1>1. /\ o \in BasicOutputs => o.kind = "basic"
      /\ o \in NFTOutputs => o.kind = "nft"
      /\ o \in AccountOutputs => o.kind = "account"
      /\ o \in AnchorOutputs => o.kind = "anchor"
      /\ o \in FoundryOutputs => o.kind = "foundry"
      /\ o \in DelegationOutputs => o.kind = "delegation"
  BY BasicRow, NFTRow, AccountRow, AnchorRow, FoundryRow, DelegationRow
<1> QED
  BY <1>1, CombinedBasic, CombinedNFT, CombinedAccount, CombinedAnchor,
     CombinedFoundry, CombinedDelegation DEF LedgerOutputs

\* Under the invariant, the row of an endpoint that is asked is the output's.
LEMMA AskedRow ==
  ASSUME FilterInv, endpoint # NULL
  PROVE  /\ row = EntryForOutput(output) /\ counted = AddressesInOutput(output)
         /\ Request(endpoint, request)
BY DEF FilterInv, TypeOK, Request

LEMMA FilterInvCombinedIsExact == FilterInv => CombinedIsExact
<1> SUFFICES ASSUME FilterInv, endpoint = "combined"
             PROVE  Found <=> Exact(output, request)
  BY DEF CombinedIsExact, Exact, Given
<1>1. endpoint # NULL
  BY NULLAssumption
<1> QED
  BY <1>1, AskedRow, CombinedExact DEF Found, FilterInv, TypeOK

\* The combined endpoint answers one question on all kinds of outputs, for any
\* ledger and any number of options (the FilterOptions methods of combined.go).
THEOREM CombinedAnswersAlike == Spec => []CombinedIsExact
BY FilterInvariance, FilterInvCombinedIsExact, PTL

-----------------------------------------------------------------------------
(* What an output is found by, and what is counted for it.                   *)

\* The endpoint of a table finds an output only by addresses that are counted.
LEMMA TableFindsCounted ==
  ASSUME NEW o \in LedgerOutputs, NEW q, Request(o.kind, q),
         Selects(o.kind, q, EntryForOutput(o)),
         NEW n \in AddressOptions, n \in DOMAIN q
  PROVE  q[n] \in AddressesInOutput(o)
<1> DEFINE r == EntryForOutput(o)
<1>1. q[n] \in Addresses /\ q[n] # NULL
  BY OptionValues, NULLAssumption DEF Request
<1>2. n \in OptionsAt(o.kind)
  BY DEF Request
<1>3. CASE o \in BasicOutputs
  <2>1. /\ o.kind = "basic" /\ r.sender = o.sender /\ r.address = o.address
        /\ r.storage_deposit_return_address = o.depositReturn
        /\ r.expiration_return_address = ExpirationTo(o)
    BY <1>3, BasicRow
  <2>2. AddressesInOutput(o) =
          {o.sender, o.address, o.depositReturn, ExpirationTo(o)} \ {NULL}
    BY <1>3, CountedAddresses
  <2>3. n \in {"unlockableByAddress", "address", "storageDepositReturnAddress",
               "expirationReturnAddress", "sender"}
    BY <1>2, <2>1 DEF OptionsAt, OptionsOf, BasicOptions, UnlockOptions,
                      CreatedOptions, AddressOptions
  <2> HIDE DEF r
  <2>4. UnlockQuery(q, r)
    BY <2>1 DEF Selects, BasicQueryWithFilter, r
  <2> QED
    BY <1>1, <2>1, <2>2, <2>3, <2>4 DEF UnlockQuery, OneOf, Equals
<1>4. CASE o \in NFTOutputs
  <2>1. /\ o.kind = "nft" /\ r.sender = o.sender /\ r.address = o.address
        /\ r.issuer = o.issuer
        /\ r.storage_deposit_return_address = o.depositReturn
        /\ r.expiration_return_address = ExpirationTo(o)
    BY <1>4, NFTRow
  <2>2. AddressesInOutput(o) =
          {o.issuer, o.sender, o.address, o.depositReturn, ExpirationTo(o)} \ {NULL}
    BY <1>4, CountedAddresses
  <2>3. n \in {"unlockableByAddress", "address", "storageDepositReturnAddress",
               "expirationReturnAddress", "sender", "issuer"}
    BY <1>2, <2>1 DEF OptionsAt, OptionsOf, NFTOptions, UnlockOptions,
                      CreatedOptions, AddressOptions
  <2> HIDE DEF r
  <2>4. UnlockQuery(q, r) /\ Equals(q, "issuer", r.issuer)
    BY <2>1 DEF Selects, NFTQueryWithFilter, r
  <2> QED
    BY <1>1, <2>1, <2>2, <2>3, <2>4 DEF UnlockQuery, OneOf, Equals
<1>5. CASE o \in AccountOutputs
  <2>1. o.kind = "account" /\ r.address = o.address /\ r.sender = o.sender /\ r.issuer = o.issuer
    BY <1>5, AccountRow
  <2>2. AddressesInOutput(o) = {o.issuer, o.sender, o.address} \ {NULL}
    BY <1>5, CountedAddresses
  <2>3. n \in {"address", "sender", "issuer"}
    BY <1>2, <2>1 DEF OptionsAt, OptionsOf, AccountOptions, CreatedOptions, AddressOptions
  <2> HIDE DEF r
  <2>4. AccountQueryWithFilter(q, r)
    BY <2>1 DEF Selects, r
  <2> QED
    BY <1>1, <2>1, <2>2, <2>3, <2>4 DEF AccountQueryWithFilter, Equals
<1>6. CASE o \in AnchorOutputs
  <2>1. /\ o.kind = "anchor" /\ r.sender = o.sender /\ r.issuer = o.issuer
        /\ r.state_controller = o.stateController /\ r.governor = o.governor
    BY <1>6, AnchorRow
  <2>2. AddressesInOutput(o) =
          {o.issuer, o.sender, o.stateController, o.governor} \ {NULL}
    BY <1>6, CountedAddresses
  <2>3. n \in {"unlockableByAddress", "stateController", "governor", "sender", "issuer"}
    BY <1>2, <2>1 DEF OptionsAt, OptionsOf, AnchorOptions, CreatedOptions, AddressOptions
  <2> HIDE DEF r
  <2>4. AnchorQueryWithFilter(q, r)
    BY <2>1 DEF Selects, r
  <2> QED
    BY <1>1, <2>1, <2>2, <2>3, <2>4 DEF AnchorQueryWithFilter, OneOf, Equals
<1>7. CASE o \in FoundryOutputs
  <2>1. o.kind = "foundry" /\ r.account_address = o.account
    BY <1>7, FoundryRow
  <2>2. AddressesInOutput(o) = {o.account} \ {NULL}
    BY <1>7, CountedAddresses
  <2>3. n = "account"
    BY <1>2, <2>1 DEF OptionsAt, OptionsOf, FoundryOptions, CreatedOptions, AddressOptions
  <2> HIDE DEF r
  <2>4. FoundryOutputsQueryWithFilter(q, r)
    BY <2>1 DEF Selects, r
  <2> QED
    BY <1>1, <2>1, <2>2, <2>3, <2>4 DEF FoundryOutputsQueryWithFilter, Equals
<1>8. CASE o \in DelegationOutputs
  <2>1. o.kind = "delegation" /\ r.address = o.address /\ r.validator = o.validator
    BY <1>8, DelegationRow
  <2>2. AddressesInOutput(o) = {o.address, o.validator} \ {NULL}
    BY <1>8, CountedAddresses
  <2>3. n \in {"address", "validator"}
    BY <1>2, <2>1 DEF OptionsAt, OptionsOf, DelegationOptions, CreatedOptions, AddressOptions
  <2> HIDE DEF r
  <2>4. DelegationQueryWithFilter(q, r)
    BY <2>1 DEF Selects, r
  <2> QED
    BY <1>1, <2>1, <2>2, <2>3, <2>4 DEF DelegationQueryWithFilter, Equals
<1> QED
  BY <1>3, <1>4, <1>5, <1>6, <1>7, <1>8 DEF LedgerOutputs

\* So does the combined endpoint.
LEMMA CombinedFindsCounted ==
  ASSUME NEW o \in LedgerOutputs, NEW q, Request("combined", q), Exact(o, q),
         NEW n \in AddressOptions, n \in DOMAIN q
  PROVE  q[n] \in AddressesInOutput(o)
<1>1. n = "unlockableByAddress"
  BY CombinedRequest DEF CombinedNames, AddressOptions
<1>2. q[n] \in Unlockers(o) \ {NULL}
  BY <1>1, CombinedRequest DEF Exact
<1> QED
  BY <1>2 DEF Unlockers, AddressesInOutput, AddressFeatures

LEMMA FilterInvFoundByCountedAddress == FilterInv => FoundByCountedAddress
<1> SUFFICES ASSUME FilterInv, Found, NEW n \in AddressOptions, n \in DOMAIN request
             PROVE  request[n] \in counted
  BY DEF FoundByCountedAddress, Given
<1>1. endpoint # NULL
  BY NULLAssumption DEF Found
<1>2. /\ row = EntryForOutput(output) /\ counted = AddressesInOutput(output)
      /\ Request(endpoint, request) /\ output \in LedgerOutputs
      /\ endpoint \in {output.kind, "combined"}
  BY <1>1, AskedRow DEF FilterInv, TypeOK, Endpoints
<1>3. CASE endpoint = "combined"
  <2>1. Combined(output.kind, request, row)
    BY <1>3 DEF Found
  <2> QED
    BY <1>2, <1>3, <2>1, CombinedExact, CombinedFindsCounted
<1>4. CASE endpoint # "combined"
  <2>1. Selects(endpoint, request, row) /\ endpoint = output.kind
    BY <1>2, <1>4 DEF Found
  <2> QED
    BY <1>2, <2>1, TableFindsCounted
<1> QED
  BY <1>3, <1>4

\* Whatever address an output is found by, the multiaddresses table counts it
\* for the output, for any ledger and any request (entryForOutput and the
\* queries against addressesInOutput).
THEOREM FoundAddressesAreCounted == Spec => []FoundByCountedAddress
BY FilterInvariance, FilterInvFoundByCountedAddress, PTL

\* The request with one option.
Single(n, a) == [m \in {n} |-> a]

LEMMA SingleFacts ==
  ASSUME NEW n, NEW a
  PROVE  DOMAIN Single(n, a) = {n} /\ Single(n, a)[n] = a
BY DEF Single

\* The query of each table.
LEMMA SelectsOf ==
  ASSUME NEW q, NEW r
  PROVE  /\ Selects("basic", q, r) <=> BasicQueryWithFilter(q, r)
         /\ Selects("nft", q, r) <=> NFTQueryWithFilter(q, r)
         /\ Selects("account", q, r) <=> AccountQueryWithFilter(q, r)
         /\ Selects("anchor", q, r) <=> AnchorQueryWithFilter(q, r)
         /\ Selects("foundry", q, r) <=> FoundryOutputsQueryWithFilter(q, r)
         /\ Selects("delegation", q, r) <=> DelegationQueryWithFilter(q, r)
BY DEF Selects

LEMMA SingleUnlock ==
  ASSUME NEW n, NEW a, NEW r,
         \/ n = "address" /\ r.address = a
         \/ n = "sender" /\ r.sender = a
         \/ n = "storageDepositReturnAddress" /\ r.storage_deposit_return_address = a
         \/ n = "expirationReturnAddress" /\ r.expiration_return_address = a
  PROVE  UnlockQuery(Single(n, a), r)
<1> DEFINE q == Single(n, a)
<1>1. DOMAIN q = {n} /\ q[n] = a
  BY SingleFacts
<1> HIDE DEF q
<1>2. UnlockQuery(q, r)
  BY <1>1 DEF UnlockQuery, OneOf, Equals, Has, Below, Above
<1> QED
  BY <1>2 DEF q

\* An option restricts nothing but its own column.
LEMMA SingleConditions ==
  ASSUME NEW n, NEW a, NEW m, m # n, NEW c
  PROVE  LET q == Single(n, a) IN
         Equals(q, m, c) /\ OneOf(q, m, c) /\ Has(q, m, c) /\ Below(q, m, c) /\ Above(q, m, c)
<1> DEFINE q == Single(n, a)
<1>1. m \notin DOMAIN q
  BY SingleFacts
<1> HIDE DEF q
<1>2. Equals(q, m, c) /\ OneOf(q, m, c) /\ Has(q, m, c) /\ Below(q, m, c) /\ Above(q, m, c)
  BY <1>1 DEF Equals, OneOf, Has, Below, Above
<1> QED
  BY <1>2 DEF q

LEMMA SingleEquals ==
  ASSUME NEW n, NEW a
  PROVE  Equals(Single(n, a), n, a)
BY SingleFacts DEF Equals

LEMMA SingleCreated ==
  ASSUME NEW n, NEW a, NEW r, n \notin CreatedOptions
  PROVE  CreatedIn(Single(n, a), r)
BY SingleConditions DEF CreatedIn, CreatedOptions

LEMMA CountedFinds ==
  ASSUME NEW o \in LedgerOutputs, NEW a \in AddressesInOutput(o)
  PROVE  \E n \in OptionsOf[o.kind] \cap AddressOptions :
           a \in Values(n) /\ Selects(o.kind, Single(n, a), EntryForOutput(o))
<1> DEFINE r == EntryForOutput(o)
           Finds(n) == /\ n \in OptionsOf[o.kind] /\ n \in AddressOptions
                       /\ a \in Values(n) /\ Selects(o.kind, Single(n, a), r)
<1>1. a \in Addresses /\ a # NULL
  BY CountedType DEF AddressesInOutput
<1>2. CASE o \in BasicOutputs
  <2>1. /\ o.kind = "basic" /\ r.sender = o.sender /\ r.address = o.address
        /\ r.storage_deposit_return_address = o.depositReturn
        /\ r.expiration_return_address = ExpirationTo(o)
    BY <1>2, BasicRow
  <2>2. a \in {o.sender, o.address, o.depositReturn, ExpirationTo(o)}
    BY <1>2, CountedAddresses
  <2>3. ASSUME NEW n \in {"sender", "address", "storageDepositReturnAddress",
                          "expirationReturnAddress"},
               UnlockQuery(Single(n, a), r)
        PROVE  Finds(n)
    <3>1. n \in OptionsOf[o.kind] /\ n \in AddressOptions
      BY <2>1 DEF OptionsOf, BasicOptions, UnlockOptions, AddressOptions
    <3>2. a \in Values(n)
      BY <1>1, <3>1, OptionValues
    <3>3. BasicQueryWithFilter(Single(n, a), r)
      BY <2>3, SingleConditions, SingleCreated DEF BasicQueryWithFilter, CreatedOptions
    <3> QED
      BY <2>1, <3>1, <3>2, <3>3, SelectsOf
  <2> QED
    BY <2>1, <2>2, <2>3, SingleUnlock
<1>3. CASE o \in NFTOutputs
  <2>1. /\ o.kind = "nft" /\ r.sender = o.sender /\ r.address = o.address
        /\ r.issuer = o.issuer
        /\ r.storage_deposit_return_address = o.depositReturn
        /\ r.expiration_return_address = ExpirationTo(o)
    BY <1>3, NFTRow
  <2>2. a \in {o.issuer, o.sender, o.address, o.depositReturn, ExpirationTo(o)}
    BY <1>3, CountedAddresses
  <2>3. ASSUME NEW n \in {"sender", "address", "storageDepositReturnAddress",
                          "expirationReturnAddress"},
               UnlockQuery(Single(n, a), r)
        PROVE  Finds(n)
    <3>1. n \in OptionsOf[o.kind] /\ n \in AddressOptions
      BY <2>1 DEF OptionsOf, NFTOptions, UnlockOptions, AddressOptions
    <3>2. a \in Values(n)
      BY <1>1, <3>1, OptionValues
    <3>3. NFTQueryWithFilter(Single(n, a), r)
      BY <2>3, SingleConditions, SingleCreated DEF NFTQueryWithFilter, CreatedOptions
    <3> QED
      BY <2>1, <3>1, <3>2, <3>3, SelectsOf
  <2>4. a = o.issuer => Finds("issuer")
    <3>1. "issuer" \in OptionsOf[o.kind] /\ "issuer" \in AddressOptions
      BY <2>1 DEF OptionsOf, NFTOptions, AddressOptions
    <3>2. a \in Values("issuer")
      BY <1>1, <3>1, OptionValues
    <3>3. a = o.issuer => NFTQueryWithFilter(Single("issuer", a), r)
      BY <2>1, SingleConditions, SingleEquals, SingleCreated
         DEF NFTQueryWithFilter, UnlockQuery, CreatedOptions
    <3> QED
      BY <2>1, <3>1, <3>2, <3>3, SelectsOf
  <2> QED
    BY <2>1, <2>2, <2>3, <2>4, SingleUnlock
<1>4. CASE o \in AccountOutputs
  <2>1. o.kind = "account" /\ r.address = o.address /\ r.sender = o.sender /\ r.issuer = o.issuer
    BY <1>4, AccountRow
  <2>2. a \in {o.issuer, o.sender, o.address}
    BY <1>4, CountedAddresses
  <2>3. ASSUME NEW n \in {"address", "sender", "issuer"},
               AccountQueryWithFilter(Single(n, a), r)
        PROVE  Finds(n)
    <3>1. n \in OptionsOf[o.kind] /\ n \in AddressOptions
      BY <2>1 DEF OptionsOf, AccountOptions, AddressOptions
    <3>2. a \in Values(n)
      BY <1>1, <3>1, OptionValues
    <3> QED
      BY <2>1, <2>3, <3>1, <3>2, SelectsOf
  <2>4. /\ a = o.address => AccountQueryWithFilter(Single("address", a), r)
        /\ a = o.sender => AccountQueryWithFilter(Single("sender", a), r)
        /\ a = o.issuer => AccountQueryWithFilter(Single("issuer", a), r)
    BY <2>1, SingleConditions, SingleEquals, SingleCreated
       DEF AccountQueryWithFilter, CreatedOptions
  <2> QED
    BY <2>2, <2>3, <2>4
<1>5. CASE o \in AnchorOutputs
  <2>1. /\ o.kind = "anchor" /\ r.sender = o.sender /\ r.issuer = o.issuer
        /\ r.state_controller = o.stateController /\ r.governor = o.governor
    BY <1>5, AnchorRow
  <2>2. a \in {o.issuer, o.sender, o.stateController, o.governor}
    BY <1>5, CountedAddresses
  <2>3. ASSUME NEW n \in {"stateController", "governor", "sender", "issuer"},
               AnchorQueryWithFilter(Single(n, a), r)
        PROVE  Finds(n)
    <3>1. n \in OptionsOf[o.kind] /\ n \in AddressOptions
      BY <2>1 DEF OptionsOf, AnchorOptions, AddressOptions
    <3>2. a \in Values(n)
      BY <1>1, <3>1, OptionValues
    <3> QED
      BY <2>1, <2>3, <3>1, <3>2, SelectsOf
  <2>4. /\ a = o.stateController => AnchorQueryWithFilter(Single("stateController", a), r)
        /\ a = o.governor => AnchorQueryWithFilter(Single("governor", a), r)
        /\ a = o.sender => AnchorQueryWithFilter(Single("sender", a), r)
        /\ a = o.issuer => AnchorQueryWithFilter(Single("issuer", a), r)
    BY <2>1, SingleConditions, SingleEquals, SingleCreated
       DEF AnchorQueryWithFilter, CreatedOptions
  <2> QED
    BY <2>2, <2>3, <2>4
<1>6. CASE o \in FoundryOutputs
  <2>1. o.kind = "foundry" /\ r.account_address = o.account
    BY <1>6, FoundryRow
  <2>2. a = o.account
    BY <1>6, CountedAddresses
  <2>3. "account" \in OptionsOf[o.kind] /\ "account" \in AddressOptions
    BY <2>1 DEF OptionsOf, FoundryOptions, AddressOptions
  <2>4. a \in Values("account")
    BY <1>6, <2>2, FoundryFacts, OptionValues
  <2>5. FoundryOutputsQueryWithFilter(Single("account", a), r)
    BY <2>1, <2>2, SingleConditions, SingleEquals, SingleCreated
       DEF FoundryOutputsQueryWithFilter, CreatedOptions
  <2> QED
    BY <2>1, <2>3, <2>4, <2>5, SelectsOf
<1>7. CASE o \in DelegationOutputs
  <2>1. o.kind = "delegation" /\ r.address = o.address /\ r.validator = o.validator
    BY <1>7, DelegationRow
  <2>2. a \in {o.address, o.validator}
    BY <1>7, CountedAddresses
  <2>3. {"address", "validator"} \subseteq OptionsOf[o.kind] \cap AddressOptions
    BY <2>1 DEF OptionsOf, DelegationOptions, AddressOptions
  <2>4. a \in Values("address") /\ (a = o.validator => a \in Values("validator"))
    BY <1>1, <1>7, <2>3, OptionValues DEF DelegationOutputs
  <2>5. /\ a = o.address => DelegationQueryWithFilter(Single("address", a), r)
        /\ a = o.validator => DelegationQueryWithFilter(Single("validator", a), r)
    BY <2>1, SingleConditions, SingleEquals, SingleCreated
       DEF DelegationQueryWithFilter, CreatedOptions
  <2> QED
    BY <2>1, <2>2, <2>3, <2>4, <2>5, SelectsOf
<1> QED
  BY <1>2, <1>3, <1>4, <1>5, <1>6, <1>7 DEF LedgerOutputs

LEMMA FilterInvCountedAddressFinds == FilterInv => CountedAddressFinds
<1> SUFFICES ASSUME FilterInv, row # NULL, NEW a \in counted
             PROVE  \E n \in OptionsOf[output.kind] \cap AddressOptions :
                      a \in Values(n) /\ Selects(output.kind, Single(n, a), row)
  BY DEF CountedAddressFinds, Single
<1>1. /\ output \in LedgerOutputs /\ row = EntryForOutput(output)
      /\ counted = AddressesInOutput(output)
  BY DEF FilterInv, TypeOK
<1> QED
  BY <1>1, CountedFinds

\* No address is counted that the output could not be found by, for any ledger
\* (addressesInOutput against the queries).
THEOREM CountedAddressesFind == Spec => []CountedAddressFinds
BY FilterInvariance, FilterInvCountedAddressFinds, PTL

-----------------------------------------------------------------------------
(* A detail of a condition and the condition.                                *)

\* The column that is NULL when a condition is absent.
ConditionColumn(h, r) ==
  CASE h = "hasNativeToken"          -> r.native_token_amount
    [] h = "hasStorageDepositReturn" -> r.storage_deposit_return
    [] h = "hasExpiration"           -> r.expiration_return_address
    [] h = "hasTimelock"             -> r.timelock_slot

LEMMA SingleHas ==
  ASSUME NEW h, NEW c, c # NULL
  PROVE  Has(Single(h, TRUE), h, c) /\ ~Has(Single(h, FALSE), h, c)
BY SingleFacts DEF Has

LEMMA ConditionColumns ==
  ASSUME NEW r
  PROVE  /\ ConditionColumn("hasNativeToken", r) = r.native_token_amount
         /\ ConditionColumn("hasStorageDepositReturn", r) = r.storage_deposit_return
         /\ ConditionColumn("hasExpiration", r) = r.expiration_return_address
         /\ ConditionColumn("hasTimelock", r) = r.timelock_slot
BY DEF ConditionColumn

\* A row with the condition is selected by the option that asks for it and not
\* by the one that asks for its absence.
LEMMA ConditionSelects ==
  ASSUME NEW r, NEW h \in {"hasStorageDepositReturn", "hasExpiration", "hasTimelock"},
         ConditionColumn(h, r) # NULL
  PROVE  UnlockQuery(Single(h, TRUE), r) /\ ~UnlockQuery(Single(h, FALSE), r)
<1>1. CASE h = "hasStorageDepositReturn"
  BY <1>1, ConditionColumns, SingleHas, SingleConditions DEF UnlockQuery
<1>2. CASE h = "hasExpiration"
  BY <1>2, ConditionColumns, SingleHas, SingleConditions DEF UnlockQuery
<1>3. CASE h = "hasTimelock"
  BY <1>3, ConditionColumns, SingleHas, SingleConditions DEF UnlockQuery
<1> QED
  BY <1>1, <1>2, <1>3

LEMMA TableConditionSelects ==
  ASSUME NEW r, NEW h, ConditionColumn(h, r) # NULL,
         NEW kind, \/ kind = "basic" /\ h \in DOMAIN Details
                   \/ kind = "nft" /\ h \in DOMAIN Details \ {"hasNativeToken"}
  PROVE  Selects(kind, Single(h, TRUE), r) /\ ~Selects(kind, Single(h, FALSE), r)
<1>1. h \in {"hasNativeToken", "hasStorageDepositReturn", "hasExpiration", "hasTimelock"}
  BY DEF Details
<1>2. h \notin CreatedOptions
  BY <1>1 DEF CreatedOptions
<1>3. CASE h = "hasNativeToken"
  <2>1. kind = "basic"
    BY <1>3
  <2>2. \A v : UnlockQuery(Single(h, v), r)
    BY <1>3, SingleConditions DEF UnlockQuery
  <2>3. Has(Single(h, TRUE), h, r.native_token_amount)
          /\ ~Has(Single(h, FALSE), h, r.native_token_amount)
    BY <1>3, ConditionColumns, SingleHas
  <2>4. \A v : Equals(Single(h, v), "nativeToken", r.native_token)
    BY <1>3, SingleConditions
  <2>5. BasicQueryWithFilter(Single(h, TRUE), r) /\ ~BasicQueryWithFilter(Single(h, FALSE), r)
    BY <1>2, <1>3, <2>2, <2>3, <2>4, SingleCreated DEF BasicQueryWithFilter
  <2> QED
    BY <2>1, <2>5, SelectsOf
<1>4. CASE h # "hasNativeToken"
  <2>1. UnlockQuery(Single(h, TRUE), r) /\ ~UnlockQuery(Single(h, FALSE), r)
    BY <1>1, <1>4, ConditionSelects
  <2>2. \A c : /\ Has(Single(h, TRUE), "hasNativeToken", c)
               /\ Equals(Single(h, TRUE), "nativeToken", c)
               /\ Equals(Single(h, TRUE), "issuer", c)
    BY <1>1, <1>4, SingleConditions
  <2>3. CreatedIn(Single(h, TRUE), r)
    BY <1>2, SingleCreated
  <2>4. CASE kind = "basic"
    <3>1. BasicQueryWithFilter(Single(h, TRUE), r) /\ ~BasicQueryWithFilter(Single(h, FALSE), r)
      BY <2>1, <2>2, <2>3 DEF BasicQueryWithFilter
    <3> QED
      BY <2>4, <3>1, SelectsOf
  <2>5. CASE kind = "nft"
    <3>1. NFTQueryWithFilter(Single(h, TRUE), r) /\ ~NFTQueryWithFilter(Single(h, FALSE), r)
      BY <2>1, <2>2, <2>3 DEF NFTQueryWithFilter
    <3> QED
      BY <2>5, <3>1, SelectsOf
  <2> QED
    BY <2>4, <2>5
<1> QED
  BY <1>3, <1>4

\* A row selected by a detail of a condition has the condition.
LEMMA DetailNeedsCondition ==
  ASSUME NEW o \in BasicOutputs \cup NFTOutputs, NEW q, Request(o.kind, q),
         Selects(o.kind, q, EntryForOutput(o)),
         NEW h \in DOMAIN Details, NEW d \in Details[h], d \in DOMAIN q
  PROVE  /\ ConditionColumn(h, EntryForOutput(o)) # NULL
         /\ h = "hasNativeToken" => o.kind = "basic"
<1> DEFINE r == EntryForOutput(o)
<1>1. /\ o.kind \in {"basic", "nft"}
      /\ r.storage_deposit_return = Amount(o.depositReturn)
      /\ r.storage_deposit_return_address = o.depositReturn
      /\ r.timelock_slot = o.timelock
      /\ r.expiration_slot = ExpirationSlot(o)
      /\ r.expiration_return_address = ExpirationTo(o)
  BY BasicRow, NFTRow
<1>2. o.kind = "basic" => r.native_token = o.token /\ r.native_token_amount = Amount(o.token)
  <2>1. o \in NFTOutputs => o.kind = "nft"
    BY NFTRow
  <2> QED
    BY <2>1, BasicRow
<1>3. d \in OptionsAt(o.kind) /\ q[d] \in Values(d)
  BY DEF Request
<1>4. ExpirationSlot(o) # NULL => ExpirationTo(o) # NULL
  BY ExpirationFacts
<1> HIDE DEF r
<1>5. UnlockQuery(q, r) /\ (o.kind = "basic" => BasicQueryWithFilter(q, r))
  BY <1>1, SelectsOf DEF BasicQueryWithFilter, NFTQueryWithFilter, r
<1>6. h \in {"hasNativeToken", "hasStorageDepositReturn", "hasExpiration", "hasTimelock"}
  BY DEF Details
<1>7. CASE h = "hasNativeToken"
  <2>1. d = "nativeToken"
    BY <1>7 DEF Details
  <2>2. o.kind = "basic"
    BY <1>1, <1>3, <2>1 DEF OptionsAt, OptionsOf, NFTOptions, UnlockOptions, CreatedOptions
  <2>3. q[d] \in Tokens /\ r.native_token = q[d]
    BY <1>3, <1>5, <2>1, <2>2, OptionValues DEF BasicQueryWithFilter, Equals
  <2>4. r.native_token_amount # NULL
    BY <1>2, <2>2, <2>3, AmountPresent, NULLAssumption
  <2> QED
    BY <1>7, <2>2, <2>4, ConditionColumns DEF r
<1>8. CASE h = "hasStorageDepositReturn"
  <2>1. d = "storageDepositReturnAddress"
    BY <1>8 DEF Details
  <2>2. q[d] \in Addresses /\ r.storage_deposit_return_address = q[d]
    BY <1>3, <1>5, <2>1, OptionValues DEF UnlockQuery, Equals, AddressOptions
  <2>3. r.storage_deposit_return # NULL
    BY <1>1, <2>2, AmountPresent, NULLAssumption
  <2> QED
    BY <1>8, <2>3, ConditionColumns DEF r
<1>9. CASE h = "hasExpiration"
  <2>1. d \in {"expirationReturnAddress", "expiresBefore", "expiresAfter"}
    BY <1>9 DEF Details
  <2>2. CASE d = "expirationReturnAddress"
    <3>1. q[d] \in Addresses /\ r.expiration_return_address = q[d]
      BY <1>3, <1>5, <2>2, OptionValues DEF UnlockQuery, Equals, AddressOptions
    <3> QED
      BY <1>9, <3>1, NULLAssumption, ConditionColumns DEF r
  <2>3. CASE d # "expirationReturnAddress"
    <3>1. r.expiration_slot # NULL
      BY <1>5, <2>1, <2>3 DEF UnlockQuery, Below, Above
    <3> QED
      BY <1>1, <1>4, <1>9, <3>1, ConditionColumns DEF r
  <2> QED
    BY <2>2, <2>3
<1>10. CASE h = "hasTimelock"
  <2>1. d \in {"timelockedBefore", "timelockedAfter"}
    BY <1>10 DEF Details
  <2>2. r.timelock_slot # NULL
    BY <1>5, <2>1 DEF UnlockQuery, Below, Above
  <2> QED
    BY <1>10, <2>2, ConditionColumns DEF r
<1> QED
  BY <1>6, <1>7, <1>8, <1>9, <1>10

LEMMA FilterInvDetailsAgree == FilterInv => DetailsAgree
<1> SUFFICES ASSUME FilterInv, Found, endpoint \in {"basic", "nft"},
                    NEW h \in DOMAIN Details, DOMAIN request \cap Details[h] # {}
             PROVE  Selects(endpoint, Single(h, TRUE), row)
                      /\ ~Selects(endpoint, Single(h, FALSE), row)
  BY DEF DetailsAgree, Single
<1>1. endpoint # "combined" /\ endpoint # NULL
  BY NULLAssumption DEF Found
<1>2. /\ row = EntryForOutput(output) /\ Request(endpoint, request)
      /\ output \in LedgerOutputs /\ endpoint = output.kind
      /\ Selects(endpoint, request, row)
  BY <1>1, AskedRow DEF FilterInv, TypeOK, Endpoints, Found
<1>3. output \in BasicOutputs \cup NFTOutputs
  <2>1. output.kind \notin {"account", "anchor", "foundry", "delegation"}
    BY <1>2
  <2> QED
    BY <1>2, <2>1, AccountRow, AnchorRow, FoundryRow, DelegationRow DEF LedgerOutputs
<1>4. PICK d \in Details[h] : d \in DOMAIN request
  OBVIOUS
<1>5. ConditionColumn(h, row) # NULL /\ (h = "hasNativeToken" => endpoint = "basic")
  BY <1>2, <1>3, <1>4, DetailNeedsCondition
<1> QED
  BY <1>5, TableConditionSelects

\* An output found by a detail of a condition has the condition, as the option
\* that asks for its presence answers, for any ledger and any request (the NULL
\* columns of basicQueryWithFilter and nftQueryWithFilter).
THEOREM DetailsAgreeWithConditions == Spec => []DetailsAgree
BY FilterInvariance, FilterInvDetailsAgree, PTL
=============================================================================
