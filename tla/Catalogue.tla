------------------------------ MODULE Catalogue ------------------------------
(***************************************************************************)
(* src/discovery/catalog.py and src/training/admission.py over the asset   *)
(* registry: builders search for the assets of a tenant and freeze what    *)
(* they found into a build manifest.  A search takes the registry's lock   *)
(* once for the list of ids and once per record, and what it hands out are *)
(* the immutable records of those moments: freeze() judges these and never *)
(* asks the registry again, so withdrawals fall between all of them.       *)
(*                                                                         *)
(* An asset_id is a number, its rank in the order of strings.              *)
(***************************************************************************)
EXTENDS AssetStore, MerkleTree

CONSTANTS
    Builders,           \* threads that search and freeze
    Keyed,              \* the custodians whose keys the pipeline was given
    Actions,            \* strings in usage_constraints
    Asked,              \* bound: those of them a search asks for
    MandateText(_),     \* the text a record's signed fields are joined to
    NotSearching,
    NoManifest,
    MaxAdmitted,        \* bound: length of the list passed to freeze()
    MaxTime             \* bound: the second the clock stops at

ASSUME CatalogueAssumption ==
    /\ Assets \subseteq Nat
    /\ "train" \in Actions /\ Asked \subseteq Actions
    /\ \A m \in Metadata :
         /\ m.tenant \in Tenants
         /\ m.content \in Contents
         /\ m.from \in Int /\ m.until \in Int /\ m.from < m.until
         /\ m.actions \subseteq Actions
    /\ MaxAdmitted \in Nat
    /\ MaxTime \in Nat

VARIABLES
    now,            \* the wall clock, in seconds
    search,         \* per builder: the search() it is in
    found,          \* per builder: what its last search() returned
    manifest        \* per builder: the BuildManifest it froze last

catalogueVars == <<now, search, found, manifest>>
vars == <<storeVars, catalogueVars>>

(* A record as a search hands it out.                                      *)
Handle == [asset : Assets, meta : Metadata, withdrawn : BOOLEAN]

(* `known` and `gone` are history: what was registered and what withdrawn  *)
(* when the search began.                                                  *)
Search == [tenant : Tenants, actions : SUBSET Actions, audit : BOOLEAN, todo : SUBSET Assets,
           results : Seq(Handle), known : SUBSET Assets, gone : SUBSET Assets]

ASSUME SearchAssumption == NotSearching \notin Search

Manifest == [tenant : Tenants, at : Nat, admitted : Seq(Assets), contents : Seq(Contents),
             root : Nat, gone : SUBSET Assets]

NothingFound == [results |-> <<>>, gone |-> {}]

Init ==
    /\ StoreInit
    /\ now = 0
    /\ search = [b \in Builders |-> NotSearching]
    /\ found = [b \in Builders |-> NothingFound]
    /\ manifest = [b \in Builders |-> NoManifest]

-----------------------------------------------------------------------------
(* search(tenant_id, action, include_withdrawn).  `actions` is {} for no   *)
(* action asked for, else the one asked for.                               *)

KnownAssets == {a \in Assets : Registered(a)}

StartSearch(b, t, actions, audit) ==
    /\ search[b] = NotSearching
    /\ manifest[b] = NoManifest
    /\ search' = [search EXCEPT ![b] =
                    [tenant |-> t, actions |-> actions, audit |-> audit, todo |-> KnownAssets,
                     results |-> <<>>, known |-> KnownAssets, gone |-> withdrawn]]
    /\ UNCHANGED <<storeVars, now, found, manifest>>

Matches(m, s) ==
    /\ m.tenant = s.tenant
    /\ m.actions = {} \/ s.actions \subseteq m.actions

(* A filter that forgets the withdrawn flag.                               *)
PassesWithdrawn(a, s) == Matches(catalog[a], s)

Passes(a, s) ==
    /\ Matches(catalog[a], s)
    /\ a \in withdrawn => s.audit

(* One get() of the loop, and the filters on the record it returned.  Ids  *)
(* come in order, so the sort at the end changes nothing.                  *)
ReadNext(b) ==
    /\ search[b] # NotSearching
    /\ search[b].todo # {}
    /\ LET s == search[b]
           a == Min(s.todo)
           h == [asset |-> a, meta |-> catalog[a], withdrawn |-> a \in withdrawn]
       IN  search' = [search EXCEPT ![b].todo = @ \ {a},
                                    ![b].results = IF Passes(a, s) THEN Append(@, h) ELSE @]
    /\ UNCHANGED <<storeVars, now, found, manifest>>

EndSearch(b) ==
    /\ search[b] # NotSearching
    /\ search[b].todo = {}
    /\ found' = [found EXCEPT ![b] = [results |-> search[b].results, gone |-> search[b].gone]]
    /\ search' = [search EXCEPT ![b] = NotSearching]
    /\ UNCHANGED <<storeVars, now, manifest>>

-----------------------------------------------------------------------------
(* admit() and freeze().                                                   *)

(* What a mandate signs is one text: the fields joined by "|", and the     *)
(* strings of the two sets, in order, by ",".  These strings may hold a    *)
(* "," or a "|" themselves, so other fields may be joined to the same text *)
(* and nothing is assumed of MandateText.                                  *)
MandateMessage(a, m) ==
    MandateText([asset |-> a, content |-> m.content, custodian |-> m.custodian,
                 tenant |-> m.tenant, from |-> m.from, until |-> m.until, rights |-> m.rights,
                 actions |-> m.actions, scopes |-> m.scopes, consent |-> m.consent])

(* m.mandate is the key and the text that were signed.                     *)
VerifyMandate(a, m) == m.mandate = <<m.custodian, MandateMessage(a, m)>>

MandateVerified(a, m) == m.custodian \in Keyed /\ VerifyMandate(a, m)

InScope(a, m, t) ==
    /\ MandateVerified(a, m)
    /\ m.tenant = t
    /\ now \in m.from..m.until
    /\ m.actions = {} \/ "train" \in m.actions

(* An admission that does not look at the withdrawn flag.                  *)
AdmitWithdrawn(h, t) == InScope(h.asset, h.meta, t)

Admit(h, t) == InScope(h.asset, h.meta, t) /\ ~h.withdrawn

(* freeze(): any list of handles, one twice and none at all included; an   *)
(* AdmissionError about one of them leaves no manifest.  As a bound, a     *)
(* builder freezes one manifest and then drops its handles.                *)
Freeze(b, t) ==
    \E list \in SeqOf(ToSet(found[b].results), MaxAdmitted) :
        LET ordered == SortedBy(list, [i \in DOMAIN list |-> list[i].asset])
            contents == [i \in DOMAIN ordered |-> ordered[i].meta.content]
        IN  /\ search[b] = NotSearching
            /\ manifest[b] = NoManifest
            /\ \A i \in DOMAIN list : Admit(list[i], t)
            /\ manifest' = [manifest EXCEPT ![b] =
                 [tenant |-> t, at |-> now,
                  admitted |-> [i \in DOMAIN ordered |-> ordered[i].asset],
                  contents |-> contents,
                  root |-> MerkleRoot(contents),
                  gone |-> found[b].gone]]
            /\ found' = [found EXCEPT ![b] = NothingFound]
            /\ UNCHANGED <<storeVars, now, search>>

VerifyManifest(m) == m.root = MerkleRoot(m.contents)

-----------------------------------------------------------------------------
RegistryStep ==
    /\ \/ \E a \in Assets, m \in Metadata : Register(a, m, FALSE)
       \/ \E v \in Revokers, a \in Assets : WithdrawMark(v, a)
    /\ UNCHANGED catalogueVars

Tick ==
    /\ now < MaxTime
    /\ now' = now + 1
    /\ UNCHANGED <<storeVars, search, found, manifest>>

Next ==
    \/ \E b \in Builders :
         \/ \E t \in Tenants :
              \/ \E actions \in {{}} \cup {{x} : x \in Asked}, audit \in BOOLEAN :
                   StartSearch(b, t, actions, audit)
              \/ Freeze(b, t)
         \/ ReadNext(b)
         \/ EndSearch(b)
    \/ RegistryStep
    \/ Tick

Spec == Init /\ [][Next]_vars

-----------------------------------------------------------------------------
(* Every variable of the catalogue keeps its type.                         *)
CatalogueTypeOK ==
    /\ StoreTypeOK
    /\ now \in 0..MaxTime
    /\ search \in [Builders -> Search \cup {NotSearching}]
    /\ found \in [Builders -> [results : Seq(Handle), gone : SUBSET Assets]]
    /\ manifest \in [Builders -> Manifest \cup {NoManifest}]

Results(b) == ToSet(found'[b].results)

(* "discovery can never hand out revoked handles; callers that need audit  *)
(* visibility opt in explicitly" (catalog.py:4), as far as a search that   *)
(* reads record by record can keep it: what was withdrawn when it began is *)
(* left out, or marked in an audit; what is not withdrawn when it ends is  *)
(* not missing; nothing comes twice or from another tenant.                *)
SearchSound ==
    [][\A b \in Builders :
         search[b] # NotSearching /\ search'[b] = NotSearching =>
           LET s == search[b]
               wanted == {a \in s.known : Matches(catalog[a], s)}
               given == {h.asset : h \in Results(b)}
           IN  /\ wanted \ (IF s.audit THEN {} ELSE withdrawn) \subseteq given
               /\ given \subseteq wanted \ (IF s.audit THEN {} ELSE s.gone)
               /\ Len(found'[b].results) = Cardinality(given)
               /\ \A h \in Results(b) :
                    /\ h.withdrawn => h.asset \in withdrawn
                    /\ h.asset \in s.gone => h.withdrawn]_vars

(* The docstring of admission.py: what a manifest admits is, by what the   *)
(* registry says, under a mandate that its custodian signed for the text   *)
(* of its record, for the very content listed, in the tenant, in date and  *)
(* open to training, and was not withdrawn before the search that found it *)
(* began, whatever the builder searched for.                               *)
ManifestsLawful ==
    \A b \in Builders : manifest[b] # NoManifest =>
        LET m == manifest[b]
        IN  \A i \in DOMAIN m.admitted :
              LET a == m.admitted[i]
              IN  /\ Registered(a)
                  /\ MandateVerified(a, catalog[a])
                  /\ catalog[a].content = m.contents[i]
                  /\ catalog[a].tenant = m.tenant
                  /\ m.at \in catalog[a].from..catalog[a].until
                  /\ catalog[a].actions = {} \/ "train" \in catalog[a].actions
                  /\ a \notin m.gone

ContentLists == SeqOf(Contents, MaxAdmitted)

RootOf == [list \in ContentLists |-> MerkleRoot(list)]

(* "any post-freeze substitution is detectable" (admission.py:7), as far   *)
(* as the root of a tree with doubled leaves and no mark of them can tell: *)
(* a list as long as the manifest's that still verifies under its root has *)
(* the same contents, in another order perhaps.  Of a list of another      *)
(* length nothing is said, for it may hold digests of the contents.        *)
RootPinsContents ==
    \A b \in Builders : manifest[b] # NoManifest =>
        LET m == manifest[b]
        IN  /\ VerifyManifest(m)
            /\ \A list \in ContentLists :
                 Len(list) = Len(m.contents) /\ RootOf[list] = m.root =>
                   ToSet(list) = ToSet(m.contents)

=============================================================================
