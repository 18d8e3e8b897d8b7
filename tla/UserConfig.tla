----------------------------- MODULE UserConfig -----------------------------
(***************************************************************************)
(* One user's configuration of one plugin                                  *)
(* (internal/api/handlers_user_config.go, internal/store/user_config.go):  *)
(* a value in Redis that the browser reads with its passwords masked and   *)
(* sends back whole, so that a masked password has to be replaced by the   *)
(* stored one. The schema has a password of its own ("top") and a list of  *)
(* accounts ("items"), each with a password: a group_array.                *)
(*                                                                         *)
(* A step is one command to Redis, or one edit in a browser tab.           *)
(***************************************************************************)
EXTENDS Integers, Sequences, SequencesExt

CONSTANTS
    Tab,             \* browser tabs of the user
    Account,         \* what an item is for; its right password is the account itself
    Password,        \* what the user may enter as the top password
    Malformed,       \* an item that fails validation
    Masked, Absent,  \* passwordPlaceholder; a key that is not there
    MinItems, MaxItems,
    MaxFormEdits,    \* BOUND: edits of a form before it is sent
    MaxSaves,        \* BOUND: POSTs
    MaxFaults,       \* BOUND: failed commands
    MaxUpgrades      \* BOUND: times the plugin's version is switched

ASSUME UserConfigAssumption ==
    /\ MinItems \in Nat /\ MaxItems \in Nat /\ MinItems <= MaxItems
    /\ {Masked, Absent, Malformed} \cap (Account \cup Password) = {}
    /\ Masked # Absent /\ Malformed # Masked /\ Malformed # Absent
    /\ {MaxFormEdits, MaxSaves, MaxFaults, MaxUpgrades} \subseteq Nat

VARIABLES
    stored,      \* user:<id>:plugin:<id>:config, {} if there is none
    schema,      \* the keys config.user.json declares
    tab,         \* each tab: what it shows, and the POST it is in
    saves, faults, upgrades

boundVars == <<saves, faults, upgrades>>
configVars == <<stored, schema, tab, boundVars>>

Keys == {"top", "items"}
Nothing == [top |-> Absent, items |-> <<>>]
IdleTab == [pc |-> "closed", draft |-> Nothing, clean |-> Nothing, edits |-> 0,
            stale |-> FALSE]

Item(label, password) == [label |-> label, password |-> password]
At(t, pc) == tab[t].pc = pc
Draft(t) == tab[t].draft
Fails == faults < MaxFaults /\ faults' = faults + 1
Close(t) == tab' = [tab EXCEPT ![t] = IdleTab]

-----------------------------------------------------------------------------
(***************************************************************************)
(* GET: maskUserConfigValues. A key without a value stays without one.     *)
(***************************************************************************)
MaskPassword(v) == IF v = Absent THEN Absent ELSE Masked

MaskUserConfigValues(values) ==
    [top |-> IF "top" \in schema THEN MaskPassword(values.top) ELSE values.top,
     items |-> [i \in DOMAIN values.items |->
        IF "items" \in schema
        THEN [values.items[i] EXCEPT !.password = MaskPassword(@)]
        ELSE values.items[i]]]

Load(t) ==
    /\ At(t, "closed")
    /\ tab' = [tab EXCEPT ![t].pc = "editing", ![t].draft = MaskUserConfigValues(stored)]
    /\ UNCHANGED <<stored, schema, boundVars>>

-----------------------------------------------------------------------------
(***************************************************************************)
(* What the user does to the form.                                         *)
(***************************************************************************)
Drafts(d) ==
    {[d EXCEPT !.top = p] : p \in Password}
    \cup {[d EXCEPT !.items = Append(@, Item(a, a))] :
             a \in {b \in Account \cup {Malformed} : Len(d.items) <= MaxItems}}
    \cup {[d EXCEPT !.items = RemoveAt(@, i)] : i \in DOMAIN d.items}
    \cup {[d EXCEPT !.items = ReplaceAt(@, i, Item(d.items[i].label, d.items[i].label))] :
             i \in DOMAIN d.items}

Edit(t) ==
    /\ At(t, "editing") /\ tab[t].edits < MaxFormEdits
    /\ \E d \in Drafts(Draft(t)) :
          tab' = [tab EXCEPT ![t].draft = d, ![t].edits = @ + 1]
    /\ UNCHANGED <<stored, schema, boundVars>>

-----------------------------------------------------------------------------
(***************************************************************************)
(* POST: handleSetUserConfigValues.                                        *)
(***************************************************************************)
\* normalizeUserConfigValue, validateGroupArrayFieldValue
Valid(d) ==
    "items" \in schema =>
        /\ Len(d.items) \in MinItems..MaxItems
        /\ \A i \in DOMAIN d.items : d.items[i].label # Malformed

\* Only keys declared in the schema are kept.
Filtered(d) ==
    [top |-> IF "top" \in schema THEN d.top ELSE Absent,
     items |-> IF "items" \in schema THEN d.items ELSE <<>>]

\* MUTANT: a placeholder for a password that was never stored is left in place
KeepsPlaceholder(v, existing) ==
    IF v = Masked /\ existing.top # Absent THEN existing.top ELSE v

\* preserveExistingPasswords: a masked item takes the password of the item that is now
\* stored at its index.
PreserveTop(v, existing) == IF v = Masked THEN existing.top ELSE v

\* MUTANT: i < len(oldItems) with an index that is one too high
MissesLastItem(items, existing, i) ==
    IF items[i].password # Masked THEN items[i]
    ELSE Item(items[i].label,
              IF i < Len(existing.items) THEN existing.items[i].password ELSE Absent)

PreserveItem(items, existing, i) ==
    IF items[i].password # Masked THEN items[i]
    ELSE Item(items[i].label,
              IF i <= Len(existing.items) THEN existing.items[i].password ELSE Absent)

PreserveExistingPasswords(filtered, existing) ==
    [top |-> PreserveTop(filtered.top, existing),
     items |-> [i \in DOMAIN filtered.items |-> PreserveItem(filtered.items, existing, i)]]

Reject(t) ==
    /\ At(t, "editing")
    /\ saves < MaxSaves
    /\ ~Valid(Draft(t))
    /\ Close(t)
    /\ saves' = saves + 1
    /\ UNCHANGED <<stored, schema, faults, upgrades>>

\* UserConfigStore: a missing key gives nothing; Set replaces the whole value.
Get == stored
Set(values) == stored' = values

\* The error of the first Get is dropped and nothing taken for the stored values.
Read(t) ==
    /\ At(t, "editing")
    /\ saves < MaxSaves
    /\ Valid(Draft(t))
    /\ saves' = saves + 1
    /\ \E existing \in {Get, Nothing} :
          /\ \/ existing = Get /\ UNCHANGED faults
             \/ existing = Nothing /\ Fails
          /\ tab' = [tab EXCEPT
                ![t].pc = "saving",
                ![t].clean = PreserveExistingPasswords(Filtered(Draft(t)), existing),
                ![t].stale = existing # stored]
    /\ UNCHANGED <<stored, schema, upgrades>>

\* Set, and the notification to the plugin, which changes nothing here; the page reloads.
Save(t) ==
    /\ At(t, "saving")
    /\ Set(tab[t].clean)
    /\ tab' = [u \in Tab |->
          IF u = t THEN IdleTab ELSE [tab[u] EXCEPT !.stale = @ \/ tab[u].pc = "saving"]]
    /\ UNCHANGED <<schema, boundVars>>

SaveFails(t) ==
    /\ At(t, "saving")
    /\ Fails
    /\ Close(t)
    /\ UNCHANGED <<stored, schema, saves, upgrades>>

\* UpgradePlugin and back: another version declares other keys.
Upgrade ==
    /\ upgrades < MaxUpgrades
    /\ schema' \in (SUBSET Keys) \ {schema}
    /\ upgrades' = upgrades + 1
    /\ UNCHANGED <<stored, tab, saves, faults>>

\* What an earlier session may have saved.
ConfigInit ==
    /\ \E p \in Password \cup {Absent}, accounts \in BoundedSeq(Account, MaxItems) :
          stored = [top |-> p, items |-> [i \in DOMAIN accounts |-> Item(accounts[i], accounts[i])]]
    /\ schema = Keys
    /\ tab = [t \in Tab |-> IdleTab]
    /\ saves = 0 /\ faults = 0 /\ upgrades = 0

ConfigNext ==
    \/ \E t \in Tab : Load(t) \/ Edit(t) \/ Reject(t) \/ Read(t) \/ Save(t) \/ SaveFails(t)
    \/ Upgrade

ConfigSpec == ConfigInit /\ [][ConfigNext]_configVars

-----------------------------------------------------------------------------
(***************************************************************************)
(* Properties.                                                             *)
(***************************************************************************)
ItemType == [label : Account, password : Account \cup {Absent}]

\* What is stored has no placeholder in it, whatever was masked, removed, saved from another
\* tab, dropped by an upgrade or lost in a failed read between the GET and the POST; and a
\* list that was refused is not stored (preserveExistingPasswords, normalizeUserConfigValue).
ConfigTypeOK ==
    /\ stored.top \in Password \cup {Absent}
    /\ stored.items \in Seq(ItemType) /\ Len(stored.items) <= MaxItems
    /\ schema \subseteq Keys
    /\ \A t \in Tab : tab[t].pc \in {"closed", "editing", "saving"}

\* A password that was sent masked, at the place where it is stored, is the same after the
\* save: "the existing stored secret is preserved" (passwordPlaceholder), also when it was
\* changed from another tab since it was read, unless reading it failed or another save came
\* between the read and the write.
MaskedIsPreserved ==
    [][\A t \in Tab : At(t, "saving") /\ tab'[t].pc = "closed" /\ faults' = faults /\ ~tab[t].stale =>
          /\ Draft(t).top = Masked /\ stored'.top # stored.top => stored'.top = Absent /\ upgrades > 0
          /\ \A i \in DOMAIN stored'.items \cap DOMAIN stored.items :
                /\ Draft(t).items[i].password = Masked
                /\ Draft(t).items[i].label = stored.items[i].label
                => stored'.items[i] = stored.items[i]
      ]_configVars

\* A password that was sent masked stays with its item: no account is stored with the
\* password of another (preserveExistingPasswords: "preventing the UI round-trip from
\* overwriting a real secret").
EachItsOwnPassword ==
    \A i \in DOMAIN stored.items : stored.items[i].password \in {stored.items[i].label, Absent}
=============================================================================
