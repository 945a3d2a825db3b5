---------------------------- MODULE ConfigStore -----------------------------
(***************************************************************************)
(* The files the service itself rewrites (mutsuki-service-config/src/      *)
(* lib.rs): rotate of HostSecretStore and SecretStore on the secret file,  *)
(* replace_config and patch_product_surface of ConfiguredPluginStore on    *)
(* the product file.  Each is a read, a change of the parsed document and  *)
(* an atomic_write under the store's write_lock; rotate validates and      *)
(* publishes the entries it keeps in memory after the file has been        *)
(* replaced.  Beside them an operator edits the files, and the process     *)
(* crashes and starts again.  An operation that is refused before its      *)
(* write changes nothing and is no step here.                              *)
(***************************************************************************)
EXTENDS Naturals, FiniteSets

CONSTANTS
  Writers,   \* threads that change a file
  Keys,      \* raw keys of the secret file
  Fields,    \* writable fields of the product surface
  Values,    \* usable values
  Name(_),   \* normalize_secret_key
  EnvKeys,   \* normalised keys an environment variable overrides
  MaxEdits   \* bound: edits by the operator

\* A normalised key is a key, and normalising it changes nothing.
ASSUME StoreAssumption ==
  /\ \A k \in Keys : Name(k) \in Keys /\ Name(Name(k)) = Name(k)
  /\ MaxEdits \in Nat

Blank == "blank"      \* a value validation refuses

Absent == "absent"    \* no entry

ReadOnly == "instance_id"   \* and distribution_mode, auth_token_key

PluginConfig == "config"    \* the config of the one configured plugin

Secrets == "secrets"

Product == "product"

Names == {Name(k) : k \in Keys}

ProductSlots == Fields \cup {PluginConfig}

Slots == ({Secrets} \X Names) \cup ({Product} \X ProductSlots)

VARIABLES
  csFile,    \* [Secrets -> [Keys -> value], Product -> [Fields -> value]]
  csUp,      \* the process runs and has loaded its configuration
  csMem,     \* the entries of the SecretStore
  csWriter,  \* the writers
  csAcked,   \* what the last successful change of a slot has written
  csEdited,  \* slots the operator has changed since
  csEdits

csVars == <<csFile, csUp, csMem, csWriter, csAcked, csEdited, csEdits>>

Documents(keys) == [keys -> Values \cup {Blank, Absent}]

Idle == [pc |-> "idle", file |-> Product, doc |-> <<>>, slots |-> {}, value |-> Absent]

\* A writer that holds a document of one of the files, and what it changes there.
StoreWriters ==
  {Idle}
    \cup [pc : {"changed", "replaced"}, file : {Secrets}, doc : Documents(Keys), slots : SUBSET Names,
          value : Values]
    \cup [pc : {"changed", "replaced"}, file : {Product}, doc : Documents(ProductSlots),
          slots : SUBSET ProductSlots, value : Values]

StoreTypeOK ==
  /\ csFile \in [{Secrets, Product} -> Documents(Keys) \cup Documents(ProductSlots)]
  /\ csFile[Secrets] \in Documents(Keys) /\ csFile[Product] \in Documents(ProductSlots)
  /\ csUp \in BOOLEAN /\ csMem \in [Names -> Values \cup {Absent}]
  /\ csWriter \in [Writers -> StoreWriters]
  /\ csAcked \in [Slots -> Values \cup {Blank, Absent}]
  /\ csEdited \subseteq Slots /\ csEdits \in 0..MaxEdits

\* validate_secret_entries: no blank value, no two keys of one name.
Valid(doc) ==
  /\ \A k \in Keys : doc[k] # Blank
  /\ \A k, l \in Keys : Name(k) = Name(l) /\ Absent \notin {doc[k], doc[l]} => k = l

KeysOf(doc, n) == {k \in Keys : Name(k) = n /\ doc[k] # Absent}

OneOf(keys) == CHOOSE k \in keys : TRUE

Entries(doc) ==
  [n \in Names |-> IF KeysOf(doc, n) = {} THEN Absent ELSE doc[OneOf(KeysOf(doc, n))]]

StoreInit ==
  /\ \E doc \in Documents(Keys) : Valid(doc) /\ csFile = [f \in {Secrets, Product} |->
        IF f = Secrets THEN doc ELSE [x \in ProductSlots |-> Absent]]
  /\ csUp = TRUE /\ csMem = Entries(csFile[Secrets])
  /\ csWriter = [w \in Writers |-> Idle]
  /\ csAcked = [s \in Slots |-> IF s[1] = Secrets THEN csMem[s[2]] ELSE Absent]
  /\ csEdited = {} /\ csEdits = 0

-----------------------------------------------------------------------------
\* The slots a writer is changing.
InHand(w) == {csWriter[w].file} \X csWriter[w].slots

\* Mutant: no write_lock.
Unlocked_Always(f) == TRUE

\* write_lock: one for each store, and a loaded configuration has one store for
\* each of the two files.
Unlocked(f) == \A w \in Writers : csWriter[w].pc = "idle" \/ csWriter[w].file # f

\* retain and insert of rotate: every key of the name goes, the normalised
\* one comes in.
Rotated(doc, n, v) ==
  [k \in Keys |-> IF k = n THEN v ELSE IF Name(k) = n THEN Absent ELSE doc[k]]

Begin(w, f, doc, xs, v) ==
  /\ csUp /\ csWriter[w].pc = "idle" /\ Unlocked(f)
  /\ csWriter' = [csWriter EXCEPT ![w] =
        [pc |-> "changed", file |-> f, doc |-> doc, slots |-> xs, value |-> v]]
  /\ UNCHANGED <<csFile, csUp, csMem, csAcked, csEdited, csEdits>>

\* HostSecretStore::rotate refuses names the environment controls.
Rotate(w, n, v) ==
  /\ n \notin EnvKeys
  /\ Begin(w, Secrets, Rotated(csFile[Secrets], n, v), {n}, v)

\* patch_product_surface: all the fields or, when one is read-only, none.
PatchProduct(w, fields, v) ==
  /\ fields # {} /\ ReadOnly \notin fields
  /\ Begin(w, Product, [x \in ProductSlots |-> IF x \in fields THEN v ELSE csFile[Product][x]],
           fields, v)

\* replace_config needs the selection of the plugin to be there, once.
ReplaceConfig(w, v) ==
  /\ csFile[Product][PluginConfig] # Absent
  /\ Begin(w, Product, [csFile[Product] EXCEPT ![PluginConfig] = v], {PluginConfig}, v)

\* atomic_write: a temporary file that is renamed over the old one.  A crash
\* or an error before the rename leaves the old file.
Replace(w) ==
  /\ csWriter[w].pc = "changed"
  /\ csFile' = [csFile EXCEPT ![csWriter[w].file] = csWriter[w].doc]
  /\ csWriter' = [csWriter EXCEPT ![w].pc = "replaced"]
  /\ csEdited' = csEdited \ InHand(w)
  /\ UNCHANGED <<csUp, csMem, csAcked, csEdits>>

ReplaceFails(w) ==
  /\ csWriter[w].pc = "changed"
  /\ csWriter' = [csWriter EXCEPT ![w] = Idle]
  /\ UNCHANGED <<csFile, csUp, csMem, csAcked, csEdited, csEdits>>

Acknowledge(w) ==
  /\ csAcked' = [s \in Slots |-> IF s \in InHand(w) THEN csWriter[w].value ELSE csAcked[s]]
  /\ UNCHANGED csEdited

\* rotate goes on with the document it has written: an invalid entry beside
\* the rotated one is an error now, with the file replaced all the same.
Publish(w) ==
  /\ csWriter[w].pc = "replaced"
  /\ csWriter' = [csWriter EXCEPT ![w] = Idle]
  /\ \/ /\ csWriter[w].file = Product /\ Acknowledge(w)
        /\ UNCHANGED csMem
     \/ /\ csWriter[w].file = Secrets /\ Valid(csWriter[w].doc) /\ Acknowledge(w)
        /\ csMem' = Entries(csWriter[w].doc)
     \/ /\ csWriter[w].file = Secrets /\ ~Valid(csWriter[w].doc)
        /\ csEdited' = csEdited \cup InHand(w)
        /\ UNCHANGED <<csMem, csAcked>>
  /\ UNCHANGED <<csFile, csUp, csEdits>>

-----------------------------------------------------------------------------
\* The operator saves a file; write_lock does not keep him from it.
Edit(f, x, v) ==
  /\ csEdits < MaxEdits /\ csEdits' = csEdits + 1
  /\ csFile' = [csFile EXCEPT ![f][x] = v]
  /\ csEdited' = csEdited \cup {<<f, IF f = Secrets THEN Name(x) ELSE x>>}
  /\ UNCHANGED <<csUp, csMem, csWriter, csAcked>>

CrashStore ==
  /\ csUp /\ csUp' = FALSE
  /\ csWriter' = [w \in Writers |-> Idle]
  /\ csEdited' = csEdited \cup UNION {InHand(w) : w \in Writers}
  /\ UNCHANGED <<csFile, csMem, csAcked, csEdits>>

\* load_secret_file: an invalid file fails the start.
LoadSecrets ==
  /\ ~csUp /\ Valid(csFile[Secrets]) /\ csUp' = TRUE
  /\ csMem' = Entries(csFile[Secrets])
  /\ UNCHANGED <<csFile, csWriter, csAcked, csEdited, csEdits>>

StoreNext ==
  \/ \E w \in Writers :
       \/ \E n \in Names, v \in Values : Rotate(w, n, v)
       \/ \E fields \in SUBSET (Fields \cup {ReadOnly}), v \in Values : PatchProduct(w, fields, v)
       \/ \E v \in Values : ReplaceConfig(w, v)
       \/ Replace(w) \/ ReplaceFails(w) \/ Publish(w)
  \/ \E x \in Keys, v \in Values \cup {Blank, Absent} : Edit(Secrets, x, v)
  \/ \E x \in ProductSlots, v \in Values : Edit(Product, x, v)
  \/ CrashStore \/ LoadSecrets

StoreSpec == StoreInit /\ [][StoreNext]_csVars

-----------------------------------------------------------------------------
OnDisk(s) == IF s[1] = Product THEN csFile[Product][s[2]] ELSE Entries(csFile[Secrets])[s[2]]

\* A change that was reported as done stays: it is on disk, and a secret also
\* in memory, until the same slot is changed again, by the service or by hand,
\* whatever the other writers do and however often the process crashes.
AcknowledgedChangeKept ==
  \A s \in Slots \ csEdited :
    (\A w \in Writers : s \notin InHand(w))
      => /\ OnDisk(s) = csAcked[s]
         /\ s[1] = Secrets /\ csUp => csMem[s[2]] = csAcked[s]
=============================================================================
