--------------------------- MODULE ResourceTable ---------------------------
(***************************************************************************)
(* The registry of live resource handles of an application                 *)
(* (resource_table.mbt).  An entry is stored under an id made of the       *)
(* table's prefix and a sequence number; the table also keeps the ids in   *)
(* the order they were opened, and both structures are updated by hand on  *)
(* every open and close.                                                   *)
(*                                                                         *)
(* Everything is named Resource... because the channel table is a resource *)
(* table with more state and EXTENDS this module.                          *)
(***************************************************************************)
EXTENDS Naturals, Sequences, FiniteSets, Lists

CONSTANTS
  IdPrefix,    (* first half of every id of this table                      *)
  Kinds,       (* the resource kinds callers name                           *)
  EmptyKind,   (* the empty string as a kind: refused by validate           *)
  Owners,      (* plugins that own resources                                *)
  Windows,     (* window labels that can appear in a resource's metadata    *)
  NoWindow,    (* metadata without a "window" member                        *)
  MaxOpens     (* bound on the successful opens of a behaviour              *)

ASSUME ResourceAssumption ==
  /\ MaxOpens \in Nat
  /\ EmptyKind \notin Kinds
  /\ NoWindow \notin Windows

VARIABLES
  nextSequence,  (* next_sequence: the number the next open takes           *)
  entries,       (* entries: the live entries by id                         *)
  order          (* order: the live ids, oldest first                       *)

resourceVars == <<nextSequence, entries, order>>

(* The descriptors a caller may pass, a refused one included.              *)
Descriptors ==
  [kind: Kinds \cup {EmptyKind}, owner: Owners, window: Windows \cup {NoWindow}]

Id(sequence) == <<IdPrefix, sequence>>

ResourceIds == {Id(sequence) : sequence \in 1 .. MaxOpens}

Entries ==
  [sequence: Nat \ {0}, kind: Kinds, owner: Owners,
   window: Windows \cup {NoWindow}]

ResourceInit ==
  /\ nextSequence = 1
  /\ entries = [id \in {} |-> id]
  /\ order = <<>>

-----------------------------------------------------------------------------
(* ids that a search over the table selects *)
EntriesByKind(kind) == {id \in DOMAIN entries : entries[id].kind = kind}
EntriesByOwner(owner) == {id \in DOMAIN entries : entries[id].owner = owner}

(* The entry an accepted descriptor is stored as.                          *)
NewEntry(descriptor) ==
  [sequence |-> nextSequence, kind |-> descriptor.kind,
   owner |-> descriptor.owner, window |-> descriptor.window]

(* Broken: the number of live entries is taken for the next number.        *)
BrokenResourceOpen(descriptor) ==
  /\ descriptor.kind # EmptyKind
  /\ nextSequence <= MaxOpens
  /\ nextSequence' = Len(order) + 2
  /\ entries' = [id \in DOMAIN entries \cup {Id(nextSequence)} |->
                   IF id = Id(nextSequence) THEN NewEntry(descriptor)
                                            ELSE entries[id]]
  /\ order' = Append(order, Id(nextSequence))

(* open: a descriptor without a kind is refused and takes no number.       *)
ResourceOpen(descriptor) ==
  /\ descriptor.kind # EmptyKind
  /\ nextSequence <= MaxOpens
  /\ nextSequence' = nextSequence + 1
  /\ entries' = [id \in DOMAIN entries \cup {Id(nextSequence)} |->
                   IF id = Id(nextSequence) THEN NewEntry(descriptor)
                                            ELSE entries[id]]
  /\ order' = Append(order, Id(nextSequence))

(* Broken: close_entries forgets remove_ordered_id.                        *)
BrokenResourceCloseEntries(ids) ==
  /\ entries' = [id \in DOMAIN entries \ ids |-> entries[id]]
  /\ UNCHANGED <<nextSequence, order>>

(* close_entries: every selected entry leaves the map and the order list.  *)
ResourceCloseEntries(ids) ==
  /\ entries' = [id \in DOMAIN entries \ ids |-> entries[id]]
  /\ Without(order, ids, order')
  /\ UNCHANGED nextSequence

(* close *)
ResourceClose(id) ==
  /\ id \in DOMAIN entries
  /\ ResourceCloseEntries({id})

(* close_handle: the caller's idea of the kind has to match.               *)
ResourceCloseHandle(id, kind) ==
  /\ kind # EmptyKind
  /\ id \in DOMAIN entries
  /\ entries[id].kind = kind
  /\ ResourceClose(id)

ResourceCloseKind(kind) == ResourceCloseEntries(EntriesByKind(kind))
ResourceCloseOwner(owner) == ResourceCloseEntries(EntriesByOwner(owner))
ResourceCloseAll == ResourceCloseEntries({order[i] : i \in DOMAIN order})

ResourceNext ==
  \/ \E descriptor \in Descriptors : ResourceOpen(descriptor)
  \/ \E id \in ResourceIds : ResourceClose(id)
  \/ \E id \in ResourceIds, kind \in Kinds \cup {EmptyKind} :
        ResourceCloseHandle(id, kind)
  \/ \E kind \in Kinds : ResourceCloseKind(kind)
  \/ \E owner \in Owners : ResourceCloseOwner(owner)
  \/ ResourceCloseAll

ResourceSpec == ResourceInit /\ [][ResourceNext]_resourceVars

-----------------------------------------------------------------------------
(* The type invariant; every entry is filed under the id of its number,    *)
(* and no live entry carries a number the counter has yet to hand out.     *)
ResourceTypeOK ==
  /\ nextSequence \in 1 .. MaxOpens + 1
  /\ DOMAIN entries \subseteq {Id(n) : n \in 1 .. nextSequence - 1}
  /\ entries \in [DOMAIN entries -> Entries]
  /\ \A id \in DOMAIN entries : id = Id(entries[id].sequence)
  /\ order \in Seq(DOMAIN entries)

(* The two structures of the table agree: the order list names every live  *)
(* entry, and names them oldest first (so none twice).                     *)
OrderIsOpeningOrder ==
  /\ DOMAIN entries = {order[i] : i \in DOMAIN order}
  /\ \A i, j \in DOMAIN order :
        i < j => entries[order[i]].sequence < entries[order[j]].sequence

(* A number that was handed out stays so, and its id, which a page may     *)
(* still hold when the entry is closed, never names a later entry.         *)
NeverReopened ==
  [][/\ nextSequence' >= nextSequence
     /\ \A n \in 1 .. nextSequence - 1 :
          Id(n) \notin DOMAIN entries => Id(n) \notin DOMAIN entries'
    ]_resourceVars

=============================================================================
