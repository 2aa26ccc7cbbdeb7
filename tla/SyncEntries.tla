---------------------------- MODULE SyncEntries -----------------------------
(***************************************************************************)
(* POST /api/v1/sync/entries/deleted and /changed (src/sync/dao.rs).  An      *)
(* upload names each entry once, with the list the app keeps it in.          *)
(***************************************************************************)
EXTENDS Schema

Readable(u) == Owned(u) \cup {l \in DOMAIN lists : <<u, l>> \in DOMAIN list_permissions}
MayWrite(u, l) ==
  \/ lists[l].owner = u
  \/ <<u, l>> \in DOMAIN list_permissions /\ list_permissions[<<u, l>>].write

\* Faulty: what was deleted within the second of the last request is left out.
EntriesDeletedAfter(u, since) ==
  {e \in DOMAIN deleted_entry : /\ deleted_entry[e].list \in Readable(u)
                                /\ deleted_entry[e].created > Sec(since)}

DeletedEntriesDelta(u, since) ==
  {e \in DOMAIN deleted_entry : /\ deleted_entry[e].list \in Readable(u)
                                /\ deleted_entry[e].created >= Sec(since)}

\* The entries the upload removes; req maps entries to lists.  The right to
\* write is asked only of a list that exists.
EntriesToDelete(u, req, since) ==
  {e \in (DOMAIN req \cap DOMAIN entries) \ DeletedEntriesDelta(u, since) :
     /\ req[e] \notin DOMAIN deleted_list
     /\ req[e] \in DOMAIN lists => MayWrite(u, req[e])}

\* The tombstone needs its list and must be the first one.
UpdateDeletedEntriesFails(u, req, since) ==
  \E e \in EntriesToDelete(u, req, since) :
    req[e] \notin DOMAIN lists \/ e \in DOMAIN deleted_entry

UpdateDeletedEntries(u, req, since) ==
  LET gone == EntriesToDelete(u, req, since)
  IN  /\ ~UpdateDeletedEntriesFails(u, req, since)
      /\ entries' = Delete(entries, gone)
      /\ deleted_entry' = Put(deleted_entry,
                            [e \in gone |-> [list |-> req[e], created |-> Sec(clock)]])
      /\ UNCHANGED <<clock, accounts, listTables, tombstones>>
-----------------------------------------------------------------------------
\* Faulty: the delta goes by the client's change date.
EntriesChangedSince(u, since) ==
  {e \in DOMAIN entries : /\ entries[e].list \in Readable(u)
                          /\ entries[e].changed >= Sec(since)}

\* What changed for u, by the server's own "updated" date.
UpdatedEntries(u, since) ==
  {e \in DOMAIN entries : /\ entries[e].list \in Readable(u)
                          /\ entries[e].updated >= Sec(since)}

\* Items that get past the date checks; req maps entries to [list, changed, tip].
CheckedItems(u, req, since) ==
  {e \in DOMAIN req :
     /\ req[e].changed <= clock
     /\ e \in UpdatedEntries(u, since) => entries[e].changed <= req[e].changed}

\* What is sent back: not the entries the upload has newer data for.
ChangedEntriesDelta(u, req, since) ==
  UpdatedEntries(u, since) \ CheckedItems(u, req, since)

\* Faulty: tombstones, or the dates of the rows that exist, are not looked at.
EntriesToRevive(u, req, since) ==
  {e \in CheckedItems(u, req, since) :
     /\ MayWrite(u, req[e].list)
     /\ e \in DOMAIN entries => entries[e].changed < req[e].changed}
EntriesToOverwrite(u, req, since) ==
  {e \in CheckedItems(u, req, since) \ DOMAIN deleted_entry : MayWrite(u, req[e].list)}

EntriesToWrite(u, req, since) ==
  {e \in CheckedItems(u, req, since) \ DOMAIN deleted_entry :
     /\ MayWrite(u, req[e].list)
     /\ e \in DOMAIN entries => entries[e].changed < req[e].changed}

\* The owner of the list is read with fetch_one: no such list is an error.
UpdateChangedEntriesFails(u, req, since) ==
  \E e \in CheckedItems(u, req, since) : req[e].list \notin DOMAIN lists

UpdateChangedEntries(u, req, since) ==
  /\ ~UpdateChangedEntriesFails(u, req, since)
  /\ entries' = Put(entries, [e \in EntriesToWrite(u, req, since) |->
                  [list |-> IF e \in DOMAIN entries THEN entries[e].list ELSE req[e].list,
                   changed |-> Sec(req[e].changed),
                   updated |-> Sec(clock),
                   tip |-> req[e].tip]])
  /\ UNCHANGED <<clock, accounts, listTables, deleted_entry, tombstones>>
=============================================================================
