------------------------------- MODULE Accounts -------------------------------
(***************************************************************************)
(* The life of an account: fetched, banned and quarantined when the         *)
(* platform says it is gone, unbanned, deleted by the operator.             *)
(*                                                                          *)
(* Three stores that no transaction spans must agree on a user: his entry   *)
(* in config.toml (PolicyStore), his folder, and the paths in his rows.     *)
(* PolicyStore reads the file once, when its process starts, and every      *)
(* change writes the whole copy back: the running archiver and a command    *)
(* of the operator each have a copy of their own.                           *)
(*                                                                          *)
(* The archiver is one process (InstanceLock); its cycle visits the users   *)
(* one after the other, in any order here, and its stories lane is a thread *)
(* beside it.  What a send is made of is the subject of Dispatcher and      *)
(* SendEnvelope.                                                            *)
(***************************************************************************)
EXTENDS Naturals, FiniteSets

CONSTANTS
    User, File,
    Owner,          \* Owner[f]: whose file it is
    NoAccount, NoFile,
    CommandBound,   \* bound: commands of the operator, sends that fail
    FaultBound      \* bound: kills, deferred moves, row updates that fail

ASSUME OwnerAssumption == Owner \in [File -> User]
ASSUME UserAssumption == NoAccount \notin User /\ NoFile \notin File
ASSUME BoundAssumption == CommandBound \in Nat /\ FaultBound \in Nat

VARIABLES
    conf,       \* config.toml
    copy,       \* the running archiver's copy of it
    fetched,    \* the users its platforms were built with
    aged,       \* users whose trashed_at is RETENTION_DAYS old
    place,      \* where each file is
    row,        \* its row in the items table
    posted,     \* files whose bytes are in the chat
    lpc, luser, lto, lseen,     \* archiver: step, user, target, files counted
    lane,       \* the file the stories lane has written and not registered
    cpc, cuser, ccopy,          \* command: step, user, its copy of config.toml
    dpc, dfile, dpath,          \* dispatcher: step, the row as claimed
    strayed,    \* history: files whose row lost them, by a listed cause
    unseen,     \* history: files trashed that had no row when they were counted
    overwritten,    \* history: users whose entry a command replaced unread
    commands, faults

roster == <<conf, copy, fetched, aged>>
archiver == <<lpc, luser, lto, lseen, lane>>
command == <<cpc, cuser, ccopy>>
dispatcher == <<dpc, dfile, dpath, posted>>
history == <<strayed, unseen, overwritten>>
bounds == <<commands, faults>>
accountVars == <<roster, place, row, archiver, command, dispatcher, history, bounds>>

\* home is {platform}/{user}, quarantine is .deleted/{user}, stamped is
\* .deleted/{user}__{time}.
Folder == {"home", "quarantine", "stamped"}
Place == Folder \cup {"none", "trash", "uploaded"}
Entry == [active : BOOLEAN, banned : BOOLEAN, deleting : {"no", "asked", "trashed"}]
Row == [status : {"absent", "pending", "sending", "sent", "failed"}, path : Folder]
NoRow == [status |-> "absent", path |-> "home"]
NoCopy == [u \in User |-> [active |-> FALSE, banned |-> FALSE, deleting |-> "no"]]

Files(u) == {f \in File : Owner[f] = u}
In(u, folder) == {f \in Files(u) : place[f] = folder}     \* an empty folder is none
HasRow(f) == row[f].status # "absent"
DeletingUntrashed(entries, u) == entries[u].deleting = "asked"
Deleting(entries, u) == entries[u].deleting # "no"

AccountsTypeOK ==
    /\ {conf, copy, ccopy} \subseteq [User -> Entry]
    /\ fetched \subseteq User /\ aged \subseteq User
    /\ place \in [File -> Place] /\ row \in [File -> Row]
    /\ lpc \in {"down", "run", "banned", "moved", "counted", "trashed", "purged"}
    /\ luser \in User \cup {NoAccount} /\ lto \in Folder /\ lane \in File \cup {NoFile}
    /\ cpc \in {"idle", "delete", "cancel", "add", "unban", "restore", "moved", "readd"}
    /\ cuser \in User \cup {NoAccount}
    /\ dpc \in {"idle", "claimed", "posted", "sent"}
    /\ dfile \in File \cup {NoFile} /\ dpath \in Folder
    /\ {posted, lseen, strayed, unseen} \subseteq SUBSET File
    /\ overwritten \subseteq User
    /\ commands \in 0 .. CommandBound /\ faults \in 0 .. FaultBound

AccountsInit ==
    /\ conf = [u \in User |-> [active |-> TRUE, banned |-> FALSE, deleting |-> "no"]]
    /\ copy = NoCopy /\ ccopy = NoCopy
    /\ fetched = {} /\ aged = {}
    /\ place = [f \in File |-> "none"]
    /\ row = [f \in File |-> NoRow]
    /\ posted = {} /\ lseen = {} /\ strayed = {} /\ unseen = {} /\ overwritten = {}
    /\ lpc = "down" /\ luser = NoAccount /\ lto = "home" /\ lane = NoFile
    /\ cpc = "idle" /\ cuser = NoAccount
    /\ dpc = "idle" /\ dfile = NoFile /\ dpath = "home"
    /\ commands = 0 /\ faults = 0

Fault == faults < FaultBound /\ faults' = faults + 1 /\ UNCHANGED commands
OperatorActs == commands < CommandBound /\ commands' = commands + 1 /\ UNCHANGED faults

\* PolicyStore: change this process's copy and write all of it to the file.
Persist(u, entry) ==
    /\ copy' = [copy EXCEPT ![u] = entry]
    /\ conf' = copy'

RepointedPending(u, from, to) ==
    [f \in File |-> IF Owner[f] = u /\ row[f].status = "pending" /\ row[f].path = from
                    THEN [row[f] EXCEPT !.path = to] ELSE row[f]]
\* _repoint_rows: every row of u under one folder, onto another.
Repointed(u, from, to) ==
    [f \in File |-> IF Owner[f] = u /\ HasRow(f) /\ row[f].path = from
                    THEN [row[f] EXCEPT !.path = to] ELSE row[f]]

\* The rename of u's folder takes every file in it along.  Between a rename
\* and its repoint, a second rename of u's strays his rows.
MidMove(u) ==
    \/ lpc = "moved" /\ luser = u
    \/ cpc = "moved" /\ cuser = u
MovingTo(u) ==
    IF lpc = "moved" /\ luser = u THEN lto ELSE "home"
Rename(u, from, to) ==
    /\ place' = [f \in File |-> IF f \in In(u, from) THEN to ELSE place[f]]
    /\ strayed' = IF MidMove(u) THEN strayed \cup Files(u) ELSE strayed

-----------------------------------------------------------------------------
(* The archiver *)

NextTurn == lpc' = "run" /\ luser' = NoAccount /\ lto' = "home" /\ lseen' = {}

\* archiver loop, run: the platforms' user lists are fixed here.
StartArchiver ==
    /\ lpc = "down"
    /\ copy' = conf
    /\ fetched' = {u \in User : conf[u].active}
    /\ lpc' = "run"
    /\ UNCHANGED <<conf, aged, place, row, luser, lto, lseen, lane, command,
                   dispatcher, history, bounds>>

Stop ==
    /\ lpc' = "down" /\ luser' = NoAccount /\ lto' = "home" /\ lseen' = {} /\ lane' = NoFile
    /\ copy' = NoCopy /\ fetched' = {}
    /\ UNCHANGED <<conf, aged, place, row, command, dispatcher, unseen, overwritten>>

StopArchiver == lpc = "run" /\ Stop /\ UNCHANGED <<strayed, bounds>>

\* A kill between the rename and the repoint leaves the rows behind.
Crash ==
    /\ lpc \notin {"down", "run"} /\ Stop /\ Fault
    /\ strayed' = IF lpc = "moved" THEN strayed \cup Files(luser) ELSE strayed

Fetched(u) == u \in fetched /\ ~Deleting(copy, u)

\* Platform.download writes a file...
Download(f) ==
    /\ lpc = "run" /\ Fetched(Owner[f]) /\ place[f] = "none"
    /\ place' = [place EXCEPT ![f] = "home"]
    /\ UNCHANGED <<roster, row, archiver, command, dispatcher, history, bounds>>

\* ... and it, a reconcile of a user or the sweep after the run gives it a row.
Register(f) ==
    /\ lpc = "run" /\ ~Deleting(copy, Owner[f])
    /\ place[f] = "home" /\ ~HasRow(f)
    /\ row' = [row EXCEPT ![f] = [status |-> "pending", path |-> "home"]]
    /\ UNCHANGED <<roster, place, archiver, command, dispatcher, history, bounds>>

\* The stories lane: a thread of the same process, with its own connection.  It
\* looks at the file, hashes it, and inserts the row under the path it saw.
LaneWrite(f) ==
    /\ lpc # "down" /\ lane = NoFile /\ Fetched(Owner[f]) /\ place[f] = "none"
    /\ place' = [place EXCEPT ![f] = "home"]
    /\ lane' = f
    /\ strayed' = IF MidMove(Owner[f]) THEN strayed \cup {f} ELSE strayed
    /\ UNCHANGED <<roster, row, lpc, luser, lto, lseen, command, dispatcher, unseen,
                   overwritten, bounds>>

LaneInsert ==
    /\ lane # NoFile /\ lane' = NoFile
    /\ IF HasRow(lane) THEN UNCHANGED <<row, strayed>>
       ELSE /\ row' = [row EXCEPT ![lane] = [status |-> "pending", path |-> "home"]]
            /\ strayed' = IF place[lane] = "home" \/ place[lane] = MovingTo(Owner[lane])
                          THEN strayed ELSE strayed \cup {lane}
    /\ UNCHANGED <<roster, place, lpc, luser, lto, lseen, command, dispatcher, unseen,
                   overwritten, bounds>>

LaneSkips ==
    /\ lane # NoFile /\ place[lane] # "home" /\ lane' = NoFile
    /\ UNCHANGED <<roster, place, row, lpc, luser, lto, lseen, command, dispatcher,
                   history, bounds>>

\* AccountGoneError: _ban_account writes the roster first.  A user banned
\* earlier in this process is still in fetched, and is found gone again.
AccountGone(u) ==
    /\ lpc = "run" /\ Fetched(u)
    /\ Persist(u, [copy[u] EXCEPT !.active = FALSE, !.banned = TRUE])
    /\ lpc' = "banned" /\ luser' = u
    /\ UNCHANGED <<fetched, aged, place, row, lto, lseen, lane, command, dispatcher,
                   history, bounds>>

\* quarantine_user: the folder leaves the active tree...
Quarantine ==
    /\ lpc = "banned"
    /\ IF In(luser, "home") = {} THEN NextTurn /\ UNCHANGED <<place, strayed>>
       ELSE /\ lto' = IF In(luser, "quarantine") = {} THEN "quarantine" ELSE "stamped"
            /\ Rename(luser, "home", lto')
            /\ lpc' = "moved" /\ UNCHANGED <<luser, lseen>>
    /\ UNCHANGED <<roster, row, lane, command, dispatcher, unseen, overwritten, bounds>>

\* ... unless a recorder holds the user, or the OS refuses.
QuarantineDeferred ==
    /\ lpc = "banned" /\ Fault
    /\ NextTurn
    /\ UNCHANGED <<roster, place, row, lane, command, dispatcher, history>>

\* ... and the queued rows follow it.
Repoint ==
    /\ lpc = "moved"
    /\ row' = Repointed(luser, "home", lto)
    /\ NextTurn
    /\ UNCHANGED <<roster, place, lane, command, dispatcher, history,
                   bounds>>

RepointFails ==
    /\ lpc = "moved" /\ Fault
    /\ strayed' = strayed \cup Files(luser)
    /\ NextTurn
    /\ UNCHANGED <<roster, place, row, lane, command, dispatcher, unseen, overwritten>>

-----------------------------------------------------------------------------
(* process_pending_deletions, at the end of a cycle *)

\* user_status_counts: anything but 'sent' defers the user.
BlocksUnlessFailed(f) == row[f].status \in {"pending", "sending"}
Blocks(f) == row[f].status \notin {"absent", "sent"}

Count(u) ==
    /\ lpc = "run" /\ copy[u].deleting = "asked"
    /\ \A f \in Files(u) : ~Blocks(f)
    /\ lpc' = "counted" /\ luser' = u
    /\ lseen' = {f \in Files(u) : HasRow(f)}
    /\ UNCHANGED <<roster, place, row, lto, lane, command, dispatcher, history, bounds>>

\* A live recorder holds the user, or the trash cannot be used.
TrashDeferred ==
    /\ lpc = "counted" /\ Fault
    /\ NextTurn
    /\ UNCHANGED <<roster, place, row, lane, command, dispatcher, history>>

Trash ==
    /\ lpc = "counted"
    /\ place' = [f \in File |-> IF f \in In(luser, "home") THEN "trash" ELSE place[f]]
    /\ unseen' = unseen \cup (In(luser, "home") \ lseen)
    /\ lpc' = "trashed"
    /\ UNCHANGED <<roster, row, luser, lto, lseen, lane, command, dispatcher, strayed,
                   overwritten, bounds>>

Stamp ==
    /\ lpc = "trashed"
    /\ Persist(luser, [copy[luser] EXCEPT !.deleting = "trashed"])
    /\ aged' = aged \ {luser}
    /\ NextTurn
    /\ UNCHANGED <<fetched, place, row, lane, command, dispatcher,
                   history, bounds>>

\* RETENTION_DAYS later: reset_user, then unmark_deleting.
Purge(u) ==
    /\ lpc = "run" /\ copy[u].deleting = "trashed" /\ u \in aged
    /\ row' = [f \in File |-> IF Owner[f] = u THEN NoRow ELSE row[f]]
    /\ lpc' = "purged" /\ luser' = u
    /\ UNCHANGED <<roster, place, lto, lseen, lane, command, dispatcher, history, bounds>>

Evict ==
    /\ lpc = "purged"
    /\ Persist(luser, [copy[luser] EXCEPT !.deleting = "no"])
    /\ NextTurn
    /\ UNCHANGED <<fetched, aged, place, row, lane, command, dispatcher,
                   history, bounds>>

RetentionEnds(u) ==
    /\ u \notin aged /\ "trashed" \in {conf[u].deleting, copy[u].deleting}
    /\ aged' = aged \cup {u}
    /\ UNCHANGED <<conf, copy, fetched, place, row, archiver, command, dispatcher, history,
                   bounds>>


-----------------------------------------------------------------------------
(* The operator's commands, each a process with its own copy of config.toml *)

CommandStart(cmd, u) ==
    /\ cpc = "idle" /\ OperatorActs
    /\ cpc' = cmd /\ cuser' = u /\ ccopy' = conf
    /\ UNCHANGED <<roster, place, row, archiver, dispatcher, history>>

CommandEnds == cpc' = "idle" /\ cuser' = NoAccount /\ ccopy' = NoCopy

CommandPersist(entry) ==
    /\ conf' = [ccopy EXCEPT ![cuser] = entry]
    /\ overwritten' = overwritten \cup {u \in User : ccopy[u] # conf[u]}
    /\ UNCHANGED <<copy, fetched, aged, place, row, archiver, dispatcher, strayed, unseen,
                   bounds>>

CommandFails ==
    /\ \/ cpc = "delete" /\ Deleting(ccopy, cuser)
       \/ cpc = "cancel" /\ ~Deleting(ccopy, cuser)
       \/ cpc = "unban" /\ ~ccopy[cuser].banned
       \/ cpc = "readd"                     \* unban without --re-add
    /\ CommandEnds
    /\ UNCHANGED <<roster, place, row, archiver, dispatcher, history, bounds>>

\* archiver delete: mark_deleting, remove_user.
CmdDelete ==
    /\ cpc = "delete" /\ ~Deleting(ccopy, cuser)
    /\ CommandPersist([ccopy[cuser] EXCEPT !.deleting = "asked", !.active = FALSE])
    /\ CommandEnds

\* archiver deleting cancel: unmark_deleting, and add_user while nothing is
\* trashed.
CmdCancel ==
    /\ cpc = "cancel" /\ Deleting(ccopy, cuser)
    /\ CommandPersist([ccopy[cuser] EXCEPT !.deleting = "no",
                          !.active = @ \/ ccopy[cuser].deleting = "asked"])
    /\ CommandEnds

\* archiver config add: unban_user, add_user.
CmdAdd ==
    /\ cpc \in {"add", "readd"}
    /\ CommandPersist([ccopy[cuser] EXCEPT !.active = TRUE,
                          !.banned = @ /\ cpc = "readd"])
    /\ CommandEnds

\* archiver banned unban: unban_user, restore_user, and add_user on --re-add.
CmdUnban ==
    /\ cpc = "unban" /\ ccopy[cuser].banned
    /\ CommandPersist([ccopy[cuser] EXCEPT !.banned = FALSE])
    /\ ccopy' = conf' /\ cpc' = "restore" /\ UNCHANGED cuser

\* restore_user never overwrites a live folder, and knows of no stamped one.
Restore ==
    /\ cpc = "restore"
    /\ IF In(cuser, "quarantine") = {} \/ In(cuser, "home") # {}
       THEN cpc' = "readd" /\ UNCHANGED <<place, strayed>>
       ELSE Rename(cuser, "quarantine", "home") /\ cpc' = "moved"
    /\ UNCHANGED <<roster, row, archiver, cuser, ccopy, dispatcher, unseen, overwritten,
                   bounds>>

RestoreRepoint ==
    /\ cpc = "moved"
    /\ row' = Repointed(cuser, "quarantine", "home")
    /\ cpc' = "readd"
    /\ UNCHANGED <<roster, place, archiver, cuser, ccopy, dispatcher, history, bounds>>

RestoreRepointFails ==
    /\ cpc = "moved" /\ Fault
    /\ strayed' = strayed \cup Files(cuser)
    /\ cpc' = "readd"
    /\ UNCHANGED <<roster, place, row, archiver, cuser, ccopy, dispatcher, unseen, overwritten>>

\* dispatcher queue retry
Retry(f) ==
    /\ OperatorActs /\ row[f].status = "failed"
    /\ row' = [row EXCEPT ![f].status = "pending"]
    /\ UNCHANGED <<roster, place, archiver, command, dispatcher, history>>

-----------------------------------------------------------------------------
(* The dispatcher keeps the path it claimed the row with until the send *)

Claim(f) ==
    /\ dpc = "idle" /\ row[f].status = "pending"
    /\ row' = [row EXCEPT ![f].status = "sending"]
    /\ dpc' = "claimed" /\ dfile' = f /\ dpath' = row[f].path
    /\ UNCHANGED <<roster, place, archiver, command, posted, history, bounds>>

BatchEnds == dpc' = "idle" /\ dfile' = NoFile /\ dpath' = "home"

Settled(status) ==
    row' = IF row[dfile].status = "sending" THEN [row EXCEPT ![dfile].status = status]
           ELSE row

FileMissing ==
    /\ dpc = "claimed" /\ place[dfile] # dpath
    /\ Settled("failed") /\ BatchEnds
    /\ UNCHANGED <<roster, place, archiver, command, posted, history, bounds>>

SendFails ==
    /\ dpc = "claimed" /\ OperatorActs
    /\ Settled("failed") /\ BatchEnds
    /\ UNCHANGED <<roster, place, archiver, command, posted, history>>

Post ==
    /\ dpc = "claimed" /\ place[dfile] = dpath
    /\ posted' = posted \cup {dfile} /\ dpc' = "posted"
    /\ UNCHANGED <<roster, place, row, archiver, command, dfile, dpath, history, bounds>>

MarkSent ==
    /\ dpc = "posted"
    /\ Settled("sent") /\ dpc' = "sent"
    /\ UNCHANGED <<roster, place, archiver, command, dfile, dpath, posted, history, bounds>>

\* maybe_delete reads the row again, and unlinks the path it has by now - if
\* the policy and the safebrake let it.
MaybeDelete ==
    /\ dpc = "sent"
    /\ \/ UNCHANGED place
       \/ /\ row[dfile].status = "sent" /\ place[dfile] = row[dfile].path
          /\ place' = [place EXCEPT ![dfile] = "uploaded"]
    /\ BatchEnds
    /\ UNCHANGED <<roster, row, archiver, command, posted, history, bounds>>

\* Housekeeping: delete_failed_missing.
CollectGone(f) ==
    /\ row[f].status = "failed" /\ place[f] # row[f].path
    /\ row' = [row EXCEPT ![f] = NoRow]
    /\ UNCHANGED <<roster, place, archiver, command, dispatcher, history, bounds>>

-----------------------------------------------------------------------------
Sweep == \/ Trash \/ Stamp \/ Evict
         \/ \E u \in User : Count(u) \/ Purge(u)

Lane == LaneInsert \/ LaneSkips \/ \E f \in File : LaneWrite(f)

Archiver ==
    \/ StartArchiver \/ StopArchiver \/ Quarantine \/ Repoint \/ Sweep \/ Lane
    \/ \E f \in File : Download(f) \/ Register(f)
    \/ \E u \in User : AccountGone(u) \/ RetentionEnds(u)

Faults == Crash \/ QuarantineDeferred \/ RepointFails \/ TrashDeferred \/ RestoreRepointFails

Commands ==
    \/ CommandFails \/ CmdDelete \/ CmdCancel \/ CmdAdd \/ CmdUnban
    \/ Restore \/ RestoreRepoint
    \/ \E u \in User, cmd \in {"delete", "cancel", "add", "unban"} : CommandStart(cmd, u)
    \/ \E f \in File : Retry(f)

Dispatcher ==
    \/ FileMissing \/ SendFails \/ Post \/ MarkSent \/ MaybeDelete
    \/ \E f \in File : Claim(f) \/ CollectGone(f)

AccountsNext == Archiver \/ Faults \/ Commands \/ Dispatcher

AccountsSpec == AccountsInit /\ [][AccountsNext]_accountVars

-----------------------------------------------------------------------------
(* Properties *)

Unsent(f) == HasRow(f) /\ f \notin posted

\* quarantine.py: "Queued uploads survive the move".  An unsent row points at
\* its file, except between a rename and its repoint - and unless one of the
\* listed causes strayed it: a kill or an error between the two, two moves of
\* the user that overlapped, or the stories lane writing across a move.
RowsFollowFolder ==
    \A f \in File : Unsent(f) =>
        \/ row[f].path = place[f] \/ MidMove(Owner[f])
        \/ f \in strayed \/ place[f] = "trash"

\* manual_delete.py: "un-uploaded work is never dropped".  Whatever is claimed,
\* moved, re-queued and collected between the count and the trash, a file goes
\* to the trash undelivered only if it had no row when the sweep counted.
TrashSparesQueuedWork ==
    \A f \in File : place[f] = "trash" => f \in posted \/ f \in unseen

\* The retention clock drops rows only of a user with nothing left to send: what
\* the sweep counted stays true for thirty days of cycles, commands and restarts -
\* but for a command that wrote back a copy older than the archiver's last write.
PurgeDropsNoWork ==
    [][\A u \in User \ overwritten : Purge(u) => \A f \in Files(u) : ~Unsent(f)]_accountVars

-----------------------------------------------------------------------------
(* What the code's comments and messages say, and the model refutes *)

\* cli.py, deleting cancel: "Cancelled - the 30-day row GC will NOT run; DB rows
\* are kept", "Cancelled before any trash ... nothing was moved or deleted": the
\* sweep acts only on a deletion that stands in config.toml.
CancelStopsDeletion ==
    [][/\ Trash => Deleting(conf, luser)
       /\ \A u \in User : Purge(u) => Deleting(conf, u)]_accountVars

\* cli.py, config add: "so the two lists stay mutually exclusive".
ListsAreExclusive == \A u \in User : ~(conf[u].active /\ conf[u].banned)

\* quarantine.py: "`restore_user` is the exact inverse, used by `unban`": once
\* an unban is through, nothing of the user's is left in .deleted.
RestoreIsInverse ==
    [][Restore \/ RestoreRepoint =>
            cpc' = "moved" \/ In(cuser, "stamped") = {}]_accountVars
=============================================================================
