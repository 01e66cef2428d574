------------------------------ MODULE StateDir ------------------------------
(***************************************************************************)
(* The daemon's state directory and the commands that use it: starting     *)
(* the daemon (run of crates/siltad/src/main.rs, with prepare_state_dir,   *)
(* build_client and login_or_restore of session.rs), reset-cross-signing   *)
(* (session.rs) and backup (backup.rs), around the delivery watermarks of  *)
(* Marks, whose file is in the same directory.                             *)
(*                                                                         *)
(* The daemon and reset-cross-signing hold the lock of prepare_state_dir   *)
(* for as long as they live, so there is one such process at a time: pc    *)
(* and cmd are its state, and pc = "off" is the free lock.  A second one   *)
(* bails out of prepare_state_dir and changes nothing.  A backup takes no  *)
(* lock.  There is one at a time (a oneshot unit), and its stamps grow.    *)
(*                                                                         *)
(* A login is a number, and stands for the device keys it makes.           *)
(*                                                                         *)
(*   pc, cmd  the process that holds the lock                              *)
(*   session  session.json: NoFile, Garbage or the login it is of          *)
(*   store    the logins whose keys the encryption store holds; opened is  *)
(*            set once the store directory has files in it                 *)
(*   logins   how many logins there were                                   *)
(*   identity the account's cross-signing identity on the homeserver (0 is *)
(*            another client's), made is how many siltad generated         *)
(*   keys     the identity whose private keys are in the store, 0 for none *)
(*   signed   the homeserver shows the device signed by identity           *)
(*   own      the identities of this store's keys that the server took     *)
(*   step     where the backup is                                          *)
(*   draft    the store in the temporary directory, and whether it is      *)
(*            early: session.json was not whole when it was copied, or was *)
(*            deleted since                                                *)
(*   copies   the stamped directories, oldest first, as whether each is    *)
(*            fit to be restored                                           *)
(*   taken    how many backups got as far as their rename                  *)
(***************************************************************************)
EXTENDS Marks, Sequences

CONSTANTS
    Keep,        \* --keep
    MaxCommands, \* bound on the starts of the daemon and of reset-cross-signing
    MaxLogins,   \* bound on the logins
    MaxMade,     \* bound on the identities siltad generates
    MaxTaken     \* bound on the backups

ASSUME StateDirAssumption == {Keep, MaxCommands, MaxLogins, MaxMade, MaxTaken} \subseteq Nat

VARIABLES pc, cmd, commands, session, store, opened, logins, identity, made, keys, signed, own,
          step, draft, copies, taken

process == <<pc, cmd, commands>>
device == <<session, store, opened, logins>>
signing == <<identity, made, keys, signed, own>>
backup == <<step, draft, copies, taken>>
dirVars == <<vars, process, device, signing, backup>>

NoDraft == [store |-> {}, early |-> FALSE]

\* The server knows the account from another client, which made its identity.
DirInit ==
    /\ Init
    /\ pc = "off" /\ cmd = "run" /\ commands = 0
    /\ session = NoFile /\ store = {} /\ opened = FALSE
    /\ logins = 0
    /\ identity = 0 /\ made = 0 /\ keys = 0 /\ signed = FALSE /\ own = {}
    /\ step = "off" /\ draft = NoDraft /\ copies = <<>> /\ taken = 0
-----------------------------------------------------------------------------
(* The process that holds the lock.                                        *)

Exits == pc' = "off" /\ cmd' = "run" /\ UNCHANGED commands

\* The daemon, or reset-cross-signing, which looks for session.json before it takes the
\* lock.
Prepare(c) ==
    /\ pc = "off"
    /\ commands < MaxCommands
    /\ c = "reset" => session # NoFile
    /\ pc' = "locked"
    /\ cmd' = c
    /\ commands' = commands + 1
    /\ UNCHANGED <<vars, device, signing, backup>>

\* Mutation: a store without session.json is opened.
BuildAnyway ==
    /\ pc = "locked"
    /\ pc' = "built"
    /\ opened' = TRUE
    /\ UNCHANGED <<cmd, commands, vars, session, store, logins, signing, backup>>

\* build_client opens the store, and creates its files if need be.
Build ==
    /\ pc = "locked"
    /\ session # NoFile \/ ~opened
    /\ pc' = "built"
    /\ opened' = TRUE
    /\ UNCHANGED <<cmd, commands, vars, session, store, logins, signing, backup>>

\* "session.json is missing but store exists": nothing but the operator helps.
Refuse ==
    /\ pc = "locked"
    /\ session = NoFile /\ opened
    /\ Exits
    /\ UNCHANGED <<vars, device, signing, backup>>

\* login_or_restore with a session.json.  A server out of reach is left to the sync loop; a
\* rejected token, as a file that does not parse, is fatal.
RestoreSession ==
    /\ pc = "built"
    /\ session # NoFile
    /\ \/ session # Garbage /\ pc' = "ready" /\ UNCHANGED <<cmd, commands>>
       \/ Exits
    /\ UNCHANGED <<vars, device, signing, backup>>

\* login_or_restore without one: the server makes a device, and the SDK its keys, whose
\* account goes to the store at once.
LogIn ==
    /\ pc = "built"
    /\ session = NoFile
    /\ logins < MaxLogins
    /\ logins' = logins + 1
    /\ store' = store \cup {logins'}
    /\ signed' = FALSE
    /\ pc' = "save"
    /\ UNCHANGED <<cmd, commands, vars, session, opened, identity, made, keys, own, backup>>

\* write_private creates or truncates the file, then writes it.
OpenSession ==
    /\ pc = "save"
    /\ session' = Garbage
    /\ pc' = "write"
    /\ UNCHANGED <<cmd, commands, vars, store, opened, logins, signing, backup>>

WriteSession ==
    /\ pc = "write"
    /\ session' = logins
    /\ pc' = "ready"
    /\ UNCHANGED <<cmd, commands, vars, store, opened, logins, signing, backup>>

\* Daemon::new loads the watermarks, then sync_loop and the socket server run.
Serve ==
    /\ pc = "ready"
    /\ cmd = "run"
    /\ Restart
    /\ pc' = "up"
    /\ UNCHANGED <<cmd, commands, device, signing, backup>>

Serving ==
    /\ pc = "up"
    /\ Running
    /\ UNCHANGED <<process, device, signing, backup>>

\* The process ends: an error, a signal, a kill, a crash, a token the server does not take
\* (sync_loop), a socket that cannot be bound.
Stop ==
    /\ pc # "off"
    /\ Exits
    /\ Forgotten
    /\ mem' = Empty
    /\ UNCHANGED <<started, tmp, disk, acked, durable, device, signing, backup>>

\* The operator deletes session.json and store/ together, as the messages say.
StartOver ==
    /\ pc = "off"
    /\ opened
    /\ session' = NoFile
    /\ store' = {}
    /\ opened' = FALSE
    /\ keys' = 0
    /\ own' = {}
    /\ draft' = [draft EXCEPT !.early = step # "off"]
    /\ UNCHANGED <<vars, process, logins, identity, made, signed, step, copies, taken>>
-----------------------------------------------------------------------------
(* reset-cross-signing.                                                    *)

\* device_signed_on_server: the SDK fetches the account's identity, and drops stored keys
\* that are not its.
Fetched == keys' = IF keys = identity THEN keys ELSE 0

\* report_cross_signing, a task of the daemon, asks the same.
ReportCrossSigning ==
    /\ pc = "up"
    /\ Fetched
    /\ UNCHANGED <<vars, process, device, identity, made, signed, own, backup>>

\* Mutation: the keys of an interrupted run are not tried.
CheckDeviceAnew ==
    /\ pc = "ready"
    /\ cmd = "reset"
    /\ Fetched
    /\ \/ signed /\ Exits
       \/ ~signed /\ pc' = "replace" /\ UNCHANGED <<cmd, commands>>
    /\ UNCHANGED <<vars, device, identity, made, signed, own, backup>>

CheckDevice ==
    /\ pc = "ready"
    /\ cmd = "reset"
    /\ Fetched
    /\ \/ signed /\ Exits
       \/ /\ ~signed
          /\ pc' = IF keys' # 0 THEN "try" ELSE "replace"
          /\ UNCHANGED <<cmd, commands>>
    /\ UNCHANGED <<vars, device, identity, made, signed, own, backup>>

\* Device::verify signs with the stored keys; the server takes the signature of the
\* identity it knows only.  An answer that is lost is a Stop after this step.
TryStored ==
    /\ pc = "try"
    /\ signed' = (keys = identity)
    /\ pc' = "tried"
    /\ UNCHANGED <<cmd, commands, vars, device, identity, made, keys, own, backup>>

CheckTried ==
    /\ pc = "tried"
    /\ Fetched
    /\ \/ signed /\ Exits
       \/ ~signed /\ pc' = "replace" /\ UNCHANGED <<cmd, commands>>
    /\ UNCHANGED <<vars, device, identity, made, signed, own, backup>>

\* Encryption::reset_cross_signing generates new keys and keeps them in the store.
Generate ==
    /\ pc = "replace"
    /\ made < MaxMade
    /\ made' = made + 1
    /\ keys' = made'
    /\ pc' = "upload"
    /\ UNCHANGED <<cmd, commands, vars, device, identity, signed, own, backup>>

\* The server takes the new identity, authorised by the password or in a browser...
UploadKeys ==
    /\ pc = "upload"
    /\ identity' = keys
    /\ signed' = FALSE
    /\ own' = own \cup {keys}
    /\ pc' = "sign"
    /\ UNCHANGED <<cmd, commands, vars, device, made, keys, backup>>

\* ... and then the signature of the device.
UploadSignature ==
    /\ pc = "sign"
    /\ signed' = (keys = identity)
    /\ pc' = "signed"
    /\ UNCHANGED <<cmd, commands, vars, device, identity, made, keys, own, backup>>

\* The last check says whether the command succeeded.
CheckReset ==
    /\ pc = "signed"
    /\ Fetched
    /\ Exits
    /\ UNCHANGED <<vars, device, identity, made, signed, own, backup>>

\* Another client of the account resets its identity.
OtherReplaces ==
    /\ identity # 0
    /\ identity' = 0
    /\ signed' = FALSE
    /\ UNCHANGED <<vars, process, device, made, keys, own, backup>>
-----------------------------------------------------------------------------
(* backup.                                                                 *)

\* A new temporary directory, whose name no other backup has, then copy_database: VACUUM
\* INTO reads one snapshot of the store.
CopyStore ==
    /\ step = "off"
    /\ taken < MaxTaken
    /\ draft' = [NoDraft EXCEPT !.store = store, !.early = session \in {NoFile, Garbage}]
    /\ step' = "files"
    /\ UNCHANGED <<vars, process, device, signing, copies, taken>>

\* What a stamped directory must be: a delivered.json that is a whole snapshot, and the
\* store and session.json of one login.
Fit(marks) ==
    /\ marks # Garbage
    /\ draft.early \/ (session # Garbage /\ draft.store = {session})

\* prune goes on while there are more copies than it keeps.
Pruning(n) == IF n > Keep THEN "prune" ELSE "off"

\* Mutation: the file under the temporary name is copied.
CopyFilesTmp ==
    /\ step = "files"
    /\ copies' = Append(copies, Fit(tmp))
    /\ taken' = taken + 1
    /\ draft' = NoDraft
    /\ step' = Pruning(Len(copies'))
    /\ UNCHANGED <<vars, process, device, signing>>

\* fs::copy reads the session.json and the delivered.json it opened, whatever is renamed
\* over them meanwhile; then the temporary directory gets its stamped name.
CopyFiles ==
    /\ step = "files"
    /\ copies' = Append(copies, Fit(disk))
    /\ taken' = taken + 1
    /\ draft' = NoDraft
    /\ step' = Pruning(Len(copies'))
    /\ UNCHANGED <<vars, process, device, signing>>

\* remove_dir_all of the oldest copy, file by file.
RemoveFiles ==
    /\ step = "prune"
    /\ copies' = [copies EXCEPT ![1] = FALSE]
    /\ step' = "remove"
    /\ UNCHANGED <<vars, process, device, signing, draft, taken>>

RemoveDir ==
    /\ step = "remove"
    /\ copies' = Tail(copies)
    /\ step' = Pruning(Len(copies'))
    /\ UNCHANGED <<vars, process, device, signing, draft, taken>>

\* An error or a kill: what is under the temporary name is left to a later prune.
BackupFails ==
    /\ step # "off"
    /\ step' = "off"
    /\ draft' = NoDraft
    /\ UNCHANGED <<vars, process, device, signing, copies, taken>>
-----------------------------------------------------------------------------
DirNext ==
    \/ \E c \in {"run", "reset"} : Prepare(c)
    \/ Build \/ Refuse \/ RestoreSession \/ LogIn \/ OpenSession \/ WriteSession
    \/ Serve \/ Serving \/ Stop
    \/ StartOver \/ OtherReplaces
    \/ ReportCrossSigning \/ CheckDevice \/ TryStored \/ CheckTried
    \/ Generate \/ UploadKeys \/ UploadSignature \/ CheckReset
    \/ CopyStore \/ CopyFiles \/ RemoveFiles \/ RemoveDir \/ BackupFails

DirSpec == DirInit /\ [][DirNext]_dirVars
-----------------------------------------------------------------------------
\* The encryption store holds the keys of one login, and a readable session.json is that
\* login's, whenever the daemon was killed: "a fresh login onto an old store would corrupt
\* the encryption state" (build_client).
StoreIsOneDevice ==
    /\ Cardinality(store) <= 1
    /\ session \notin {NoFile, Garbage} => store = {session}

Newest(n) == { i \in 1..Len(copies) : i > Len(copies) - n }

\* "A consistent copy of the store while the daemon runs" (backup.rs), and the newest
\* --keep of them stay: whenever a backup or the daemon was killed, there are that many
\* stamped directories, unless fewer backups finished, and each holds whole files of one
\* device.  A copy begun before the first login was saved may be of a half-made device.
CopiesAreWhole ==
    /\ Cardinality(Newest(Keep)) = (IF taken < Keep THEN taken ELSE Keep)
    /\ \A i \in Newest(Keep) : copies[i]

\* "Keys left in the store by an interrupted run are tried first, so a rerun does not
\* replace the identity once more" (reset_cross_signing): an identity whose keys this
\* store got the server to take is never replaced by another reset.
IdentityReplacedOnce == [][(identity \in own) => (identity' \in {identity, 0})]_dirVars
=============================================================================
