------------------------------ MODULE Identity ------------------------------
(***************************************************************************)
(* The node's identity on disk and the service that opens it: secret.key   *)
(* and secret.meta (src/src/identity.py), the stored password of the       *)
(* machine-id backend (src/src/password.py), the systemd unit and copying  *)
(* of legacy files (src/src/service_install.py), the commands of main.py   *)
(* that run them.  One administrative command runs at a time, beside the   *)
(* daemon; it may die between any two of its writes.  The derived key of a *)
(* password and a salt is taken to be unique to them, and a SecretBox      *)
(* opens under the key that closed it only.                                *)
(***************************************************************************)
EXTENDS Integers

CONSTANTS Passwords,   \* passwords an operator may type
          Seeds,       \* ed25519 seeds; a seed stands for its NodeID too
          None,        \* no password, no seed
          Places,      \* LEGACY_PATHS holds 1..Places directories, in order
          Burst,       \* StartLimitBurst of the unit
          MaxSalts,    \* bound: salts drawn
          MaxFaults    \* bound: commands cut short, daemons that die

ASSUME NoneAssumption == None \notin Passwords /\ None \notin Seeds
ASSUME BoundAssumption == Places \in Nat /\ Burst \in Nat \ {0} /\ MaxSalts \in Nat /\ MaxFaults \in Nat

VARIABLES key,      \* secret.key
          meta,     \* secret.meta
          legacy,   \* the same two files in the legacy places
          stored,   \* password.salt and password.enc
          unit,     \* the unit file: "absent", "written" or "enabled"
          svc,      \* what systemd and the daemon are doing
          cmd,      \* the administrative command in progress
          salts,    \* salts drawn so far
          faults,   \* faults so far
          last,     \* ghost: the password last sealed in, as its user knows
          torn      \* ghost: key and metadata may not belong together

vars == <<key, meta, legacy, stored, unit, svc, cmd, salts, faults, last, torn>>

Salts == 0..(Places + MaxSalts)

NoKey  == [kind |-> "none", seed |-> None, pw |-> None, salt |-> 0]
Part   == [NoKey EXCEPT !.kind = "part"]
Raw(s) == [NoKey EXCEPT !.kind = "raw", !.seed = s]
Box(s, p, n) == [kind |-> "box", seed |-> s, pw |-> p, salt |-> n]

NoMeta == [kind |-> "none", node |-> None, salt |-> 0]
PartMeta == [NoMeta EXCEPT !.kind = "part"]
Meta(s, n) == [kind |-> "whole", node |-> s, salt |-> n]

KeyFiles  == [kind : {"none", "part", "raw", "box"}, seed : Seeds \cup {None},
              pw : Passwords \cup {None}, salt : Salts]
MetaFiles == [kind : {"none", "part", "whole"}, node : Seeds \cup {None}, salt : Salts]

(* The two files exist, whatever they hold.                                *)
is_sealed == key.kind # "none" /\ meta.kind # "none"

(* Mutant: a seed of before sealing is not recognised.                     *)
is_raw_Never == FALSE

is_raw == key.kind = "raw" /\ meta.kind = "none"

(* unlock_identity: the box opens under the password and the salt of the   *)
(* metadata read, and the seed inside is the one the metadata names.       *)
Unlocks(p, m) ==
  /\ m.kind = "whole"
  /\ key.kind = "box" /\ key.pw = p /\ key.salt = m.salt
  /\ key.seed = m.node

(* password.salt holds salt (0: it is missing, empty or in part) and       *)
(* password.enc a password under encSalt when it is there whole.           *)
NoStored == [salt |-> 0, kind |-> "none", enc |-> None, encSalt |-> 0]

(* MachineIdProvider.get: both files whole, and the salt that was read is  *)
(* the one the password was encrypted with.                                *)
Decrypts(salt) == stored.kind = "whole" /\ salt # 0 /\ stored.encSalt = salt

(* select_backend: an encrypted password that exists is used, unless the   *)
(* operator names another backend.                                         *)
select_backend(explicit) == IF stored.kind # "none" /\ ~explicit THEN "machine-id" ELSE "pinentry"

(* The passwords a command can get: the stored one is taken without asking *)
(* and, if it cannot be decrypted, the terminal is asked.                  *)
_prompt_password(explicit) ==
  IF select_backend(explicit) = "machine-id" /\ Decrypts(stored.salt) THEN {stored.enc} ELSE Passwords

Idle == [op |-> "idle"]
Down == [pc |-> "off", salt |-> 0, pw |-> None, meta |-> NoMeta, seed |-> None, starts |-> 0]

(* What a legacy directory may hold: nothing, a seed of before sealing, or *)
(* a sealed identity (salts 1..Places are theirs).                         *)
Held(i) == {[key |-> NoKey, meta |-> NoMeta]}
           \cup {[key |-> Raw(s), meta |-> NoMeta] : s \in Seeds}
           \cup {[key |-> Box(s, p, i), meta |-> Meta(s, i)] : s \in Seeds, p \in Passwords}

Init ==
  /\ legacy \in [1..Places -> UNION {Held(i) : i \in 1..Places}]
  /\ \A i \in 1..Places : legacy[i] \in Held(i)
  /\ key \in {NoKey} \cup {Raw(s) : s \in Seeds}
  /\ meta = NoMeta
  /\ stored = NoStored
  /\ unit = "absent" /\ svc = Down /\ cmd = Idle
  /\ salts = Places /\ faults = 0
  /\ last = None /\ torn = FALSE

-----------------------------------------------------------------------------
(* Sealing: a fresh salt, then the two files, each replaced atomically.    *)

_seal(s, p) ==
  /\ salts < Places + MaxSalts
  /\ salts' = salts + 1
  /\ cmd' = [op |-> "seal", step |-> "key", seed |-> s, pw |-> p, salt |-> salts + 1]

(* --init on an empty directory.  A key file that is neither raw nor       *)
(* accompanied by metadata counts as no identity and is replaced.          *)
init_sealed_identity(p) ==
  /\ cmd = Idle /\ ~is_sealed /\ ~is_raw
  /\ \E s \in Seeds \ ({key.seed, svc.seed} \cup {legacy[i].key.seed : i \in 1..Places}) : _seal(s, p)
  /\ UNCHANGED <<key, meta, legacy, stored, unit, svc, faults, last, torn>>

(* --init on a raw seed: sealed in place.                                  *)
seal_existing_identity(p) ==
  /\ cmd = Idle /\ ~is_sealed /\ is_raw
  /\ _seal(key.seed, p)
  /\ UNCHANGED <<key, meta, legacy, stored, unit, svc, faults, last, torn>>

(* --reset-password: the current password may come from the stored one.    *)
reset_password(explicit, new) ==
  /\ cmd = Idle /\ is_sealed
  /\ \E old \in _prompt_password(explicit) : Unlocks(old, meta)
  /\ _seal(key.seed, new)
  /\ UNCHANGED <<key, meta, legacy, stored, unit, svc, faults, last, torn>>

WriteKey ==
  /\ cmd.op = "seal" /\ cmd.step = "key"
  /\ key' = Box(cmd.seed, cmd.pw, cmd.salt)
  /\ cmd' = [cmd EXCEPT !.step = "meta"]
  /\ UNCHANGED <<meta, legacy, stored, unit, svc, salts, faults, last, torn>>

(* Mutant: the metadata keeps the salt of the password before.             *)
WriteMeta_KeepsSalt ==
  /\ cmd.op = "seal" /\ cmd.step = "meta"
  /\ meta' = IF meta.kind = "whole" THEN [meta EXCEPT !.node = cmd.seed] ELSE Meta(cmd.seed, cmd.salt)
  /\ cmd' = Idle
  /\ last' = cmd.pw /\ torn' = FALSE
  /\ UNCHANGED <<key, legacy, stored, unit, svc, salts, faults>>

WriteMeta ==
  /\ cmd.op = "seal" /\ cmd.step = "meta"
  /\ meta' = Meta(cmd.seed, cmd.salt)
  /\ cmd' = Idle
  /\ last' = cmd.pw /\ torn' = FALSE
  /\ UNCHANGED <<key, legacy, stored, unit, svc, salts, faults>>

-----------------------------------------------------------------------------
(* --migrate: file by file, the first place that has it wins, and a file   *)
(* that is there is never replaced.  A copy that fails half way leaves     *)
(* what it wrote, and the loop goes on.                                    *)

migrate_legacy_state ==
  /\ cmd = Idle
  /\ cmd' = [op |-> "migrate", place |-> 1, step |-> "key", took |-> {}]
  /\ UNCHANGED <<key, meta, legacy, stored, unit, svc, salts, faults, last, torn>>

(* Mutant: a file that is there is replaced.                               *)
Copied_Overwrites(src, dst, part) == IF src.kind = "none" THEN {dst} ELSE {src}

(* The outcomes of copying a file src to a place that holds dst.           *)
Copied(src, dst, part) ==
  IF src.kind = "none" \/ dst.kind # "none" THEN {dst}
  ELSE {src} \cup (IF faults < MaxFaults THEN {part} ELSE {})

CopyKey ==
  /\ cmd.op = "migrate" /\ cmd.step = "key" /\ cmd.place <= Places
  /\ key' \in Copied(legacy[cmd.place].key, key, Part)
  /\ cmd' = [cmd EXCEPT !.step = "meta", !.took = @ \cup (IF key' = key THEN {} ELSE {<<"key", cmd.place>>})]
  /\ faults' = IF key' # key /\ key' = Part THEN faults + 1 ELSE faults
  /\ torn' = (torn \/ key' # key)
  /\ UNCHANGED <<meta, legacy, stored, unit, svc, salts, last>>

CopyMeta ==
  /\ cmd.op = "migrate" /\ cmd.step = "meta" /\ cmd.place <= Places
  /\ meta' \in Copied(legacy[cmd.place].meta, meta, PartMeta)
  /\ cmd' = [cmd EXCEPT !.step = "key", !.place = @ + 1,
                        !.took = @ \cup (IF meta' = meta THEN {} ELSE {<<"meta", cmd.place>>})]
  /\ faults' = IF meta' # meta /\ meta' = PartMeta THEN faults + 1 ELSE faults
  /\ torn' = (torn \/ meta' # meta)
  /\ UNCHANGED <<key, legacy, stored, unit, svc, salts, last>>

(* The ghosts: what was copied belongs together when it came whole from    *)
(* one place and neither file was there before.                            *)
MigrateDone ==
  /\ cmd.op = "migrate" /\ cmd.place > Places
  /\ cmd' = Idle
  /\ IF cmd.took # {} /\ \E i \in 1..Places : /\ key = legacy[i].key /\ meta = legacy[i].meta
                                              /\ cmd.took \subseteq {<<"key", i>>, <<"meta", i>>}
       THEN torn' = FALSE /\ last' = key.pw
       ELSE UNCHANGED <<torn, last>>
  /\ UNCHANGED <<key, meta, legacy, stored, unit, svc, salts, faults>>

-----------------------------------------------------------------------------
(* --install-service and --uninstall-service, machine-id backend.          *)

(* Refused over an existing unit unless forced or rotating; the stored     *)
(* password is asked for when there is none or when rotating, and is not   *)
(* compared with the identity's.                                           *)
install_service(p, force, rotate) ==
  /\ cmd = Idle
  /\ unit # "absent" => force \/ rotate
  /\ IF stored.kind = "none" \/ rotate
       THEN /\ salts < Places + MaxSalts
            /\ salts' = salts + 1
            /\ cmd' = [op |-> "install", step |-> "salt", pw |-> p, salt |-> salts + 1]
       ELSE /\ cmd' = [op |-> "install", step |-> "unit", pw |-> None, salt |-> 0]
            /\ salts' = salts
  /\ UNCHANGED <<key, meta, legacy, stored, unit, svc, faults, last, torn>>

(* seal_password_to_disk: the salt, then the ciphertext, each written in   *)
(* place, so that a file is empty before it is whole.                      *)
TruncateStored ==
  /\ cmd.op = "install"
  /\ \/ /\ cmd.step = "salt" /\ cmd' = [cmd EXCEPT !.step = "saltData"]
        /\ stored' = [stored EXCEPT !.salt = 0]
     \/ /\ cmd.step = "enc" /\ cmd' = [cmd EXCEPT !.step = "encData"]
        /\ stored' = [stored EXCEPT !.kind = "part", !.enc = None, !.encSalt = 0]
  /\ UNCHANGED <<key, meta, legacy, unit, svc, salts, faults, last, torn>>

StoreSalt ==
  /\ cmd.op = "install" /\ cmd.step = "saltData"
  /\ stored' = [stored EXCEPT !.salt = cmd.salt]
  /\ cmd' = [cmd EXCEPT !.step = "enc"]
  /\ UNCHANGED <<key, meta, legacy, unit, svc, salts, faults, last, torn>>

StoreEnc ==
  /\ cmd.op = "install" /\ cmd.step = "encData"
  /\ stored' = [stored EXCEPT !.kind = "whole", !.enc = cmd.pw, !.encSalt = cmd.salt]
  /\ cmd' = [cmd EXCEPT !.step = "unit"]
  /\ UNCHANGED <<key, meta, legacy, unit, svc, salts, faults, last, torn>>

(* The unit file is there for the next install, but not for the next boot. *)
WriteUnit ==
  /\ cmd.op = "install" /\ cmd.step = "unit"
  /\ unit' = IF unit = "absent" THEN "written" ELSE unit
  /\ cmd' = [cmd EXCEPT !.step = "enable"]
  /\ UNCHANGED <<key, meta, legacy, stored, svc, salts, faults, last, torn>>

(* systemctl daemon-reload and enable.                                     *)
EnableUnit ==
  /\ cmd.op = "install" /\ cmd.step = "enable"
  /\ unit' = "enabled"
  /\ cmd' = [cmd EXCEPT !.step = "restart"]
  /\ UNCHANGED <<key, meta, legacy, stored, svc, salts, faults, last, torn>>

(* systemctl restart: a running daemon is replaced.                        *)
RestartService ==
  /\ cmd.op = "install" /\ cmd.step = "restart"
  /\ svc' = [Down EXCEPT !.pc = "starting", !.starts = 1]
  /\ cmd' = Idle
  /\ UNCHANGED <<key, meta, legacy, stored, unit, salts, faults, last, torn>>

(* The daemon is stopped and the unit removed; password files stay.        *)
uninstall_service ==
  /\ cmd = Idle
  /\ unit' = "absent" /\ svc' = Down
  /\ UNCHANGED <<key, meta, legacy, stored, cmd, salts, faults, last, torn>>

(* A command is killed, or one of its writes or systemctl calls fails.     *)
CommandDies ==
  /\ cmd # Idle /\ faults < MaxFaults
  /\ cmd' = Idle /\ faults' = faults + 1
  /\ torn' = (torn \/ (cmd.op = "seal" /\ cmd.step = "meta"))
  /\ UNCHANGED <<key, meta, legacy, stored, unit, svc, salts, last>>

-----------------------------------------------------------------------------
(* systemd and the daemon (external: the unit's Restart= and StartLimit).  *)

(* Mutant: systemd restarts the unit for ever.                             *)
Failed_NoLimit == {[Down EXCEPT !.pc = "starting", !.starts = svc.starts + 1]}

(* Restart=on-failure: the start counts towards StartLimitBurst, or it is  *)
(* the first of a new StartLimitIntervalSec.                               *)
Failed == {IF svc.starts < Burst THEN [Down EXCEPT !.pc = "starting", !.starts = svc.starts + 1]
           ELSE [Down EXCEPT !.pc = "failed", !.starts = svc.starts],
           [Down EXCEPT !.pc = "starting", !.starts = 1]}

(* A step of the unlocking daemon, which fails without its condition.      *)
Advance(from, condition, to) ==
  /\ svc.pc = from
  /\ IF condition THEN svc' = to ELSE svc' \in Failed
  /\ UNCHANGED <<key, meta, legacy, stored, unit, cmd, salts, faults, last, torn>>

(* _unlock_or_exit: is_sealed, and the salt of the stored password.        *)
UnlockChecks == Advance("starting", is_sealed /\ stored.kind # "none",
                        [svc EXCEPT !.pc = "deriving", !.salt = stored.salt])

(* A key derivation later: the stored password.                            *)
UnlockDecrypts == Advance("deriving", Decrypts(svc.salt),
                          [svc EXCEPT !.pc = "loading", !.salt = 0, !.pw = stored.enc])

(* unlock_identity: load_meta.                                             *)
UnlockLoads == Advance("loading", meta.kind = "whole",
                       [svc EXCEPT !.pc = "opening", !.meta = meta])

(* A password hash later: the key file is read and opened.                 *)
UnlockOpens == Advance("opening", Unlocks(svc.pw, svc.meta),
                       [svc EXCEPT !.pc = "up", !.seed = key.seed, !.pw = None, !.meta = NoMeta])

DaemonDies ==
  /\ svc.pc \notin {"off", "failed"} /\ faults < MaxFaults
  /\ svc' \in Failed /\ faults' = faults + 1
  /\ UNCHANGED <<key, meta, legacy, stored, unit, cmd, salts, last, torn>>

(* Power is lost: the command in progress ends, an enabled unit starts.    *)
Reboot ==
  /\ faults < MaxFaults /\ faults' = faults + 1
  /\ cmd' = Idle
  /\ torn' = (torn \/ (cmd.op = "seal" /\ cmd.step = "meta"))
  /\ svc' = IF unit = "enabled" THEN [Down EXCEPT !.pc = "starting", !.starts = 1] ELSE Down
  /\ UNCHANGED <<key, meta, legacy, stored, unit, salts, last>>

(* The commands of cli_main.                                               *)
InitCommand == \E p \in Passwords : init_sealed_identity(p) \/ seal_existing_identity(p)

ResetCommand == \E p \in Passwords, explicit \in BOOLEAN : reset_password(explicit, p)

ServiceCommand == \/ \E p \in Passwords, force, rotate \in BOOLEAN : install_service(p, force, rotate)
                  \/ uninstall_service

Next ==
  \/ InitCommand \/ ResetCommand \/ ServiceCommand
  \/ WriteKey \/ WriteMeta
  \/ migrate_legacy_state \/ CopyKey \/ CopyMeta \/ MigrateDone
  \/ TruncateStored \/ StoreSalt \/ StoreEnc \/ WriteUnit \/ EnableUnit \/ RestartService
  \/ UnlockChecks \/ UnlockDecrypts \/ UnlockLoads \/ UnlockOpens
  \/ CommandDies \/ DaemonDies \/ Reboot

Spec == Init /\ [][Next]_vars

-----------------------------------------------------------------------------
(* The state has the shape the actions assume; in particular the unit is   *)
(* started at most StartLimitBurst times in one interval.                  *)
TypeOK ==
  /\ key \in KeyFiles /\ meta \in MetaFiles
  /\ legacy \in [1..Places -> [key : KeyFiles, meta : MetaFiles]]
  /\ stored \in [salt : Salts, kind : {"none", "part", "whole"}, enc : Passwords \cup {None},
                 encSalt : Salts]
  /\ unit \in {"absent", "written", "enabled"} /\ torn \in BOOLEAN
  /\ svc \in [pc : {"off", "starting", "deriving", "loading", "opening", "up", "failed"},
              salt : Salts, pw : Passwords \cup {None}, meta : MetaFiles,
              seed : Seeds \cup {None}, starts : 0..Burst]
  /\ \/ cmd = Idle
     \/ cmd \in [op : {"seal"}, step : {"key", "meta"}, seed : Seeds, pw : Passwords, salt : Salts]
     \/ cmd \in [op : {"migrate"}, place : 1..(Places + 1), step : {"key", "meta"},
                 took : SUBSET ({"key", "meta"} \X (1..Places))]
     \/ cmd \in [op : {"install"},
                 step : {"salt", "saltData", "enc", "encData", "unit", "enable", "restart"},
                 pw : Passwords \cup {None}, salt : Salts]
  /\ salts \in Places..(Places + MaxSalts) /\ faults \in 0..MaxFaults
  /\ last \in Passwords \cup {None}

(* While the daemon runs, the identity on disk is the one it opened: no    *)
(* command (--init, --reset-password, --migrate, a reinstall), finished or *)
(* cut short, puts another seed or another NodeID under it, so a password  *)
(* accepted by verify_identity_password always opens the daemon's own key. *)
DaemonKeyOnDisk ==
  svc.pc = "up" => /\ key.kind = "box" /\ key.seed = svc.seed
                   /\ meta.kind = "whole" /\ meta.node = svc.seed

(* No command replaces a key by another one, whatever died before it, with *)
(* one exception: a sealed or half-copied key file without metadata, which *)
(* --init takes for no identity at all.                                    *)
SeedKept ==
  [][key.kind # "none" /\ key'.seed # key.seed
       => key.kind \in {"box", "part"} /\ meta.kind = "none"]_vars

(* Between commands a sealed identity opens with the password last sealed  *)
(* in and with no other, unless a seal was cut between its two writes or a *)
(* migration brought files of different places together.                   *)
LastPasswordOpens ==
  cmd = Idle /\ is_sealed /\ ~torn => \A p \in Passwords : Unlocks(p, meta) <=> p = last
=============================================================================
