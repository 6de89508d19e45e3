--------------------------- MODULE IdentityProofs ---------------------------
(***************************************************************************)
(* The identity on disk, for any passwords, seeds, legacy places and       *)
(* numbers of salts and faults.                                            *)
(***************************************************************************)
EXTENDS Identity, TLAPS

SealAt(st) == cmd.op = "seal" /\ cmd.step = st

Commands == {Idle}
  \cup [op : {"seal"}, step : {"key", "meta"}, seed : Seeds, pw : Passwords, salt : Salts]
  \cup [op : {"migrate"}, place : 1..(Places + 1), step : {"key", "meta"},
        took : SUBSET ({"key", "meta"} \X (1..Places))]
  \cup [op : {"install"},
        step : {"salt", "saltData", "enc", "encData", "unit", "enable", "restart"},
        pw : Passwords \cup {None}, salt : Salts]

StoredFiles == [salt : Salts, kind : {"none", "part", "whole"}, enc : Passwords \cup {None},
                encSalt : Salts]

Services == [pc : {"off", "starting", "deriving", "loading", "opening", "up", "failed"},
             salt : Salts, pw : Passwords \cup {None}, meta : MetaFiles, seed : Seeds \cup {None}, starts : 0..Burst]

\* The types of all but torn, which is Boolean
Types ==
  /\ key \in KeyFiles /\ meta \in MetaFiles
  /\ legacy \in [1..Places -> [key : KeyFiles, meta : MetaFiles]]
  /\ stored \in StoredFiles
  /\ svc \in Services /\ cmd \in Commands /\ unit \in {"absent", "written", "enabled"}
  /\ salts \in Places..(Places + MaxSalts) /\ faults \in 0..MaxFaults
  /\ last \in Passwords \cup {None}

\* A whole key file holds a seed, and the legacy places what they held
WholeKey == key.kind \in {"raw", "box"} => key.seed \in Seeds
LegacyHeld == \A i \in 1..Places : legacy[i] \in Held(i)

Base == Types /\ WholeKey /\ LegacyHeld

Flags == torn \in BOOLEAN

-----------------------------------------------------------------------------
(* Types *)

LEMMA TypeParts == TypeOK <=> Types /\ Flags
BY Zenon DEF TypeOK, Types, Flags, Commands, Services, StoredFiles

\* The steps in which the daemon opens the identity
Unlock == UnlockChecks \/ UnlockDecrypts \/ UnlockLoads \/ UnlockOpens

LEMMA UnlockKeeps ==
    Unlock => UNCHANGED <<key, meta, legacy, stored, unit, cmd, salts, faults, last, torn>>
BY Zenon DEF Unlock, UnlockChecks, UnlockDecrypts, UnlockLoads, UnlockOpens, Advance

LEMMA FlagsNext == Flags /\ [Next]_vars => Flags'
<1> SUFFICES ASSUME Flags, [Next]_vars PROVE Flags'
  OBVIOUS
<1>1. CASE InitCommand \/ ResetCommand
  BY <1>1, Zenon DEF Flags, InitCommand, ResetCommand, init_sealed_identity,
                     seal_existing_identity, reset_password
<1>2. CASE ServiceCommand
  BY <1>2, Zenon DEF Flags, ServiceCommand, install_service, uninstall_service
<1>3. CASE \/ WriteKey \/ WriteMeta \/ TruncateStored \/ StoreSalt \/ StoreEnc \/ WriteUnit
           \/ EnableUnit \/ RestartService
  BY <1>3, Zenon DEF Flags, WriteKey, WriteMeta, TruncateStored, StoreSalt, StoreEnc, WriteUnit,
                     EnableUnit, RestartService
<1>4. CASE migrate_legacy_state \/ CopyKey \/ CopyMeta \/ MigrateDone
  BY <1>4, Zenon DEF Flags, migrate_legacy_state, CopyKey, CopyMeta, MigrateDone
<1>5. CASE CommandDies \/ Unlock \/ DaemonDies \/ Reboot
  BY <1>5, UnlockKeeps, Zenon DEF Flags, CommandDies, DaemonDies, Reboot
<1>6. CASE UNCHANGED vars
  BY <1>6, Zenon DEF Flags, vars
<1>7. QED
  BY <1>1, <1>2, <1>3, <1>4, <1>5, <1>6, Zenon DEF Next, Unlock

LEMMA ZeroSalt == 0 \in Salts /\ \A i \in 1..Places : i \in Salts
BY BoundAssumption DEF Salts

LEMMA KeyFileTyped ==
    /\ NoKey \in KeyFiles /\ Part \in KeyFiles
    /\ \A s \in Seeds : Raw(s) \in KeyFiles
    /\ \A s \in Seeds, p \in Passwords, n \in Salts : Box(s, p, n) \in KeyFiles
<1>1. NoKey \in KeyFiles
  BY ZeroSalt DEF NoKey, KeyFiles
<1>2. Part \in KeyFiles
  BY <1>1 DEF Part, KeyFiles
<1>3. ASSUME NEW s \in Seeds PROVE Raw(s) \in KeyFiles
  BY <1>1 DEF Raw, KeyFiles
<1>4. QED
  BY <1>1, <1>2, <1>3 DEF Box, KeyFiles

LEMMA MetaFileTyped ==
    /\ NoMeta \in MetaFiles /\ PartMeta \in MetaFiles
    /\ \A s \in Seeds, n \in Salts : Meta(s, n) \in MetaFiles
<1>1. NoMeta \in MetaFiles
  BY ZeroSalt DEF NoMeta, MetaFiles
<1>2. QED
  BY <1>1 DEF PartMeta, Meta, MetaFiles

LEMMA HeldTyped ==
    ASSUME NEW i \in 1..Places, NEW f \in Held(i) PROVE f \in [key : KeyFiles, meta : MetaFiles]
BY ZeroSalt, KeyFileTyped, MetaFileTyped DEF Held

\* What a legacy place may hold, field by field.
LEMMA HeldParts ==
    ASSUME NEW i \in 1..Places, NEW f \in Held(i)
    PROVE  /\ f.key.kind \in {"none", "raw", "box"} /\ f.meta.kind \in {"none", "whole"}
           /\ f.key.kind \in {"raw", "box"} => f.key.seed \in Seeds
           /\ f.key.salt \in {0, i} /\ f.meta.salt \in {0, i}
           /\ (f.key.kind # "none" /\ f.meta.kind # "none") =>
                 /\ f.key.kind = "box" /\ f.key.salt = f.meta.salt
                 /\ f.key.seed = f.meta.node /\ f.key.pw \in Passwords
<1>1. CASE f = [key |-> NoKey, meta |-> NoMeta]
  BY <1>1 DEF NoKey, NoMeta
<1>2. CASE \E s \in Seeds : f = [key |-> Raw(s), meta |-> NoMeta]
  <2>1. PICK s \in Seeds : f = [key |-> Raw(s), meta |-> NoMeta]
    BY <1>2
  <2>2. Raw(s).kind = "raw" /\ Raw(s).seed = s /\ Raw(s).salt = 0
    BY DEF Raw, NoKey
  <2>3. QED
    BY <2>1, <2>2 DEF NoMeta
<1>3. CASE \E s \in Seeds, p \in Passwords : f = [key |-> Box(s, p, i), meta |-> Meta(s, i)]
  BY <1>3 DEF Box, Meta
<1>4. QED
  BY <1>1, <1>2, <1>3 DEF Held

LEMMA PartKinds == /\ Part.kind = "part" /\ Part.salt = 0
                   /\ PartMeta.kind = "part" /\ PartMeta.salt = 0
BY DEF Part, NoKey, PartMeta, NoMeta

LEMMA DownTyped == Down \in Services
BY MetaFileTyped, ZeroSalt, BoundAssumption DEF Down, Services

LEMMA StartingTyped ==
    \A n \in 0..Burst : /\ [Down EXCEPT !.pc = "starting", !.starts = n] \in Services
                        /\ [Down EXCEPT !.pc = "failed", !.starts = n] \in Services
BY DownTyped DEF Services

LEMMA FailedTyped == Types => Failed \subseteq Services
<1> SUFFICES ASSUME Types PROVE Failed \subseteq Services
  OBVIOUS
<1>1. svc.starts \in 0..Burst
  BY DEF Types, Services
<1>1a. 1 \in 0..Burst
  BY BoundAssumption
<1>2. CASE svc.starts < Burst
  <2>1. svc.starts + 1 \in 0..Burst
    BY <1>1, <1>2, BoundAssumption
  <2>2. QED
    BY <1>1a, <1>2, <2>1, StartingTyped DEF Failed
<1>3. CASE ~(svc.starts < Burst)
  BY <1>1, <1>1a, <1>3, StartingTyped DEF Failed
<1>4. QED
  BY <1>2, <1>3

LEMMA TypesInit == Init => Types
<1> SUFFICES ASSUME Init PROVE Types
  OBVIOUS
<1> USE BoundAssumption
<1>1. legacy \in [1..Places -> [key : KeyFiles, meta : MetaFiles]]
  BY HeldTyped DEF Init
<1>2. key \in KeyFiles /\ meta \in MetaFiles
  BY KeyFileTyped, MetaFileTyped DEF Init
<1>3. svc \in Services
  BY DownTyped DEF Init
<1>4. stored \in StoredFiles
  BY ZeroSalt DEF Init, NoStored, StoredFiles
<1>5. cmd \in Commands
  BY DEF Init, Commands
<1>6. QED
  BY <1>1, <1>2, <1>3, <1>4, <1>5 DEF Init, Types

LEMMA SealTyped ==
    ASSUME Types, NEW s \in Seeds, NEW p \in Passwords, _seal(s, p)
    PROVE  cmd' \in Commands /\ salts' \in Places..(Places + MaxSalts)
BY BoundAssumption DEF Types, _seal, Commands, Salts

LEMMA CopiedTyped ==
    ASSUME Base, NEW i \in 1..Places
    PROVE  /\ \A k \in Copied(legacy[i].key, key, Part) :
                 k \in KeyFiles /\ (k.kind \in {"raw", "box"} => k.seed \in Seeds)
           /\ \A m \in Copied(legacy[i].meta, meta, PartMeta) : m \in MetaFiles
<1>1. /\ legacy[i].key \in KeyFiles /\ legacy[i].meta \in MetaFiles
      /\ key \in KeyFiles /\ meta \in MetaFiles
  BY DEF Base, Types
<1>2. legacy[i].key.kind \in {"raw", "box"} => legacy[i].key.seed \in Seeds
  BY HeldParts DEF Base, LegacyHeld
<1>3. QED
  BY <1>1, <1>2, PartKinds, KeyFileTyped, MetaFileTyped DEF Copied, Base, WholeKey

LEMMA BaseNext == Base /\ [Next]_vars => Base'
<1> SUFFICES ASSUME Base, [Next]_vars PROVE Base'
  OBVIOUS
<1> USE BoundAssumption DEF Base, Types
<1>0. ASSUME UNCHANGED <<key, legacy>> PROVE (WholeKey /\ LegacyHeld)'
  BY <1>0 DEF WholeKey, LegacyHeld
<1>1. ASSUME NEW p \in Passwords, init_sealed_identity(p) PROVE Base'
  <2>1. PICK s \in Seeds : _seal(s, p)
    BY <1>1 DEF init_sealed_identity
  <2>2. cmd' \in Commands /\ salts' \in Places..(Places + MaxSalts)
    BY <2>1, SealTyped
  <2>3. QED
    BY <1>0, <1>1, <2>2 DEF init_sealed_identity
<1>2. ASSUME NEW p \in Passwords, seal_existing_identity(p) PROVE Base'
  <2>1. key.seed \in Seeds /\ _seal(key.seed, p)
    BY <1>2 DEF seal_existing_identity, is_raw, WholeKey
  <2>2. cmd' \in Commands /\ salts' \in Places..(Places + MaxSalts)
    BY <2>1, SealTyped
  <2>3. QED
    BY <1>0, <1>2, <2>2 DEF seal_existing_identity
<1>3. ASSUME NEW p \in Passwords, NEW explicit \in BOOLEAN, reset_password(explicit, p) PROVE Base'
  <2>1. key.seed \in Seeds /\ _seal(key.seed, p)
    BY <1>3 DEF reset_password, Unlocks, WholeKey
  <2>2. cmd' \in Commands /\ salts' \in Places..(Places + MaxSalts)
    BY <2>1, SealTyped
  <2>3. QED
    BY <1>0, <1>3, <2>2 DEF reset_password
<1>4. ASSUME NEW p \in Passwords, NEW force \in BOOLEAN, NEW rotate \in BOOLEAN,
             install_service(p, force, rotate)
      PROVE  Base'
  <2>1. cmd' \in Commands /\ salts' \in Places..(Places + MaxSalts)
    BY <1>4, ZeroSalt DEF install_service, Commands, Salts
  <2>2. QED
    BY <1>0, <1>4, <2>1 DEF install_service
<1>5. CASE uninstall_service
  BY <1>0, <1>5, DownTyped DEF uninstall_service
<1>6. CASE WriteKey
  <2>1. cmd \in [op : {"seal"}, step : {"key", "meta"}, seed : Seeds, pw : Passwords, salt : Salts]
    BY <1>6 DEF WriteKey, Commands, Idle
  <2>2. key' \in KeyFiles /\ key'.seed \in Seeds
    BY <1>6, <2>1, KeyFileTyped DEF WriteKey, Box
  <2>3. cmd' \in Commands
    BY <1>6, <2>1 DEF WriteKey, Commands
  <2>4. QED
    BY <1>6, <2>2, <2>3 DEF WriteKey, WholeKey, LegacyHeld
<1>7. CASE WriteMeta
  <2>1. cmd \in [op : {"seal"}, step : {"key", "meta"}, seed : Seeds, pw : Passwords, salt : Salts]
    BY <1>7 DEF WriteMeta, Commands, Idle
  <2>2. meta' \in MetaFiles /\ last' \in Passwords
    BY <1>7, <2>1, MetaFileTyped DEF WriteMeta
  <2>3. cmd' \in Commands
    BY <1>7 DEF WriteMeta, Commands
  <2>4. QED
    BY <1>0, <1>7, <2>2, <2>3 DEF WriteMeta
<1>8. CASE migrate_legacy_state
  <2>1. cmd' \in Commands
    BY <1>8 DEF migrate_legacy_state, Commands
  <2>2. QED
    BY <1>0, <1>8, <2>1 DEF migrate_legacy_state
<1>9. ASSUME cmd.op = "migrate"
      PROVE  cmd \in [op : {"migrate"}, place : 1..(Places + 1), step : {"key", "meta"},
                       took : SUBSET ({"key", "meta"} \X (1..Places))]
  BY <1>9 DEF Commands, Idle
<1>10. CASE CopyKey
  <2>1. cmd.place \in 1..Places
    BY <1>9, <1>10 DEF CopyKey
  <2>2. key' \in KeyFiles /\ WholeKey'
    BY <1>10, <2>1, CopiedTyped DEF CopyKey, WholeKey
  <2>3. cmd' \in Commands
    <3>1. cmd.took \cup {<<"key", cmd.place>>} \in SUBSET ({"key", "meta"} \X (1..Places))
      BY <1>9, <1>10, <2>1 DEF CopyKey
    <3>2. cmd'.took \in SUBSET ({"key", "meta"} \X (1..Places))
      BY <1>9, <1>10, <3>1 DEF CopyKey
    <3>3. QED
      BY <1>9, <1>10, <2>1, <3>2 DEF CopyKey, Commands
  <2>4. faults' \in 0..MaxFaults
    <3>1. legacy[cmd.place].key # Part
      BY <2>1, HeldParts, PartKinds DEF LegacyHeld
    <3>2. QED
      BY <1>10, <3>1 DEF CopyKey, Copied
  <2>5. QED
    BY <1>10, <2>2, <2>3, <2>4 DEF CopyKey, LegacyHeld
<1>11. CASE CopyMeta
  <2>1. cmd.place \in 1..Places
    BY <1>9, <1>11 DEF CopyMeta
  <2>2. meta' \in MetaFiles
    BY <1>11, <2>1, CopiedTyped DEF CopyMeta
  <2>3. cmd' \in Commands
    <3>1. cmd.took \cup {<<"meta", cmd.place>>} \in SUBSET ({"key", "meta"} \X (1..Places))
      BY <1>9, <1>11, <2>1 DEF CopyMeta
    <3>2. cmd'.took \in SUBSET ({"key", "meta"} \X (1..Places))
      BY <1>9, <1>11, <3>1 DEF CopyMeta
    <3>3. cmd.place + 1 \in 1..(Places + 1)
      BY <2>1
    <3>4. cmd' \in [op : {"migrate"}, place : 1..(Places + 1), step : {"key", "meta"},
                    took : SUBSET ({"key", "meta"} \X (1..Places))]
      BY <1>9, <1>11, <3>2, <3>3 DEF CopyMeta
    <3>5. QED
      BY <3>4 DEF Commands
  <2>4. faults' \in 0..MaxFaults
    <3>1. legacy[cmd.place].meta # PartMeta
      BY <2>1, HeldParts, PartKinds DEF LegacyHeld
    <3>2. QED
      BY <1>11, <3>1 DEF CopyMeta, Copied
  <2>5. QED
    BY <1>0, <1>11, <2>2, <2>3, <2>4 DEF CopyMeta
<1>12. CASE MigrateDone
  <2>1. cmd' \in Commands
    BY <1>12 DEF MigrateDone, Commands
  <2>2. last' \in Passwords \cup {None}
    BY <1>12 DEF MigrateDone, KeyFiles
  <2>3. QED
    BY <1>0, <1>12, <2>1, <2>2 DEF MigrateDone
<1>13. ASSUME cmd.op = "install"
       PROVE  cmd \in [op : {"install"},
                        step : {"salt", "saltData", "enc", "encData", "unit", "enable", "restart"},
                        pw : Passwords \cup {None}, salt : Salts]
  BY <1>13 DEF Commands, Idle
<1>14a. CASE TruncateStored
  <2>1. cmd' \in Commands /\ stored' \in StoredFiles
    BY <1>13, <1>14a, ZeroSalt DEF TruncateStored, Commands, StoredFiles
  <2>2. QED
    BY <1>0, <1>14a, <2>1 DEF TruncateStored
<1>14. CASE StoreSalt
  <2>1. cmd' \in Commands /\ stored' \in StoredFiles
    BY <1>13, <1>14 DEF StoreSalt, Commands, StoredFiles
  <2>2. QED
    BY <1>0, <1>14, <2>1 DEF StoreSalt
<1>15. CASE StoreEnc
  <2>1. cmd' \in Commands /\ stored' \in StoredFiles
    BY <1>13, <1>15 DEF StoreEnc, Commands, StoredFiles
  <2>2. QED
    BY <1>0, <1>15, <2>1 DEF StoreEnc
<1>16. CASE WriteUnit
  <2>1. cmd' \in Commands
    BY <1>13, <1>16 DEF WriteUnit, Commands
  <2>2. QED
    BY <1>0, <1>16, <2>1 DEF WriteUnit
<1>16a. CASE EnableUnit
  <2>1. cmd' \in Commands
    BY <1>13, <1>16a DEF EnableUnit, Commands
  <2>2. QED
    BY <1>0, <1>16a, <2>1 DEF EnableUnit
<1>17. CASE RestartService
  <2>1. cmd' \in Commands /\ svc' \in Services
    <3>1. 1 \in 0..Burst
      OBVIOUS
    <3>2. QED
      BY <1>17, <3>1, StartingTyped DEF RestartService, Commands
  <2>2. QED
    BY <1>0, <1>17, <2>1 DEF RestartService
<1>18. CASE CommandDies
  <2>1. cmd' \in Commands /\ faults' \in 0..MaxFaults
    BY <1>18 DEF CommandDies, Commands
  <2>2. QED
    BY <1>0, <1>18, <2>1 DEF CommandDies
<1>19. CASE Unlock
  <2>1. UnlockChecks => svc' \in Services
    BY FailedTyped DEF UnlockChecks, Advance, Services, StoredFiles
  <2>2. UnlockDecrypts => svc' \in Services
    BY FailedTyped, ZeroSalt DEF UnlockDecrypts, Advance, Services, StoredFiles
  <2>3. UnlockLoads => svc' \in Services
    BY FailedTyped DEF UnlockLoads, Advance, Services
  <2>4. UnlockOpens => svc' \in Services
    BY FailedTyped, MetaFileTyped DEF UnlockOpens, Advance, Services, KeyFiles
  <2>5. svc' \in Services
    BY <1>19, <2>1, <2>2, <2>3, <2>4 DEF Unlock
  <2>6. QED
    BY <1>0, <1>19, <2>5, UnlockKeeps
<1>21. CASE DaemonDies
  <2>1. svc' \in Services /\ faults' \in 0..MaxFaults
    BY <1>21, FailedTyped DEF DaemonDies
  <2>2. QED
    BY <1>0, <1>21, <2>1 DEF DaemonDies
<1>22. CASE Reboot
  <2>1. svc' \in Services /\ faults' \in 0..MaxFaults
    <3>1. 1 \in 0..Burst
      OBVIOUS
    <3>2. svc' \in {[Down EXCEPT !.pc = "starting", !.starts = 1], Down}
      BY <1>22, Zenon DEF Reboot
    <3>3. faults < MaxFaults /\ faults' = faults + 1
      BY <1>22, Zenon DEF Reboot
    <3>4. [Down EXCEPT !.pc = "starting", !.starts = 1] \in Services
      BY <3>1, StartingTyped
    <3>5. svc' \in Services
      BY <3>2, <3>4, DownTyped
    <3>6. QED
      BY <3>3, <3>5
  <2>2. cmd' \in Commands
    BY <1>22 DEF Reboot, Commands
  <2>3. QED
    BY <1>0, <1>22, <2>1, <2>2 DEF Reboot
<1>23. CASE UNCHANGED vars
  BY <1>0, <1>23 DEF vars
<1>24. QED
  BY <1>1, <1>2, <1>3, <1>4, <1>5, <1>6, <1>7, <1>8, <1>10, <1>11, <1>12, <1>14a, <1>14, <1>15,
     <1>16, <1>16a, <1>17, <1>18, <1>19, <1>21, <1>22, <1>23
     DEF Next, Unlock, InitCommand, ResetCommand, ServiceCommand

-----------------------------------------------------------------------------
(* Salts and seeds of the seal in progress *)

\* The salt of a seal in progress is newer than every salt on disk or in the
\* daemon's hands, and the key file is written with it
Salted ==
  /\ key.salt <= salts /\ meta.salt <= salts /\ svc.meta.salt <= salts
  /\ SealAt("key") => key.salt < cmd.salt /\ cmd.salt <= salts
  /\ SealAt("meta") => key = Box(cmd.seed, cmd.pw, cmd.salt) /\ cmd.salt <= salts
  /\ cmd.op = "seal" => meta.salt < cmd.salt /\ svc.meta.salt < cmd.salt

\* A seal of an identity that is there is of its own seed
SealSeed == SealAt("key") => (is_sealed \/ is_raw => cmd.seed = key.seed)

\* What the daemon has read is still on disk, and belongs to the key it will
\* open if that opens at all
Opening ==
  /\ svc.pc \in {"deriving", "loading"} => is_sealed
  /\ svc.pc \in {"opening", "up"} => key.kind # "none" /\ meta.kind = "whole"
  /\ (svc.pc = "opening" /\ key.salt = svc.meta.salt) => meta = svc.meta

DiskInv == Salted /\ SealSeed /\ Opening /\ DaemonKeyOnDisk

\* The steps that leave what DiskInv is about alone, or stop the daemon
Idles == \/ TruncateStored \/ StoreSalt \/ StoreEnc \/ WriteUnit \/ EnableUnit \/ RestartService
         \/ CommandDies
         \/ DaemonDies \/ Reboot \/ MigrateDone \/ migrate_legacy_state \/ ServiceCommand
         \/ UNCHANGED vars

Reading == {"deriving", "loading", "opening", "up"}

LEMMA FailedDown == \A f \in Failed : f.pc \notin Reading /\ f.meta = NoMeta
BY DEF Failed, Down, Reading

LEMMA IdlesKeep ==
    ASSUME Base, Idles
    PROVE  /\ UNCHANGED <<key, meta>> /\ salts' \in Nat /\ salts <= salts'
           /\ svc' = svc \/ (svc'.pc \notin Reading /\ svc'.meta = NoMeta)
           /\ cmd'.op # "seal" \/ UNCHANGED <<cmd, salts>>
<1> USE BoundAssumption DEF Base, Types, Reading
<1> DEFINE first == [Down EXCEPT !.pc = "starting", !.starts = 1]
<1>1. first.pc = "starting" /\ first.meta = NoMeta
  BY DEF Down
<1> HIDE DEF first
<1>2. ASSUME cmd.op = "install"
      PROVE  \A st : [cmd EXCEPT !.step = st].op = "install"
  BY <1>2 DEF Commands, Idle
<1>3. CASE TruncateStored \/ StoreSalt \/ StoreEnc \/ WriteUnit \/ EnableUnit
  <2>1. /\ UNCHANGED <<key, meta, svc, salts>> /\ cmd.op = "install"
        /\ \E st \in {"saltData", "enc", "encData", "unit", "enable", "restart"} :
              cmd' = [cmd EXCEPT !.step = st]
    BY <1>3, Zenon DEF TruncateStored, StoreSalt, StoreEnc, WriteUnit, EnableUnit
  <2>2. cmd'.op = "install"
    BY <1>2, <2>1
  <2>3. QED
    BY <2>1, <2>2
<1>4. CASE RestartService
  <2>1. svc' = first /\ cmd' = Idle /\ UNCHANGED <<key, meta, salts>>
    BY <1>4 DEF RestartService, first
  <2>2. QED
    BY <1>1, <2>1 DEF Idle
<1>5. CASE CommandDies
  BY <1>5 DEF CommandDies, Idle
<1>6. CASE DaemonDies
  BY <1>6, FailedDown DEF DaemonDies
<1>7. CASE Reboot
  <2>1. /\ UNCHANGED <<key, meta, salts>> /\ cmd' = Idle
        /\ svc' = first \/ svc' = Down
    BY <1>7, Zenon DEF Reboot, first
  <2>2. Down.pc = "off" /\ Down.meta = NoMeta
    BY DEF Down
  <2>3. QED
    BY <1>1, <2>1, <2>2 DEF Idle
<1>8. CASE MigrateDone \/ migrate_legacy_state
  BY <1>8 DEF MigrateDone, migrate_legacy_state, Idle
<1>9. CASE ServiceCommand
  <2>1. ASSUME NEW p \in Passwords, NEW force \in BOOLEAN, NEW rotate \in BOOLEAN,
               install_service(p, force, rotate)
        PROVE  UNCHANGED <<key, meta, svc>> /\ salts' \in {salts, salts + 1} /\ cmd'.op = "install"
    BY <2>1 DEF install_service
  <2>2. CASE uninstall_service
    BY <2>2 DEF uninstall_service, Down
  <2>3. QED
    BY <1>9, <2>1, <2>2 DEF ServiceCommand
<1>10. CASE UNCHANGED vars
  BY <1>10 DEF vars
<1>11. QED
  BY <1>3, <1>4, <1>5, <1>6, <1>7, <1>8, <1>9, <1>10 DEF Idles

LEMMA NatSalts ==
    ASSUME Base
    PROVE  /\ key.salt \in Nat /\ meta.salt \in Nat /\ svc.meta.salt \in Nat /\ salts \in Nat
           /\ cmd.op = "seal" => cmd.salt \in Nat /\ cmd.step \in {"key", "meta"} /\ cmd.seed \in Seeds
<1>1. cmd.op = "seal" => cmd.salt \in Nat /\ cmd.step \in {"key", "meta"} /\ cmd.seed \in Seeds
  BY BoundAssumption DEF Base, Types, Commands, Idle, Salts
<1>2. QED
  BY <1>1, BoundAssumption DEF Base, Types, KeyFiles, MetaFiles, Services, Salts

LEMMA DiskIdles == ASSUME Base, DiskInv, Idles PROVE DiskInv'
<1> USE IdlesKeep, NatSalts DEF DiskInv
<1>1. NoMeta.salt = 0
  BY DEF NoMeta
<1>2. Salted'
  BY <1>1 DEF Salted, SealAt
<1>3. SealSeed'
  BY DEF SealSeed, SealAt, is_sealed, is_raw
<1>4. Opening' /\ DaemonKeyOnDisk'
  BY DEF Opening, DaemonKeyOnDisk, Reading, is_sealed
<1>5. QED
  BY <1>2, <1>3, <1>4

\* Before a seal writes anything: the two commands, or a step that reads
LEMMA DiskSeal ==
    ASSUME Base, DiskInv, NEW p \in Passwords, NEW s \in Seeds, _seal(s, p),
           UNCHANGED <<key, meta, svc>>, is_sealed \/ is_raw => s = key.seed
    PROVE  DiskInv'
<1> USE NatSalts DEF DiskInv, _seal
<1>1. Salted'
  BY DEF Salted, SealAt
<1>2. SealSeed'
  BY DEF SealSeed, SealAt, is_sealed, is_raw
<1>3. Opening' /\ DaemonKeyOnDisk'
  BY DEF Opening, DaemonKeyOnDisk, is_sealed
<1>4. QED
  BY <1>1, <1>2, <1>3

LEMMA DiskWriteKey == ASSUME Base, DiskInv, WriteKey PROVE DiskInv'
<1> USE NatSalts DEF DiskInv
<1>1. /\ SealAt("key") /\ key' = Box(cmd.seed, cmd.pw, cmd.salt)
      /\ UNCHANGED <<meta, svc, salts>>
  BY DEF WriteKey, SealAt
<1>2. /\ cmd'.op = "seal" /\ cmd'.step = "meta" /\ cmd'.seed = cmd.seed
      /\ cmd'.pw = cmd.pw /\ cmd'.salt = cmd.salt
  BY <1>1 DEF WriteKey, SealAt, Base, Types, Commands, Idle
<1>3. key'.kind = "box" /\ key'.salt = cmd.salt /\ key'.seed = cmd.seed
  BY <1>1 DEF Box
<1>4. Salted'
  BY <1>1, <1>2, <1>3 DEF Salted, SealAt
<1>5. SealSeed'
  BY <1>2 DEF SealSeed, SealAt
<1>6. Opening'
  BY <1>1, <1>3 DEF Opening, Salted, SealAt, is_sealed
<1>7. DaemonKeyOnDisk'
  BY <1>1, <1>3 DEF DaemonKeyOnDisk, SealSeed, is_sealed
<1>8. QED
  BY <1>4, <1>5, <1>6, <1>7

LEMMA DiskWriteMeta == ASSUME Base, DiskInv, WriteMeta PROVE DiskInv'
<1> USE NatSalts DEF DiskInv
<1>1. /\ SealAt("meta") /\ meta' = Meta(cmd.seed, cmd.salt) /\ cmd' = Idle
      /\ UNCHANGED <<key, svc, salts>>
  BY DEF WriteMeta, SealAt
<1>2. meta'.kind = "whole" /\ meta'.node = cmd.seed /\ meta'.salt = cmd.salt
  BY <1>1 DEF Meta
<1>3. key.salt = cmd.salt /\ key.seed = cmd.seed
  BY <1>1 DEF Salted, Box
<1>4. Salted' /\ SealSeed'
  BY <1>1, <1>2 DEF Salted, SealSeed, SealAt, Idle
<1>5. Opening'
  BY <1>1, <1>2, <1>3 DEF Opening, Salted, SealAt, is_sealed
<1>6. DaemonKeyOnDisk'
  BY <1>1, <1>2, <1>3 DEF DaemonKeyOnDisk
<1>7. QED
  BY <1>4, <1>5, <1>6

\* A copied file was not there before, so the daemon has not read it.
LEMMA DiskCopy == ASSUME Base, DiskInv, CopyKey \/ CopyMeta PROVE DiskInv'
<1> USE NatSalts, BoundAssumption DEF DiskInv
<1>1. cmd.op = "migrate" /\ cmd'.op = "migrate" /\ cmd.place \in 1..Places
  <2>1. cmd.op = "migrate" /\ cmd.place <= Places
    BY DEF CopyKey, CopyMeta
  <2>2. cmd \in [op : {"migrate"}, place : 1..(Places + 1), step : {"key", "meta"},
                 took : SUBSET ({"key", "meta"} \X (1..Places))]
    BY <2>1 DEF Base, Types, Commands, Idle
  <2>3. cmd'.op = "migrate"
    BY <2>2 DEF CopyKey, CopyMeta
  <2>4. QED
    BY <2>1, <2>2, <2>3
<1>2. UNCHANGED <<svc, salts>> /\ salts >= Places
  BY DEF CopyKey, CopyMeta, Base, Types
<1>3. legacy[cmd.place].key.salt \in 0..Places /\ legacy[cmd.place].meta.salt \in 0..Places
  BY <1>1, HeldParts DEF Base, LegacyHeld
<1>4. \/ key' = key
      \/ key.kind = "none" /\ key'.salt \in 0..Places
  BY <1>3, PartKinds DEF CopyKey, CopyMeta, Copied
<1>5. \/ meta' = meta
      \/ meta.kind = "none" /\ meta'.salt \in 0..Places
  BY <1>3, PartKinds DEF CopyKey, CopyMeta, Copied
<1>6. Salted' /\ SealSeed'
  BY <1>1, <1>2, <1>4, <1>5 DEF Salted, SealSeed, SealAt
<1>7. Opening' /\ DaemonKeyOnDisk'
  BY <1>2, <1>4, <1>5 DEF Opening, DaemonKeyOnDisk, is_sealed
<1>8. QED
  BY <1>6, <1>7

LEMMA DiskUnlock == ASSUME Base, DiskInv, Unlock PROVE DiskInv'
<1> USE NatSalts DEF DiskInv
<1>1. UNCHANGED <<key, meta, cmd, salts>>
  BY UnlockKeeps
<1>2. NoMeta.salt = 0
  BY DEF NoMeta
<1>3. svc \in Services
  BY DEF Base, Types
<1>4. CASE svc' \in Failed
  <2>1. svc'.pc \notin Reading /\ svc'.meta.salt = 0
    BY <1>2, <1>4, FailedDown
  <2>2. Salted' /\ SealSeed'
    BY <1>1, <2>1 DEF Salted, SealSeed, SealAt, is_sealed, is_raw
  <2>3. Opening' /\ DaemonKeyOnDisk'
    BY <2>1 DEF Opening, DaemonKeyOnDisk, Reading
  <2>4. QED
    BY <2>2, <2>3
<1>5. CASE (UnlockChecks \/ UnlockDecrypts) /\ svc' \notin Failed
  <2>1. is_sealed /\ svc'.pc \in {"deriving", "loading"} /\ svc'.meta = svc.meta
    BY <1>3, <1>5 DEF UnlockChecks, UnlockDecrypts, Advance, Services, Opening
  <2>2. Salted' /\ SealSeed'
    BY <1>1, <2>1 DEF Salted, SealSeed, SealAt, is_sealed, is_raw
  <2>3. Opening' /\ DaemonKeyOnDisk'
    BY <1>1, <2>1 DEF Opening, DaemonKeyOnDisk, is_sealed
  <2>4. QED
    BY <2>2, <2>3
<1>6. CASE UnlockLoads /\ svc' \notin Failed
  <2>1. is_sealed /\ meta.kind = "whole" /\ svc'.pc = "opening" /\ svc'.meta = meta
    BY <1>3, <1>6 DEF UnlockLoads, Advance, Services, Opening
  <2>2. Salted' /\ SealSeed'
    BY <1>1, <2>1 DEF Salted, SealSeed, SealAt, is_sealed, is_raw
  <2>3. Opening' /\ DaemonKeyOnDisk'
    BY <1>1, <2>1 DEF Opening, DaemonKeyOnDisk, is_sealed
  <2>4. QED
    BY <2>2, <2>3
<1>7. CASE UnlockOpens /\ svc' \notin Failed
  <2>1. /\ svc.pc = "opening" /\ Unlocks(svc.pw, svc.meta)
        /\ svc'.pc = "up" /\ svc'.meta = NoMeta /\ svc'.seed = key.seed
    BY <1>3, <1>7 DEF UnlockOpens, Advance, Services
  <2>2. meta = svc.meta
    BY <2>1 DEF Opening, Unlocks
  <2>3. Salted' /\ SealSeed'
    BY <1>1, <1>2, <2>1 DEF Salted, SealSeed, SealAt, is_sealed, is_raw
  <2>4. Opening' /\ DaemonKeyOnDisk'
    BY <1>1, <2>1, <2>2 DEF Opening, DaemonKeyOnDisk, Unlocks
  <2>5. QED
    BY <2>3, <2>4
<1>8. QED
  BY <1>4, <1>5, <1>6, <1>7 DEF Unlock

LEMMA DiskNext == Base /\ DiskInv /\ [Next]_vars => DiskInv'
<1> SUFFICES ASSUME Base, DiskInv, [Next]_vars PROVE DiskInv'
  OBVIOUS
<1>1. ASSUME NEW p \in Passwords, init_sealed_identity(p) PROVE DiskInv'
  <2>1. PICK s \in Seeds : _seal(s, p)
    BY <1>1 DEF init_sealed_identity
  <2>2. UNCHANGED <<key, meta, svc>> /\ ~is_sealed /\ ~is_raw
    BY <1>1 DEF init_sealed_identity
  <2>3. QED
    BY <2>1, <2>2, DiskSeal
<1>2. ASSUME NEW p \in Passwords, seal_existing_identity(p) PROVE DiskInv'
  BY <1>2, DiskSeal DEF seal_existing_identity, is_raw, Base, WholeKey
<1>3. ASSUME NEW p \in Passwords, NEW explicit \in BOOLEAN, reset_password(explicit, p)
      PROVE  DiskInv'
  BY <1>3, DiskSeal DEF reset_password, Unlocks, Base, WholeKey
<1>4. QED
  BY <1>1, <1>2, <1>3, DiskWriteKey, DiskWriteMeta, DiskCopy, DiskUnlock, DiskIdles
     DEF Next, Idles, Unlock, InitCommand, ResetCommand

LEMMA DiskInit == Init => DiskInv
<1> SUFFICES ASSUME Init PROVE DiskInv
  OBVIOUS
<1>1. key.salt = 0 /\ meta.salt = 0 /\ svc.meta.salt = 0 /\ svc.pc = "off" /\ cmd.op = "idle"
  <2>1. NoKey.salt = 0 /\ \A s : Raw(s).salt = 0
    BY DEF NoKey, Raw
  <2>2. QED
    BY <2>1 DEF Init, NoMeta, Down, Idle
<1>2. QED
  BY <1>1, BoundAssumption DEF Init, DiskInv, Salted, SealSeed, SealAt, Opening, DaemonKeyOnDisk

-----------------------------------------------------------------------------
(* The passwords that open *)

\* A seal that is under way has not begun to write, or no seal is
Settled == cmd.op = "seal" => cmd.step = "key"

\* Key and metadata were written together, under the password last sealed in
Together == /\ key.kind = "box" /\ meta.kind = "whole" /\ key.salt = meta.salt
            /\ key.seed = meta.node /\ key.pw = last /\ last \in Passwords

LastInv == Settled /\ is_sealed /\ ~torn => Together

LEMMA LastKept ==
    ASSUME LastInv, UNCHANGED <<key, meta, last, torn>>, Settled' => Settled PROVE LastInv'
<1>1. torn' <=> torn
  BY Zenon
<1>2. is_sealed' <=> is_sealed
  BY DEF is_sealed
<1>3. Together' <=> Together
  BY DEF Together
<1>4. QED
  BY <1>1, <1>2, <1>3, Zenon DEF LastInv

LEMMA LastNext == Base /\ DiskInv /\ LastInv /\ [Next]_vars => LastInv'
<1> SUFFICES ASSUME Base, DiskInv, LastInv, [Next]_vars PROVE LastInv'
  OBVIOUS
<1>1. ASSUME UNCHANGED <<key, meta, last, torn>>, cmd.op # "seal" PROVE LastInv'
  BY <1>1, LastKept DEF Settled
<1>2. ASSUME cmd = Idle PROVE cmd.op # "seal"
  BY <1>2 DEF Idle
<1>3. CASE InitCommand \/ ResetCommand
  <2>1. UNCHANGED <<key, meta, last, torn>> /\ cmd = Idle
    BY <1>3, Zenon DEF InitCommand, ResetCommand, init_sealed_identity, seal_existing_identity,
                       reset_password
  <2>2. QED
    BY <1>1, <1>2, <2>1
<1>4. CASE ServiceCommand \/ migrate_legacy_state
  <2>1. UNCHANGED <<key, meta, last, torn>> /\ cmd = Idle
    BY <1>4, Zenon DEF ServiceCommand, install_service, uninstall_service, migrate_legacy_state
  <2>2. QED
    BY <1>1, <1>2, <2>1
<1>5. CASE TruncateStored \/ StoreSalt \/ StoreEnc \/ WriteUnit \/ EnableUnit \/ RestartService
  <2>1. UNCHANGED <<key, meta, last, torn>> /\ cmd.op = "install"
    BY <1>5, Zenon DEF TruncateStored, StoreSalt, StoreEnc, WriteUnit, EnableUnit, RestartService
  <2>2. QED
    BY <1>1, <2>1
<1>6. CASE Unlock \/ DaemonDies \/ UNCHANGED vars
  <2>1. UNCHANGED <<key, meta, last, torn, cmd>>
    BY <1>6, UnlockKeeps, Zenon DEF DaemonDies, vars
  <2>2. QED
    BY <2>1, LastKept DEF Settled
<1>7. CASE CommandDies \/ Reboot
  <2>1. CASE SealAt("meta")
    <3>1. torn'
      BY <1>7, <2>1, Zenon DEF CommandDies, Reboot, SealAt
    <3>2. QED
      BY <3>1, Zenon DEF LastInv
  <2>2. CASE ~SealAt("meta")
    <3>1. UNCHANGED <<key, meta, last>> /\ (torn' <=> torn)
      BY <1>7, <2>2, Zenon DEF CommandDies, Reboot, SealAt
    <3>2. Settled
      BY <2>2, NatSalts DEF Settled, SealAt
    <3>3. (is_sealed' <=> is_sealed) /\ (Together' <=> Together)
      BY <3>1 DEF is_sealed, Together
    <3>4. QED
      BY <3>1, <3>2, <3>3, Zenon DEF LastInv
  <2>3. QED
    BY <2>1, <2>2
<1>8. CASE WriteKey
  <2>1. cmd'.op = "seal" /\ cmd'.step = "meta"
    BY <1>8 DEF WriteKey, Base, Types, Commands, Idle
  <2>2. QED
    BY <2>1 DEF LastInv, Settled
<1>9. CASE WriteMeta
  <2>1. /\ key = Box(cmd.seed, cmd.pw, cmd.salt) /\ key' = key
        /\ meta' = Meta(cmd.seed, cmd.salt) /\ last' = cmd.pw
    BY <1>9 DEF WriteMeta, DiskInv, Salted, SealAt
  <2>2. cmd.pw \in Passwords
    BY <1>9 DEF WriteMeta, Base, Types, Commands, Idle
  <2>3. Together'
    BY <2>1, <2>2 DEF Together, Box, Meta
  <2>4. QED
    BY <2>3 DEF LastInv
<1>10. CASE CopyKey \/ CopyMeta
  <2>1. CASE UNCHANGED <<key, meta>>
    <3>1. cmd.op # "seal" /\ last' = last /\ (torn' <=> torn)
      BY <1>10, <2>1, Zenon DEF CopyKey, CopyMeta
    <3>2. (is_sealed' <=> is_sealed) /\ (Together' <=> Together)
      BY <2>1, <3>1 DEF is_sealed, Together
    <3>3. Settled
      BY <3>1 DEF Settled
    <3>4. QED
      BY <3>1, <3>2, <3>3, Zenon DEF LastInv
  <2>2. CASE key' # key \/ meta' # meta
    <3>1. torn'
      BY <1>10, <2>2, Zenon DEF CopyKey, CopyMeta
    <3>2. QED
      BY <3>1, Zenon DEF LastInv
  <2>3. QED
    BY <2>1, <2>2
<1>11. CASE MigrateDone
  <2>1. CASE UNCHANGED <<torn, last>>
    <3>1. UNCHANGED <<key, meta>> /\ cmd.op # "seal"
      BY <1>11 DEF MigrateDone
    <3>2. QED
      BY <1>1, <2>1, <3>1
  <2>2. CASE ~UNCHANGED <<torn, last>>
    <3>1. PICK i \in 1..Places : key = legacy[i].key /\ meta = legacy[i].meta
      BY <1>11, <2>2, Zenon DEF MigrateDone
    <3>2. last' = key.pw /\ UNCHANGED <<key, meta>>
      BY <1>11, <2>2, Zenon DEF MigrateDone
    <3>3. is_sealed' => Together'
      BY <3>1, <3>2, HeldParts DEF is_sealed, Together, Base, LegacyHeld
    <3>4. QED
      BY <3>3, Zenon DEF LastInv
  <2>3. QED
    BY <2>1, <2>2
<1>12. QED
  BY <1>3, <1>4, <1>5, <1>6, <1>7, <1>8, <1>9, <1>10, <1>11, Zenon DEF Next, Unlock

-----------------------------------------------------------------------------
(* The theorems *)

IInv == Base /\ DiskInv /\ LastInv

LEMMA InitHolds == Init => IInv /\ Flags
<1> SUFFICES ASSUME Init PROVE IInv /\ Flags
  OBVIOUS
<1>1. WholeKey /\ LegacyHeld
  <2>1. NoKey.kind = "none" /\ \A s : Raw(s).seed = s
    BY DEF NoKey, Raw
  <2>2. QED
    BY <2>1 DEF Init, WholeKey, LegacyHeld
<1>2. ~is_sealed /\ svc.pc = "off"
  BY DEF Init, is_sealed, NoMeta, Down
<1>3. LastInv
  BY <1>2 DEF LastInv
<1>4. Flags
  BY Zenon DEF Init, Flags
<1>5. QED
  BY <1>1, <1>3, <1>4, TypesInit, DiskInit DEF IInv, Base

LEMMA Inductive == Spec => []IInv
<1>1. IInv /\ [Next]_vars => IInv'
  BY BaseNext, DiskNext, LastNext DEF IInv
<1>2. QED
  BY <1>1, InitHolds, PTL DEF Spec

\* Types, with the unit started at most StartLimitBurst times in an interval.
THEOREM TypeCorrect == Spec => []TypeOK
<1>1. Spec => []Flags
  BY InitHolds, FlagsNext, PTL DEF Spec
<1>2. IInv /\ Flags => TypeOK
  BY TypeParts DEF IInv, Base
<1>3. QED
  BY <1>1, <1>2, Inductive, PTL

\* No command, finished or cut short, changes the identity under a daemon
\* that has opened it.
THEOREM DaemonKeyKept == Spec => []DaemonKeyOnDisk
<1>1. IInv => DaemonKeyOnDisk
  BY DEF IInv, DiskInv
<1>2. QED
  BY <1>1, Inductive, PTL

\* A key that is on disk is replaced by another only where --init takes it for
\* no identity: a sealed or half-copied key file without metadata.
THEOREM SeedNeverLost == Spec => SeedKept
<1>1. IInv /\ [Next]_vars =>
        [key.kind # "none" /\ key'.seed # key.seed
           => key.kind \in {"box", "part"} /\ meta.kind = "none"]_vars
  <2> SUFFICES ASSUME IInv, Next, key.kind # "none", key'.seed # key.seed
               PROVE  key.kind \in {"box", "part"} /\ meta.kind = "none"
    OBVIOUS
  <2>1. CASE WriteKey
    <3>1. SealAt("key") /\ key'.seed = cmd.seed
      BY <2>1 DEF WriteKey, SealAt, Box
    <3>2. ~is_sealed /\ ~is_raw
      BY <3>1 DEF IInv, DiskInv, SealSeed
    <3>3. key.kind \in {"none", "part", "raw", "box"}
      BY DEF IInv, Base, Types, KeyFiles
    <3>4. QED
      BY <3>2, <3>3 DEF is_sealed, is_raw
  <2>2. CASE CopyKey
    BY <2>2 DEF CopyKey, Copied
  <2>3. CASE ~WriteKey /\ ~CopyKey
    <3>1. key' = key
      BY <2>3, UnlockKeeps, Zenon DEF Next, InitCommand, ResetCommand, ServiceCommand, init_sealed_identity,
           seal_existing_identity, reset_password, install_service, uninstall_service, WriteMeta,
           migrate_legacy_state, CopyMeta, MigrateDone, TruncateStored, StoreSalt, StoreEnc,
           WriteUnit, EnableUnit, RestartService, CommandDies, DaemonDies, Reboot, Unlock
    <3>2. QED
      BY <3>1
  <2>4. QED
    BY <2>1, <2>2, <2>3
<1>2. QED
  BY <1>1, Inductive, PTL DEF Spec, SeedKept

\* The password that was last sealed in opens the identity, and no other does.
THEOREM LastOpens == Spec => []LastPasswordOpens
<1>1. IInv => LastPasswordOpens
  <2> SUFFICES ASSUME IInv, cmd = Idle, is_sealed, ~torn
               PROVE  \A p \in Passwords : Unlocks(p, meta) <=> p = last
    BY Zenon DEF LastPasswordOpens
  <2>1. Settled
    BY DEF Settled, Idle
  <2>2. Together
    BY <2>1, Zenon DEF IInv, LastInv
  <2>3. QED
    BY <2>2 DEF Together, Unlocks
<1>2. QED
  BY <1>1, Inductive, PTL
=============================================================================
