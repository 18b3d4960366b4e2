------------------------ MODULE FirmwareUpdateProofs ------------------------
(***************************************************************************)
(* Proofs about FirmwareUpdate, for any archives, any number of power cuts *)
(* and any contents: the types, what may lose a configuration file, and    *)
(* that the recorded version never goes down.                              *)
(***************************************************************************)
EXTENDS FirmwareUpdate, TLAPS

USE UpdateAssumption

-----------------------------------------------------------------------------
(* Types and the archive in hand *)

LEMMA TypeInit == Init => TypeOK
  BY DEF Init, TypeOK, Control, Media, HasArchive, Pc, Config, Kinds, Content

\* A step leaves control points, the progress of a move and the archive in hand legal.
LEMMA ControlStep == TypeOK /\ [Next]_vars => Control'
  <1> SUFFICES ASSUME TypeOK, [Next]_vars PROVE Control'
    OBVIOUS
  <1>1. CASE Power \/ SwitchOff
    BY <1>1 DEF TypeOK, Control, Pc, HasArchive, Goto, hand, conf, files, env,
       Power, PowerOn, BootLoader, SwitchOff
  <1>2. CASE FirstStart \/ FirstClean \/ FirstClear
    BY <1>2 DEF TypeOK, Control, Pc, HasArchive, Goto, hand, conf, files, env,
       FirstStart, FirstClean, FirstClear
  <1>3. CASE FirstRestore
    BY <1>3 DEF TypeOK, Control, Pc, HasArchive, Goto, hand, conf, files, env,
       FirstRestore, Move, Copy, Unlink, Advance
  <1>4. CASE Sd
    BY <1>4 DEF TypeOK, Control, Pc, HasArchive, Goto, hand, conf, files, env,
       Sd, SdNone, SdVerify, SdFound, check_version, Compare, Without, Content
  <1>5. CASE Recv
    BY <1>5 DEF TypeOK, Control, Pc, HasArchive, Goto, hand, conf, files, env,
       Recv, RecvFails, RecvDone, CheckSum, CheckCompare, Discard,
       check_version, Compare, RmTar, Without, Content
  <1>6. CASE Purge \/ Unpack \/ Script \/ SaveVersion \/ Arm
    BY <1>6 DEF TypeOK, Control, Pc, HasArchive, Goto, hand, conf, files, env,
       Purge, Unpack, Script, SaveVersion, Arm
  <1>7. CASE Look \/ Finish \/ Refuse \/ Drop
    BY <1>7 DEF TypeOK, Control, Pc, HasArchive, Goto, hand, conf, files, env,
       Look, Finish, Refuse, Drop, RmAll, RmTar, Reboot, Without, Content
  <1>8. CASE Backup
    BY <1>8 DEF TypeOK, Control, Pc, HasArchive, Goto, hand, conf, files, env,
       Backup, Move, Copy, Unlink, Advance
  <1>9. CASE Client
    BY <1>9 DEF TypeOK, Control, Pc, HasArchive, Goto, hand, conf, files, env,
       Client, Upload, UploadMisnamed, UploadBadName, Content
  <1>10. CASE PowerCut
    BY <1>10 DEF TypeOK, Control, Pc, HasArchive, Goto, hand, conf, files, env,
       PowerCut, PartlyRemoved, RmTar, Without, Content
  <1>11. CASE UNCHANGED vars \/ \E v \in Version : Insert(v)
    BY <1>11 DEF TypeOK, Control, Pc, HasArchive, Goto, hand, conf, files, env,
       vars, Insert, Content
  <1>12. QED
    BY <1>1, <1>2, <1>3, <1>4, <1>5, <1>6, <1>7, <1>8, <1>9, <1>10, <1>11
       DEF Next, Device, Power, First, Update

\* A step leaves what the media and the environment hold legal.
LEMMA MediaStep == TypeOK /\ [Next]_vars => Media'
  <1> SUFFICES ASSUME TypeOK, [Next]_vars PROVE Media'
    OBVIOUS
  <1>1. CASE Power \/ SwitchOff
    BY <1>1 DEF TypeOK, Control, Media, HasArchive, Goto, hand, conf, files, env,
       Power, PowerOn, BootLoader, SwitchOff
  <1>2. CASE FirstStart \/ FirstClean \/ FirstClear
    BY <1>2 DEF TypeOK, Control, Media, HasArchive, Goto, hand, conf, files, env,
       FirstStart, FirstClean, FirstClear
  <1>3. CASE FirstRestore
    <2>1. FileOf(k) \in Config
      BY DEF TypeOK, Control, FileOf, Config
    <2>2. root' \in SUBSET Config /\ card' \in SUBSET Config
      BY <1>3, <2>1 DEF TypeOK, Media, FirstRestore, Move, Copy, Unlink
    <2>3. UNCHANGED <<files, env, kind>>
      BY <1>3 DEF FirstRestore, Move
    <2>4. QED
      BY <2>2, <2>3 DEF TypeOK, Media, files, env
  <1>4. CASE Sd
    BY <1>4 DEF TypeOK, Control, Media, HasArchive, Goto, hand, conf, files, env,
       Sd, SdNone, SdVerify, SdFound, check_version, Compare, Without, Content
  <1>5. CASE Recv
    BY <1>5 DEF TypeOK, Control, Media, HasArchive, Goto, hand, conf, files, env,
       Recv, RecvFails, RecvDone, CheckSum, CheckCompare, Discard,
       check_version, Compare, RmTar, Without, Content
  <1>6. CASE Purge \/ Unpack \/ Script \/ SaveVersion \/ Arm
    BY <1>6 DEF TypeOK, Control, Media, HasArchive, Goto, hand, conf, files, env,
       Purge, Unpack, Script, SaveVersion, Arm
  <1>7. CASE Look \/ Finish \/ Refuse \/ Drop
    BY <1>7 DEF TypeOK, Control, Media, HasArchive, Goto, hand, conf, files, env,
       Look, Finish, Refuse, Drop, RmAll, RmTar, Reboot, Without, Content
  <1>8. CASE Backup
    <2>1. FileOf(k) \in Config
      BY DEF TypeOK, Control, FileOf, Config
    <2>2. root' \in SUBSET Config /\ card' \in SUBSET Config
      BY <1>8, <2>1 DEF TypeOK, Media, Backup, Move, Copy, Unlink
    <2>3. UNCHANGED <<files, env, kind>>
      BY <1>8 DEF Backup, Move
    <2>4. QED
      BY <2>2, <2>3 DEF TypeOK, Media, files, env
  <1>9. CASE Client
    BY <1>9 DEF TypeOK, Control, Media, HasArchive, Goto, hand, conf, files, env,
       Client, Upload, UploadMisnamed, UploadBadName, Content
  <1>10. CASE PowerCut
    BY <1>10 DEF TypeOK, Control, Media, HasArchive, Goto, hand, conf, files, env,
       PowerCut, PartlyRemoved, RmTar, Without, Content
  <1>11. CASE UNCHANGED vars \/ \E v \in Version : Insert(v)
    BY <1>11 DEF TypeOK, Control, Media, HasArchive, Goto, hand, conf, files, env,
       vars, Insert, Content
  <1>12. QED
    BY <1>1, <1>2, <1>3, <1>4, <1>5, <1>6, <1>7, <1>8, <1>9, <1>10, <1>11
       DEF Next, Device, Power, First, Update

\* Every variable keeps its type, and there is an archive in hand wherever the
\* code uses one, whatever fails.
THEOREM TypeCorrect == Spec => []TypeOK
  <1>1. TypeOK /\ [Next]_vars => TypeOK'
    BY ControlStep, MediaStep DEF TypeOK
  <1>2. QED
    BY <1>1, TypeInit, PTL DEF Spec

-----------------------------------------------------------------------------
(* No configuration file is lost *)

LEMMA InvInit == Init => Inv
  BY TypeInit DEF Init, Inv, Kept, Flagged, Progress, FlagPcs

\* Each half step of a move keeps every file on one of the media, and tells at
\* its end that the source is empty.
LEMMA MoveKeeps ==
  ASSUME TypeOK, Kept, NEW here, NEW there, here # there,
         Reliable, Move(here, there, root, card), Moved(root, card, k)
  PROVE  /\ Kept'
         /\ pc' = here => Moved(root, card, k)'
         /\ pc' # here => pc' = there /\ k' = 1 /\ Moved(root, card, 5)'
  <1>1. CASE Copying
    BY <1>1 DEF TypeOK, Control, Media, Kept, Move, Copy, Copying, Advance, Goto, FileOf,
       Config, Moved, Reliable, May
  <1>2. CASE ~Copying
    BY <1>2 DEF TypeOK, Control, Media, Kept, Move, Unlink, Copying, Advance, Goto, FileOf,
       Config, Moved, Reliable, May
  <1>3. QED
    BY <1>1, <1>2

\* The same of the move back.
LEMMA MoveBackKeeps ==
  ASSUME TypeOK, Kept, NEW here, NEW there, here # there,
         Reliable, Move(here, there, card, root), Moved(card, root, k)
  PROVE  /\ Kept'
         /\ pc' = here => Moved(card, root, k)'
         /\ pc' # here => pc' = there /\ k' = 1 /\ Moved(card, root, 5)'
  <1>1. CASE Copying
    BY <1>1 DEF TypeOK, Control, Media, Kept, Move, Copy, Copying, Advance, Goto, FileOf,
       Config, Moved, Reliable, May
  <1>2. CASE ~Copying
    BY <1>2 DEF TypeOK, Control, Media, Kept, Move, Unlink, Copying, Advance, Goto, FileOf,
       Config, Moved, Reliable, May
  <1>3. QED
    BY <1>1, <1>2

\* Before the flag is set both files have left the flash, so both are on the card.
LEMMA AllOnCard == ASSUME TypeOK, Kept, Progress, pc = "arm" PROVE card = Config
  <1>1. 1 \notin root /\ 2 \notin root
    BY DEF Progress, Moved
  <1>2. \A f \in Config : f = 1 \/ f = 2
    BY DEF Config
  <1>3. root \subseteq Config /\ card \subseteq Config
    BY DEF TypeOK, Media
  <1>4. root = {}
    BY <1>1, <1>2, <1>3
  <1>5. QED
    BY <1>3, <1>4 DEF Kept

\* Before it is cleared both are back and none is left behind.
LEMMA AllBack ==
  ASSUME TypeOK, Kept, Progress, pc = "clear" PROVE root = Config /\ card = {}
  <1>1. 1 \notin card /\ 2 \notin card
    BY DEF Progress, Moved
  <1>2. \A f \in Config : f = 1 \/ f = 2
    BY DEF Config
  <1>3. card \subseteq Config /\ root \subseteq Config
    BY DEF TypeOK, Media
  <1>4. card = {}
    BY <1>1, <1>2, <1>3
  <1>5. QED
    BY <1>3, <1>4 DEF Kept

LEMMA InvStep == ASSUME Reliable PROVE Inv /\ [Next]_vars => Inv'
  <1> SUFFICES ASSUME Inv, [Next]_vars PROVE Kept' /\ Flagged' /\ Progress'
    BY ControlStep, MediaStep DEF Inv, TypeOK
  <1>1. CASE BootLoader
    \* What the boot loader overwrites is on the card.
    BY <1>1 DEF BootLoader, Inv, Kept, Flagged, Progress, FlagPcs, Goto, hand, conf, files, env
  <1>2. CASE PowerOn \/ SwitchOff \/ PowerCut
    BY <1>2 DEF PowerOn, SwitchOff, PowerCut, PartlyRemoved, RmTar, Inv, Kept, Flagged, Progress,
       FlagPcs, Goto, hand, conf, files, env
  <1>3. CASE FirstStart \/ FirstClean
    BY <1>3 DEF FirstStart, FirstClean, Inv, Kept, Flagged, Progress, FlagPcs, Goto, Moved,
       Reliable, May, hand, conf, files, env
  <1>4. CASE FirstRestore
    <2>1. Kept' /\ Moved(card, root, k) /\ pc = "restore" /\ pc' \in {"restore", "clear"}
      BY <1>4, MoveBackKeeps DEF FirstRestore, Inv, Progress, Move, Copy, Unlink, Advance, Goto
    <2>2. Progress'
      BY <1>4, <2>1, MoveBackKeeps DEF FirstRestore, Inv, Progress
    <2>3. QED
      BY <1>4, <2>1, <2>2 DEF FirstRestore, Move, Inv, Flagged, FlagPcs, files, env
  <1>5. CASE FirstClear
    BY <1>5 DEF FirstClear, Inv, Kept, Flagged, Progress, FlagPcs, Goto, Reliable, May,
       hand, conf, files
  <1>6. CASE Sd \/ Client
    BY <1>6 DEF Sd, SdNone, SdFound, SdVerify, Client, Upload, UploadMisnamed, UploadBadName, Inv, Kept, Flagged,
       Progress, FlagPcs, Goto, hand, conf, files, env
  <1>7. CASE Recv
    BY <1>7 DEF Recv, RecvFails, RecvDone, CheckSum, CheckCompare, Discard, Inv, Kept, Flagged,
       Progress, FlagPcs, Goto, hand, conf, files, env
  <1>8. CASE Purge \/ Unpack \/ Look
    BY <1>8 DEF Purge, Unpack, Look, Inv, Kept, Flagged, Progress, FlagPcs, Goto, Moved,
       hand, conf, files, env
  <1>9. CASE Script \/ SaveVersion \/ Finish \/ Refuse \/ Drop
    BY <1>9 DEF Script, SaveVersion, Finish, Refuse, Drop, RmAll, Inv, Kept, Flagged, Progress,
       FlagPcs, Goto, hand, conf, files, env
  <1>10. CASE Backup
    <2>1. Kept' /\ Moved(root, card, k) /\ pc = "backup" /\ pc' \in {"backup", "arm"}
      BY <1>10, MoveKeeps DEF Backup, Inv, Progress, Move, Copy, Unlink, Advance, Goto
    <2>2. Progress'
      BY <1>10, <2>1, MoveKeeps DEF Backup, Inv, Progress
    <2>3. QED
      BY <1>10, <2>1, <2>2 DEF Backup, Move, Inv, Flagged, FlagPcs, files, env
  <1>11. CASE Arm
    <2>1. card = Config
      BY <1>11, AllOnCard DEF Arm, Goto, Inv
    <2>2. QED
      BY <1>11, <2>1 DEF Arm, Inv, Kept, Flagged, Progress, FlagPcs, Goto, hand, conf, files
  <1>12. CASE UNCHANGED vars \/ \E v \in Version : Insert(v)
    BY <1>12 DEF vars, Insert, Inv, Kept, Flagged, Progress, FlagPcs, hand, conf, files, env
  <1>13. QED
    BY <1>1, <1>2, <1>3, <1>4, <1>5, <1>6, <1>7, <1>8, <1>9, <1>10, <1>11, <1>12
       DEF Next, Device, Power, First, Update

\* With moves, environment and card that do not fail, the inductive invariant.
THEOREM ReliableInv == ASSUME Reliable PROVE Spec => []Inv
  BY InvInit, InvStep, PTL DEF Spec

\* No power cut, at any step and however many, and no failure of a script or of
\* tar loses a configuration file.
THEOREM ConfigKept == ASSUME Reliable PROVE Spec => []Kept
  <1>1. Inv => Kept
    BY DEF Inv
  <1>2. QED
    BY <1>1, ReliableInv, PTL

-----------------------------------------------------------------------------
(* The flag *)

\* A step that changes UPDATE_FLAG is Arm or FirstClear.
LEMMA FlagChanges ==
  ASSUME TypeOK, [Next]_vars, update_flag' # update_flag
  PROVE  \/ pc = "arm" /\ update_flag' = "1" /\ UNCHANGED conf
         \/ pc = "clear" /\ update_flag' = "0" /\ UNCHANGED conf
  <1>1. CASE Power \/ SwitchOff \/ FirstStart \/ FirstClean \/ FirstRestore
    BY <1>1 DEF Power, PowerOn, BootLoader, SwitchOff, FirstStart, FirstClean, FirstRestore,
       Move, env
  <1>2. CASE Sd \/ Recv \/ Client
    BY <1>2 DEF Sd, SdNone, SdFound, SdVerify, Recv, RecvFails, RecvDone, CheckSum,
       CheckCompare, Discard, Client, Upload, UploadMisnamed, UploadBadName, env
  <1>3. CASE Purge \/ Unpack \/ Look \/ Script \/ SaveVersion \/ Finish \/ Refuse \/ Drop \/ Backup
    BY <1>3 DEF Purge, Unpack, Look, Script, SaveVersion, Finish, Refuse, Drop, Backup, Move, env
  <1>4. CASE UNCHANGED vars \/ PowerCut \/ \E v \in Version : Insert(v)
    BY <1>4 DEF vars, PowerCut, Insert, env
  <1>5. CASE Arm \/ FirstClear
    BY <1>5 DEF Arm, FirstClear, Goto, conf
  <1>6. QED
    BY <1>1, <1>2, <1>3, <1>4, <1>5 DEF Next, Device, First, Update

\* The flag is set only with both files on the card, and cleared only with both
\* on the flash: no start of the boot loader in between finds them elsewhere.
THEOREM FlagHandover == ASSUME Reliable PROVE Spec => Handover
  <1>1. Inv /\ [Next]_vars =>
          [/\ update_flag = "0" /\ update_flag' = "1" => card = Config
           /\ update_flag = "1" /\ update_flag' = "0" => root = Config /\ card = {}]_vars
    BY FlagChanges, AllOnCard, AllBack DEF Inv
  <1>2. QED
    BY <1>1, ReliableInv, PTL DEF Spec, Handover

-----------------------------------------------------------------------------
(* The recorded version *)

\* While an archive that check_version found newer is being installed, it is
\* newer than what is recorded.
Newer ==
  pc \in {"verify", "purge", "unpack", "look", "script", "save"} /\ ver_status = 2
    => cur > firmware_ver \/ firmware_ver >= 32768

LEMMA NewerStep == TypeOK /\ Newer /\ [Next]_vars => Newer'
  <1> SUFFICES ASSUME TypeOK, Newer, [Next]_vars PROVE Newer'
    OBVIOUS
  <1> USE UpdateAssumption DEF Newer, Goto, hand, env
  <1>1. CASE Power \/ SwitchOff \/ First
    BY <1>1 DEF Power, PowerOn, BootLoader, SwitchOff, First, FirstStart, FirstClean,
       FirstRestore, Move, Copy, Unlink, Advance, FirstClear
  <1>2. ASSUME NEW v \in Version, SdFound(v) PROVE Newer'
    BY <1>2 DEF SdFound, check_version, Compare, Short, TypeOK, Media
  <1>3. CASE SdNone \/ SdVerify \/ Client
    BY <1>3 DEF SdNone, SdVerify, Client, Upload, UploadMisnamed, UploadBadName
  <1>4. CASE CheckCompare
    BY <1>4 DEF CheckCompare, check_version, Compare, Short, TypeOK, Media,
       Control, HasArchive
  <1>5. CASE RecvFails \/ RecvDone \/ CheckSum \/ Discard
    BY <1>5 DEF RecvFails, RecvDone, CheckSum, Discard
  <1>6. CASE Purge \/ Unpack \/ Look \/ Script \/ SaveVersion
    BY <1>6 DEF Purge, Unpack, Look, Script, SaveVersion
  <1>7. CASE Finish \/ Refuse \/ Backup \/ Arm \/ Drop
    BY <1>7 DEF Finish, Refuse, Backup, Move, Copy, Unlink, Advance, Arm, Drop
  <1>8. CASE UNCHANGED vars \/ PowerCut \/ \E v \in Version : Insert(v)
    BY <1>8 DEF vars, PowerCut, Insert
  <1>9. QED
    BY <1>1, <1>2, <1>3, <1>4, <1>5, <1>6, <1>7, <1>8 DEF Next, Device, Sd, Recv, Update

\* A step that changes the recorded version is SaveVersion.
LEMMA VersionChanges ==
  ASSUME TypeOK, Newer, [Next]_vars
  PROVE  firmware_ver' < firmware_ver => firmware_ver >= 32768
  <1>1. firmware_ver \in Nat
    BY DEF TypeOK, Media
  <1>2. CASE SaveVersion
    BY <1>1, <1>2 DEF SaveVersion, Newer, Goto, TypeOK, Control, HasArchive
  <1>3. CASE Power \/ SwitchOff \/ First \/ Sd
    BY <1>1, <1>3 DEF Power, PowerOn, BootLoader, SwitchOff, First, FirstStart, FirstClean,
       FirstRestore, Move, FirstClear, Sd, SdNone, SdFound, SdVerify, env
  <1>4. CASE Recv \/ Client
    BY <1>1, <1>4 DEF Recv, RecvFails, RecvDone, CheckSum, CheckCompare, Discard, Client, Upload,
       UploadMisnamed, UploadBadName, env
  <1>5. CASE Purge \/ Unpack \/ Look \/ Script \/ Finish \/ Refuse \/ Backup \/ Arm \/ Drop
    BY <1>1, <1>5 DEF Purge, Unpack, Look, Script, Finish, Refuse, Backup, Move, Arm, Drop, env
  <1>6. CASE UNCHANGED vars \/ PowerCut \/ \E v \in Version : Insert(v)
    BY <1>1, <1>6 DEF vars, PowerCut, Insert, env
  <1>7. QED
    BY <1>2, <1>3, <1>4, <1>5, <1>6 DEF Next, Device, Update

\* Until 8.0.0.0 is recorded the version never goes down, whatever fails and
\* wherever the power is cut.
THEOREM VersionNeverFalls == Spec => VersionGrows
  <1>1. Init => Newer
    BY DEF Init, Newer
  <1>2. TypeOK /\ Newer /\ [Next]_vars => [firmware_ver' < firmware_ver => firmware_ver >= 32768]_vars
    BY VersionChanges
  <1>3. QED
    BY <1>1, <1>2, NewerStep, TypeCorrect, PTL DEF Spec, VersionGrows

-----------------------------------------------------------------------------
(* What is lost when things fail *)

\* A file about to be removed from one medium is on the other.
Copied(to, n) == (n = 2 => 1 \in to) /\ (n = 4 => 2 \in to)

InMove ==
  /\ pc \notin {"restore", "backup"} => k = 1
  /\ pc = "restore" => Copied(root, k)
  /\ pc = "backup"  => Copied(card, k)

\* A half step of a move, failed or not, loses nothing and leaves the next one
\* a file that has been copied.
LEMMA MoveLosesNone ==
  ASSUME TypeOK, NEW here, NEW there, here # there,
         Move(here, there, root, card), Copied(card, k)
  PROVE  /\ root \cup card \subseteq root' \cup card'
         /\ pc' = here => Copied(card, k)'
         /\ pc' # here => pc' = there /\ k' = 1
  <1>1. CASE Copying
    BY <1>1 DEF TypeOK, Control, Media, Move, Copy, Copying, Advance, Goto, FileOf,
       Config, Copied
  <1>2. CASE ~Copying
    BY <1>2 DEF TypeOK, Control, Media, Move, Unlink, Copying, Advance, Goto, FileOf,
       Config, Copied
  <1>3. QED
    BY <1>1, <1>2

\* The same of the move back.
LEMMA MoveBackLosesNone ==
  ASSUME TypeOK, NEW here, NEW there, here # there,
         Move(here, there, card, root), Copied(root, k)
  PROVE  /\ root \cup card \subseteq root' \cup card'
         /\ pc' = here => Copied(root, k)'
         /\ pc' # here => pc' = there /\ k' = 1
  <1>1. CASE Copying
    BY <1>1 DEF TypeOK, Control, Media, Move, Copy, Copying, Advance, Goto, FileOf,
       Config, Copied
  <1>2. CASE ~Copying
    BY <1>2 DEF TypeOK, Control, Media, Move, Unlink, Copying, Advance, Goto, FileOf,
       Config, Copied
  <1>3. QED
    BY <1>1, <1>2

\* Every other step but the boot loader's leaves the files where they are.
LEMMA OthersMoveNone ==
  ASSUME TypeOK, InMove, [Next]_vars, ~FirstRestore, ~Backup
  PROVE  /\ InMove'
         /\ root' # root \/ card' # card => BootLoader
  <1> USE DEF InMove, Copied, Goto, hand, conf
  <1>1. CASE Power \/ SwitchOff
    BY <1>1 DEF Power, PowerOn, BootLoader, SwitchOff
  <1>2. CASE FirstStart \/ FirstClean \/ FirstClear
    BY <1>2 DEF FirstStart, FirstClean, FirstClear
  <1>3. CASE Sd
    BY <1>3 DEF Sd, SdNone, SdFound, SdVerify
  <1>4. CASE Recv \/ Client
    BY <1>4 DEF Recv, RecvFails, RecvDone, CheckSum, CheckCompare, Discard, Client,
       Upload, UploadMisnamed, UploadBadName
  <1>5. CASE Purge \/ Unpack \/ Look \/ Script \/ SaveVersion
    BY <1>5 DEF Purge, Unpack, Look, Script, SaveVersion
  <1>6. CASE Finish \/ Refuse \/ Arm \/ Drop
    BY <1>6 DEF Finish, Refuse, Arm, Drop
  <1>7. CASE UNCHANGED vars \/ PowerCut \/ \E v \in Version : Insert(v)
    BY <1>7 DEF vars, PowerCut, Insert
  <1>8. QED
    BY <1>1, <1>2, <1>3, <1>4, <1>5, <1>6, <1>7 DEF Next, Device, First, Update

\* Each step of a move loses nothing; the others move nothing.
LEMMA LossStep ==
  ASSUME TypeOK, InMove, [Next]_vars
  PROVE  /\ InMove'
         /\ ~(root \cup card \subseteq root' \cup card') =>
              /\ pc = "boot" /\ update_flag = "1"
              /\ \E v \in dirs : kind[v] = "images"
  <1>1. CASE FirstRestore
    <2>1. pc = "restore" /\ Copied(root, k)
      BY <1>1 DEF FirstRestore, Move, Copy, Unlink, Advance, Goto, InMove
    <2>2. QED
      BY <1>1, <2>1, MoveBackLosesNone DEF FirstRestore, InMove
  <1>2. CASE Backup
    <2>1. pc = "backup" /\ Copied(card, k)
      BY <1>2 DEF Backup, Move, Copy, Unlink, Advance, Goto, InMove
    <2>2. QED
      BY <1>2, <2>1, MoveLosesNone DEF Backup, InMove
  <1>3. CASE ~FirstRestore /\ ~Backup
    <2>1. InMove' /\ (root' # root \/ card' # card => BootLoader)
      BY <1>3, OthersMoveNone
    <2>2. BootLoader /\ root' # root =>
            pc = "boot" /\ update_flag = "1" /\ \E v \in dirs : kind[v] = "images"
      BY DEF BootLoader, Goto
    <2>3. BootLoader => card' = card
      BY DEF BootLoader
    <2>4. QED
      BY <2>1, <2>2, <2>3
  <1>4. QED
    BY <1>1, <1>2, <1>3

\* Whatever fails and wherever the power is cut, a configuration file is lost
\* only to the boot loader, never by a move (update_process.c:172-177, 418-423, 720-725).
THEOREM OnlyBootLoaderLoses == Spec => LostToBootLoader
  <1>1. Init => InMove
    BY DEF Init, InMove
  <1>2. TypeOK /\ InMove /\ [Next]_vars => InMove'
    BY LossStep
  <1>3. TypeOK /\ InMove /\ [Next]_vars =>
          [~(root \cup card \subseteq root' \cup card') =>
             /\ pc = "boot" /\ update_flag = "1"
             /\ \E v \in dirs : kind[v] = "images"]_vars
    BY LossStep
  <1>4. QED
    BY <1>1, <1>2, <1>3, TypeCorrect, PTL DEF Spec, LostToBootLoader

=============================================================================
