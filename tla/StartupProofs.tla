---------------------------- MODULE StartupProofs ----------------------------
(***************************************************************************)
(* What main() guarantees before its loop and at its end, for every        *)
(* command line and every configuration file, whatever fails and whenever  *)
(* signals come.                                                           *)
(***************************************************************************)
EXTENDS Daemon, TLAPS

-----------------------------------------------------------------------------
(* What a step of the daemon is to the variables of Startup.               *)

\* The loop moves between its phases, and changes nothing else but gRet; the
\* first turn also forgets what is no longer needed.
LoopMoves ==
  /\ phase # "stopped"
  /\ phase' \notin {"options", "config", "overrides", "chroot", "user", "ids", "socket", "dbus", "refresh",
                "stopped"}
  /\ settings' \in {settings, Kept(settings)}
  /\ UNCHANGED <<cred, pidfile>>

\* Before its loop main() goes on only by its own steps.
LEMMA StartupMove ==
  ASSUME [DaemonNext]_dvars
  PROVE  \/ UNCHANGED <<phase, settings, taken, cred, pidfile, given>>
         \/ StartupStep
         \/ \E ret : ExitWith(ret) /\ phase \notin Ended
         \/ LoopMoves
<1>1. CASE Starts
  BY <1>1 DEF Starts
<1>2. CASE FirstRefresh
  BY <1>2 DEF FirstRefresh, LoopMoves
<1>3. CASE SignalArrives
  <2>1. PICK s \in Signals : Signal(s)
    BY <1>3 DEF SignalArrives
  <2>2. QED BY <2>1 DEF Signal, Dies, LoopMoves, Ended
<1>4. CASE LoopTop
  <2>1. CASE phase = "loop" /\ ExitWith(gRet)
    BY <2>1 DEF Ended
  <2>2. QED BY <1>4, <2>1 DEF LoopTop, Bails, LoopMoves
<1>5. CASE ReadFails
  <2>1. phase = "select" /\ ExitWith(gRet)
    BY <1>5 DEF ReadFails, Bails
  <2>2. QED BY <2>1 DEF Ended
<1>6. CASE EnterSelect \/ SelectReturns \/ ReadPort \/ Dispatch \/ ProcessQueue
  BY <1>6 DEF EnterSelect, SelectReturns, ReadPort, Dispatch, ProcessQueue, At, LoopMoves
<1>7. CASE Client \/ PanelTalks \/ SecondPasses \/ UNCHANGED dvars
           \/ \E r \in Requests : LineLoses(r) \/ \E resp \in {"ACK", "NAK"} : PanelResponds(r, resp)
  BY <1>7
     DEF Client, PanelTalks, PanelStartsFrame, PanelEndsFrame, PanelListsEquipment, Arrives,
         SecondPasses, LineLoses, PanelResponds, dvars, startup
<1>8. QED BY <1>1, <1>2, <1>3, <1>4, <1>5, <1>6, <1>7 DEF DaemonNext, Main

-----------------------------------------------------------------------------
(* Settings.                                                               *)

Keys == {"SocketPath", "PrivDropToUser", "Chroot", "Command", "PIDFile", "SocketBaud"}

\* The settings are a function of the six keys.
IsSettings(s) == s = [key \in Keys |-> s[key]]

\* One setting at a time is changed; a PID file is never unset or replaced.
LEMMA SetOne ==
  ASSUME NEW s, IsSettings(s), NEW key, NEW value, NEW creates
  PROVE  LET new == SetConfigParam(s, key, value, creates).s
         IN /\ IsSettings(new)
            /\ \A k \in Paths : k # key => new[k] = s[k]
            /\ key \in Paths /\ value # NULL => new[key] = Stored(value)
            /\ new.PIDFile = s.PIDFile \/ (s.PIDFile = NULL /\ new.PIDFile # NULL)
<1> DEFINE new == SetConfigParam(s, key, value, creates).s
<1>1. DOMAIN s = Keys
  BY DEF IsSettings
<1>2. CASE key \notin Keys
  BY <1>1, <1>2 DEF SetConfigParam, Paths, Keys
<1>3. CASE key \in Paths /\ value # NULL
  <2>1. new = [s EXCEPT ![key] = Stored(value)]
    BY <1>1, <1>3 DEF SetConfigParam, Paths, Keys
  <2>2. QED BY <1>1, <1>3, <2>1 DEF IsSettings, Paths, Keys
<1>4. CASE key = "SocketBaud" /\ value # NULL
  <2>1. new = s \/ new = [s EXCEPT !.SocketBaud = value]
    BY <1>1, <1>4 DEF SetConfigParam, Paths, Keys
  <2>2. QED BY <1>1, <1>4, <2>1 DEF IsSettings, Paths, Keys
<1>5. CASE key = "PIDFile" /\ value # NULL
  <2>1. new = s \/ (s.PIDFile = NULL /\ new = [s EXCEPT !.PIDFile = value])
    BY <1>1, <1>5 DEF SetConfigParam, Paths, Keys
  <2>2. QED BY <1>1, <1>5, <2>1 DEF IsSettings, Paths, Keys
<1>6. CASE key \in Keys /\ value = NULL
  <2>1. new = s
    BY <1>1, <1>6 DEF SetConfigParam, Paths, Keys
  <2>2. QED BY <1>6, <2>1
<1>7. QED BY <1>2, <1>3, <1>4, <1>5, <1>6 DEF Keys, Paths

\* The settings are these six, whatever the file and the command line say.
THEOREM SettingsKept == DaemonSpec => []IsSettings(settings)
<1>1. DaemonInit => IsSettings(settings)
  BY DEF DaemonInit, StartupInit, IsSettings, Keys
<1>2. IsSettings(settings) /\ [DaemonNext]_dvars => IsSettings(settings)'
  <2> SUFFICES ASSUME IsSettings(settings), [DaemonNext]_dvars PROVE IsSettings(settings)'
    OBVIOUS
  <2>1. CASE UNCHANGED settings
    BY <2>1 DEF IsSettings
  <2>2. CASE settings' = Kept(settings)
    BY <2>2 DEF Kept, IsSettings, Keys
  <2>3. ASSUME NEW key, NEW value, NEW creates,
               settings' = SetConfigParam(settings, key, value, creates).s
        PROVE  IsSettings(settings)'
    <3>1. IsSettings(SetConfigParam(settings, key, value, creates).s)
      BY SetOne
    <3>2. QED BY <2>3, <3>1 DEF IsSettings
  <2>4. CASE LoadConfigFile \/ ApplyOptions
    BY <2>1, <2>3, <2>4 DEF LoadConfigFile, ApplyOptions, Apply, ExitWith, Dies
  <2>5. CASE StartupStep
    BY <2>1, <2>4, <2>5
       DEF StartupStep, ParseOptions, ChangeRoot, LookUpUser, DropPrivileges, OpenSocket, StartDbus, ExitWith, Dies
  <2>6. QED BY <2>1, <2>2, <2>5, StartupMove DEF LoopMoves, ExitWith
<1>3. QED BY <1>1, <1>2, PTL DEF DaemonSpec

-----------------------------------------------------------------------------
(* The command line and the file.                                          *)

\* The last of the first n options that names a key has set it.
Wins(options, n, s) ==
  \A key \in Paths, i \in 1 .. n :
    options[i][1] = key /\ (\A j \in i + 1 .. n : options[j][1] # key) =>
      s[key] = Stored(options[i][2])

Options == Seq(STRING \X (STRING \ {NULL}))

Late == {"chroot", "user", "ids", "socket", "dbus", "refresh"}

OverridesInv ==
  /\ phase \in {"options", "config", "overrides"} \union Late => given.line \in CommandLines
  /\ phase = "overrides" => taken \in 0 .. Len(given.line.options) /\ Wins(given.line.options, taken, settings)
  /\ phase \in Late => Wins(given.line.options, Len(given.line.options), settings)

\* The options of a command line are a list of keys and values.
LEMMA OptionsListed ==
  ASSUME NEW line \in CommandLines
  PROVE  line.options \in Options
BY CommandLinesAssumption DEF Options

\* The next option is set, and keeps what the others have set.
LEMMA SetNext ==
  ASSUME NEW s, IsSettings(s), NEW options \in Options,
         NEW n \in Nat, n < Len(options), Wins(options, n, s), NEW creates,
         NEW new, new = SetConfigParam(s, options[n + 1][1], options[n + 1][2], creates).s
  PROVE  Wins(options, n + 1, new)
<1> DEFINE o == options[n + 1]
<1>1. o[2] # NULL
  BY DEF Options
<1>2. /\ \A k \in Paths : k # o[1] => new[k] = s[k]
      /\ o[1] \in Paths => new[o[1]] = Stored(o[2])
  BY <1>1, SetOne
<1> HIDE DEF o
<1>3. SUFFICES ASSUME NEW key \in Paths, NEW i \in 1 .. n + 1,
                      options[i][1] = key, \A j \in i + 1 .. n + 1 : options[j][1] # key
               PROVE  new[key] = Stored(options[i][2])
  BY DEF Wins
<1>4. CASE i = n + 1
  BY <1>2, <1>3, <1>4 DEF o
<1>5. CASE i # n + 1
  <2>1. i \in 1 .. n /\ n + 1 \in i + 1 .. n + 1 /\ \A j \in i + 1 .. n : options[j][1] # key
    BY <1>3, <1>5
  <2>2. s[key] = Stored(options[i][2])
    BY <1>3, <2>1 DEF Wins
  <2>3. key # o[1]
    BY <1>3, <2>1 DEF o
  <2>4. QED BY <1>2, <2>2, <2>3
<1>6. QED BY <1>4, <1>5

\* What the command line sets is set when main() goes to work with it, for every
\* configuration file and every list of options.
THEOREM OptionsWin == DaemonSpec => []CommandLineWins
<1>1. DaemonInit => OverridesInv
  BY DEF DaemonInit, StartupInit, OverridesInv, Late
<1>2. IsSettings(settings) /\ OverridesInv /\ [DaemonNext]_dvars => OverridesInv'
  <2> SUFFICES ASSUME IsSettings(settings), OverridesInv, [DaemonNext]_dvars PROVE OverridesInv'
    OBVIOUS
  <2>1. CASE UNCHANGED <<phase, settings, taken, given>>
    BY <2>1 DEF OverridesInv
  <2>2. CASE phase' \notin {"options", "config", "overrides"} \union Late
    BY <2>2 DEF OverridesInv
  <2>3. CASE phase \in Late /\ phase' \in Late /\ UNCHANGED <<settings, given>>
    BY <2>3 DEF OverridesInv, Late
  <2>4. CASE phase' = "config" /\ UNCHANGED given /\ phase \in {"options", "config"}
    BY <2>4 DEF OverridesInv, Late
  <2>5. CASE LoadConfigFile
    <3>1. phase = "config"
      BY <2>5 DEF LoadConfigFile
    <3>2. given.line \in CommandLines
      BY <3>1 DEF OverridesInv
    <3>3. CASE phase' = "killed"
      BY <2>2, <3>3 DEF Late
    <3>4. CASE phase' = "config" /\ UNCHANGED given
      BY <2>4, <3>1, <3>4
    <3>5. CASE phase' = "overrides" /\ taken' = 0 /\ UNCHANGED given
      <4>1. Len(given.line.options) \in Nat
        BY <3>2, OptionsListed DEF Options
      <4>2. 0 \in 0 .. Len(given.line.options) /\ 1 .. 0 = {}
        BY <4>1
      <4>3. Wins(given.line.options, 0, settings')
        BY <4>2 DEF Wins
      <4>4. taken' \in 0 .. Len(given.line.options) /\ Wins(given.line.options, taken', settings')
        BY <3>5, <4>2, <4>3
      <4>5. given'.line \in CommandLines /\ given'.line.options = given.line.options
        BY <3>2, <3>5
      <4>6. phase' = "overrides" /\ phase' \notin Late
        BY <3>5 DEF Late
      <4>7. QED BY <4>4, <4>5, <4>6 DEF OverridesInv, Wins
    <3>6. phase' = "killed" \/ (phase' = "config" /\ UNCHANGED given)
            \/ (phase' = "overrides" /\ taken' = 0 /\ UNCHANGED given)
      BY <2>5, <3>1 DEF LoadConfigFile, Dies, Stays, Goes
    <3>7. QED BY <3>3, <3>4, <3>5, <3>6
  <2>6. CASE ApplyOptions
    <3>1. /\ phase = "overrides" /\ given.line \in CommandLines
          /\ taken \in 0 .. Len(given.line.options) /\ Wins(given.line.options, taken, settings)
      BY <2>6 DEF ApplyOptions, OverridesInv
    <3>2. given.line.options \in Options
      BY <3>1, OptionsListed
    <3>3. Len(given.line.options) \in Nat
      BY <3>2 DEF Options
    <3>4. ASSUME NEW creates, taken < Len(given.line.options), Stays,
                 settings' = Apply(given.line.options[taken + 1], creates)
          PROVE  OverridesInv'
      <4>1. given' = given /\ taken' = taken + 1 /\ phase' = phase /\ taken \in Nat
        BY <3>1, <3>3, <3>4 DEF Stays
      <4>2. Wins(given.line.options, taken + 1, settings')
        BY <3>1, <3>2, <3>4, <4>1, SetNext DEF Apply, Options
      <4>3. QED BY <3>1, <3>3, <3>4, <4>1, <4>2 DEF OverridesInv, Late, Wins
    <3>5. CASE taken = Len(given.line.options) /\ phase' = "chroot" /\ UNCHANGED <<settings, given>>
      BY <3>1, <3>5 DEF OverridesInv, Late, Wins
    <3>6. QED
      BY <2>2, <2>6, <3>4, <3>5 DEF ApplyOptions, ExitWith, Goes, Late
  <2>7. CASE DropPrivileges
    BY <2>2, <2>3, <2>7 DEF DropPrivileges, ExitWith, Goes, Stays, Late
  <2>8. CASE LookUpUser
    BY <2>2, <2>3, <2>8 DEF LookUpUser, ExitWith, Goes, Late
  <2>9. CASE StartupStep
    BY <2>2, <2>3, <2>4, <2>5, <2>6, <2>7, <2>8, <2>9
       DEF StartupStep, ParseOptions, ChangeRoot, OpenSocket, StartDbus, ExitWith, Dies, Goes, Late
  <2>10. QED BY <2>1, <2>2, <2>9, StartupMove DEF LoopMoves, ExitWith, Late
<1>3. OverridesInv => CommandLineWins
  BY DEF OverridesInv, CommandLineWins, Wins, Late
<1>4. QED BY <1>1, <1>2, <1>3, SettingsKept, PTL DEF DaemonSpec

-----------------------------------------------------------------------------
(* Privileges.                                                             *)

\* Where no id has been changed yet.
Early == {"options", "config", "overrides", "chroot", "user"}

\* Between the two calls the account is known, the first call has been made
\* before the second, and what is still to be called is still root's.
PrivilegesInv ==
  LET name == settings.PrivDropToUser
  IN /\ cred = [uid |-> cred.uid, gid |-> cred.gid, root |-> cred.root]
     /\ phase \in Early => cred.uid = given.line.user /\ cred.gid = given.line.user
     /\ phase = "ids" =>
          /\ name # NULL /\ name \in DOMAIN Users
          /\ taken \in 0 .. 2
          /\ given.line.user = "root"
          /\ cred.gid = IF taken = 0 THEN "root" ELSE Users[name].gid
          /\ cred.uid = IF taken < 2 THEN "root" ELSE Users[name].uid
     /\ PrivilegesDropped

\* A daemon that was started by root and told to become another user has the user
\* and the group of the account when it opens the port, the group first, whatever
\* the database says of the account, whatever fails and whatever signal comes.
THEOREM DropsPrivileges == DaemonSpec => []PrivilegesDropped
<1>1. DaemonInit => PrivilegesInv
  BY DEF DaemonInit, StartupInit, PrivilegesInv, PrivilegesDropped, Early
<1>2. PrivilegesInv /\ [DaemonNext]_dvars => PrivilegesInv'
  <2> SUFFICES ASSUME PrivilegesInv, [DaemonNext]_dvars PROVE PrivilegesInv'
    OBVIOUS
  <2>1. CASE UNCHANGED <<phase, settings, taken, cred, given>>
    BY <2>1 DEF PrivilegesInv, PrivilegesDropped
  <2>2. CASE UNCHANGED cred /\ phase' \notin Early \union {"ids", "socket", "dbus", "refresh"}
    BY <2>2 DEF PrivilegesInv, PrivilegesDropped
  <2>3. CASE /\ UNCHANGED <<settings, cred, given>>
             /\ phase \in {"socket", "dbus", "refresh"} /\ phase' \in {"socket", "dbus", "refresh"}
    BY <2>3 DEF PrivilegesInv, PrivilegesDropped, Early
  <2>4. CASE UNCHANGED <<cred, given>> /\ phase \in Early /\ phase' \in Early
    BY <2>4 DEF PrivilegesInv, PrivilegesDropped, Early
  <2>5. CASE ChangeRoot
    <3>1. CASE UNCHANGED cred
      BY <2>2, <2>4, <2>5, <3>1 DEF ChangeRoot, Goes, ExitWith, Early
    <3>2. CASE cred' = [cred EXCEPT !.root = settings.Chroot] /\ Goes("user")
      <4>1. cred' = [uid |-> cred.uid, gid |-> cred.gid, root |-> settings.Chroot]
        BY <3>2 DEF PrivilegesInv
      <4>2. QED BY <2>5, <3>2, <4>1 DEF ChangeRoot, Goes, PrivilegesInv, PrivilegesDropped, Early
    <3>3. QED BY <2>5, <3>1, <3>2 DEF ChangeRoot, Goes, ExitWith
  <2>6. CASE LookUpUser
    <3>1. CASE ExitWith("FAIL")
      BY <2>2, <3>1 DEF ExitWith, Early
    <3>2. phase = "user" /\ cred.uid = given.line.user /\ cred.gid = given.line.user
      BY <2>6 DEF LookUpUser, PrivilegesInv, Early
    <3>3. CASE /\ Goes("socket") /\ UNCHANGED <<settings, cred>>
               /\ settings.PrivDropToUser = NULL \/ cred.uid # "root"
      BY <3>2, <3>3 DEF Goes, PrivilegesInv, PrivilegesDropped, Early
    <3>4. CASE /\ Goes("ids") /\ UNCHANGED <<settings, cred>>
               /\ settings.PrivDropToUser # NULL /\ settings.PrivDropToUser \in DOMAIN Users
               /\ cred.uid = "root"
      BY <3>2, <3>4 DEF Goes, PrivilegesInv, PrivilegesDropped, Early
    <3>5. QED BY <2>6, <3>1, <3>3, <3>4 DEF LookUpUser
  <2>7. CASE DropPrivileges
    <3> DEFINE name == settings.PrivDropToUser
    <3>1. /\ phase = "ids" /\ name # NULL /\ name \in DOMAIN Users /\ taken \in 0 .. 2
          /\ given.line.user = "root"
          /\ cred.gid = IF taken = 0 THEN "root" ELSE Users[name].gid
          /\ cred.uid = IF taken < 2 THEN "root" ELSE Users[name].uid
      BY <2>7 DEF DropPrivileges, PrivilegesInv
    <3>2. CASE ExitWith("FAIL")
      BY <2>2, <3>2 DEF ExitWith, Early
    <3>3. CASE taken = 2 /\ Goes("socket") /\ UNCHANGED <<settings, cred>>
      BY <3>1, <3>3 DEF Goes, PrivilegesInv, PrivilegesDropped, Early
    <3>4. CASE taken = 0 /\ Stays /\ UNCHANGED settings
               /\ cred' = [uid |-> cred.uid, gid |-> Users[name].gid, root |-> cred.root]
      BY <3>1, <3>4 DEF Stays, PrivilegesInv, PrivilegesDropped, Early
    <3>5. CASE taken = 1 /\ Stays /\ UNCHANGED settings
               /\ cred' = [uid |-> Users[name].uid, gid |-> cred.gid, root |-> cred.root]
      BY <3>1, <3>5 DEF Stays, PrivilegesInv, PrivilegesDropped, Early
    <3>6. ASSUME taken = 0, taken < Len(DropOrder) PROVE DropOrder[taken + 1] = "gid"
      BY <3>6 DEF DropOrder
    <3>7. ASSUME taken = 1, taken < Len(DropOrder) PROVE DropOrder[taken + 1] = "uid"
      BY <3>7 DEF DropOrder
    <3>8. Len(DropOrder) = 2
      BY DEF DropOrder
    <3>9. CASE taken = 0 /\ ~ ExitWith("FAIL")
      BY <2>7, <3>1, <3>4, <3>6, <3>8, <3>9 DEF DropPrivileges, PrivilegesInv
    <3>10. CASE taken = 1 /\ ~ ExitWith("FAIL")
      BY <2>7, <3>1, <3>5, <3>7, <3>8, <3>10 DEF DropPrivileges, PrivilegesInv
    <3>11. CASE taken = 2
      BY <2>7, <3>3, <3>8, <3>11 DEF DropPrivileges
    <3>12. QED BY <3>1, <3>2, <3>9, <3>10, <3>11
  <2>8. CASE ParseOptions \/ LoadConfigFile \/ ApplyOptions
    BY <2>2, <2>4, <2>8 DEF ParseOptions, LoadConfigFile, ApplyOptions, ExitWith, Dies, Goes, Stays, Early
  <2>9. CASE OpenSocket \/ StartDbus
    BY <2>2, <2>3, <2>9 DEF OpenSocket, StartDbus, ExitWith, Dies, Goes, Early
  <2>10. QED
    BY <2>1, <2>2, <2>5, <2>6, <2>7, <2>8, <2>9, StartupMove
       DEF StartupStep, LoopMoves, ExitWith, Early
<1>3. PrivilegesInv => PrivilegesDropped
  BY DEF PrivilegesInv
<1>4. QED BY <1>1, <1>2, <1>3, PTL DEF DaemonSpec

-----------------------------------------------------------------------------
(* The PID file.                                                           *)

\* There is no PID file without its name, as long as main() has not ended.
PidFileInv ==
  /\ pidfile \in BOOLEAN
  /\ phase # "stopped" /\ pidfile => settings.PIDFile # NULL
  /\ PidFileRemoved

\* The end of main() removes it, or has lost the way to it.
LEMMA ExitUnlinks ==
  ASSUME PidFileInv, phase \notin Ended, NEW ret, ExitWith(ret) PROVE PidFileInv'
<1>1. phase' = "stopped" /\ UNCHANGED <<settings, cred>> /\ UnlinkPidFile
  BY DEF ExitWith
<1>2. CASE settings.PIDFile = NULL
  BY <1>1, <1>2 DEF UnlinkPidFile, PidFileInv, PidFileRemoved, Ended
<1>3. CASE settings.PIDFile # NULL
  BY <1>1, <1>3 DEF UnlinkPidFile, PidFileInv, PidFileRemoved
<1>4. QED BY <1>2, <1>3

\* A setting that creates the file also names it.
LEMMA SettingNames ==
  ASSUME IsSettings(settings), PidFileInv, phase # "stopped", phase' # "stopped",
         NEW key, NEW value, NEW creates \in BOOLEAN,
         settings' = SetConfigParam(settings, key, value, creates).s,
         pidfile' = PidFileAfter(settings', creates)
  PROVE  PidFileInv'
<1>1. settings'.PIDFile = settings.PIDFile \/ settings'.PIDFile # NULL
  BY SetOne
<1>2. pidfile' \in BOOLEAN
  BY DEF PidFileAfter
<1>3. pidfile' => pidfile \/ settings'.PIDFile # settings.PIDFile
  BY DEF PidFileAfter
<1>4. pidfile' => settings'.PIDFile # NULL
  BY <1>1, <1>3 DEF PidFileInv
<1>5. QED BY <1>2, <1>4 DEF PidFileInv, PidFileRemoved

\* A daemon that stops by itself, from wherever in its start or its loop, leaves
\* no PID file behind that it still can reach.
THEOREM RemovesPidFile == DaemonSpec => []PidFileRemoved
<1>1. DaemonInit => PidFileInv
  BY DEF DaemonInit, StartupInit, PidFileInv, PidFileRemoved
<1>2. IsSettings(settings) /\ PidFileInv /\ [DaemonNext]_dvars => PidFileInv'
  <2> SUFFICES ASSUME IsSettings(settings), PidFileInv, [DaemonNext]_dvars PROVE PidFileInv'
    OBVIOUS
  <2>1. CASE UNCHANGED <<phase, settings, cred, pidfile>>
    BY <2>1 DEF PidFileInv, PidFileRemoved
  <2>2. CASE phase # "stopped" /\ phase' # "stopped" /\ UNCHANGED <<settings, pidfile>>
    BY <2>2 DEF PidFileInv, PidFileRemoved
  <2>3. CASE LoopMoves
    <3>1. Kept(settings).PIDFile = settings.PIDFile
      BY DEF Kept, IsSettings, Keys
    <3>2. QED BY <2>3, <3>1 DEF LoopMoves, PidFileInv, PidFileRemoved
  <2>4. CASE LoadConfigFile \/ ApplyOptions
    <3>1. ASSUME NEW key, NEW value, NEW creates \in Creatable,
                 settings' = SetConfigParam(settings, key, value, creates).s,
                 pidfile' = PidFileAfter(settings', creates),
                 phase \in {"config", "overrides"}, phase' # "stopped"
          PROVE  PidFileInv'
      <4>1. creates \in BOOLEAN
        BY <3>1 DEF Creatable
      <4>2. QED BY <3>1, <4>1, SettingNames
    <3>2. CASE LoadConfigFile
      BY <2>2, <3>1, <3>2 DEF LoadConfigFile, Stays, Goes, Dies
    <3>3. CASE ApplyOptions
      BY <2>2, <3>1, <3>3, ExitUnlinks DEF ApplyOptions, Apply, Stays, Goes, Ended
    <3>4. QED BY <2>4, <3>2, <3>3
  <2>5. CASE DropPrivileges
    BY <2>2, <2>5, ExitUnlinks DEF DropPrivileges, Goes, Stays, Ended
  <2>6. CASE LookUpUser \/ ChangeRoot
    BY <2>2, <2>6, ExitUnlinks DEF LookUpUser, ChangeRoot, Goes, Ended
  <2>7. CASE StartupStep
    BY <2>2, <2>4, <2>5, <2>6, <2>7, ExitUnlinks
       DEF StartupStep, ParseOptions, OpenSocket, StartDbus, Dies, Goes, Ended
  <2>8. QED BY <2>1, <2>3, <2>7, ExitUnlinks, StartupMove
<1>3. PidFileInv => PidFileRemoved
  BY DEF PidFileInv
<1>4. QED BY <1>1, <1>2, <1>3, SettingsKept, PTL DEF DaemonSpec
=============================================================================
