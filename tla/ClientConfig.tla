---------------------------- MODULE ClientConfig ----------------------------
(***************************************************************************)
(* foldermcp connect: it adds itself to the JSON configuration of another  *)
(* program, which that program writes as well, by reading the file,        *)
(* writing a temporary one beside it and renaming that.                    *)
(***************************************************************************)
EXTENDS Naturals, FiniteSets

CONSTANTS
    Connects,      \* connect commands
    Projects,      \* directories they are run in
    BaseName,      \* the last element of a project's path
    Applications,  \* claude-desktop, claude-code, cursor, vscode, windsurf
    MaxSettings,   \* bound: times the application writes its settings
    MaxConnects    \* bound: connect commands run

ASSUME ClientAssumption ==
    {MaxSettings, MaxConnects} \subseteq Nat /\ BaseName \in [Projects -> STRING]

VARIABLES
    application,
    settings,    \* its configuration file: see Contents
    settingsTmp, \* the same name with .tmp
    connect,     \* connect command -> [at, no, fd, key, entry, content]
    written,     \* times the application wrote
    commands,
    (* Observers. *)
    connected,   \* key -> entry of the last connect that succeeded
    overtaken    \* a connect had another, or a write of the application's, beside it

clientVars == <<application, settings, settingsTmp, connect, written, commands,
                connected, overtaken>>

Keys == {<<"foldermcp">>} \cup {<<"foldermcp", BaseName[p]>> : p \in Projects}

\* A JSON object: the settings of the application, as the number of its last
\* write, and the entries of mcpServers.  no: the command that made the file,
\* or 0; a file keeps its number when it is renamed.
Object(no, rest, servers) == [no |-> no, is |-> "json", rest |-> rest, servers |-> servers]
NoServers == [k \in Keys |-> "none"]
Unreadable(no, is) == [no |-> no, is |-> is, rest |-> 0, servers |-> NoServers]
NotThere == Unreadable(0, "gone")
NotRunning == [at |-> "idle", no |-> 0, fd |-> 0, key |-> <<"foldermcp">>, entry |-> "none",
               content |-> NotThere]

\* A person may have left something that is no JSON.
ClientInit ==
    /\ application \in Applications
    /\ settings \in {NotThere, Unreadable(0, "typo")}
    /\ settingsTmp = NotThere
    /\ connect = [c \in Connects |-> NotRunning]
    /\ written = 0
    /\ commands = MaxConnects
    /\ connected = NoServers
    /\ overtaken = FALSE

ConnectAt(c, at) == connect' = [connect EXCEPT ![c].at = at]
ConnectEnds(c) == connect' = [connect EXCEPT ![c] = NotRunning]

\* A file that is missing is an empty object; one that is no JSON is left alone.
Connect(c, key, entry) ==
    /\ connect[c].at = "idle"
    /\ commands > 0
    /\ commands' = commands - 1
    /\ IF settings.is \in {"json", "gone"}
       THEN connect' = [connect EXCEPT ![c] =
                [at |-> "truncate", no |-> commands, fd |-> 0, key |-> key, entry |-> entry,
                 content |-> Object(0, settings.rest, [settings.servers EXCEPT ![key] = entry])]]
       ELSE UNCHANGED connect
    /\ overtaken' = (overtaken \/ \E o \in Connects : connect[o].at # "idle")
    /\ UNCHANGED <<application, settings, settingsTmp, written, connected>>

ConnectClaudeDesktop(c, p) ==
    application = "claude-desktop" /\ Connect(c, <<"foldermcp">>, p)

\* No working directory: the entry is of whatever project Claude Code is in.
ConnectClaudeCode(c) ==
    application = "claude-code" /\ Connect(c, <<"foldermcp">>, "any")

\* A key of its own for every project, or for those that are called alike.
ConnectCursor(c, p) ==
    application = "cursor" /\ Connect(c, <<"foldermcp", BaseName[p]>>, "any")

ConnectOther(c, p) ==
    application \in {"vscode", "windsurf"} /\ Connect(c, <<"foldermcp">>, p)

\* Fault: no temporary file.
WriteInPlace(c) ==
    /\ connect[c].at = "truncate"
    /\ settings' = Unreadable(connect[c].no, "cut")
    /\ connect' = [connect EXCEPT ![c].at = "write", ![c].fd = connect[c].no]
    /\ UNCHANGED <<application, settingsTmp, written, commands, connected, overtaken>>

\* os.WriteFile truncates what has the name, or makes a file ...
TruncateSettingsTmp(c) ==
    /\ connect[c].at = "truncate"
    /\ LET no == IF settingsTmp = NotThere THEN connect[c].no ELSE settingsTmp.no
       IN  /\ settingsTmp' = Unreadable(no, "cut")
           /\ connect' = [connect EXCEPT ![c].at = "write", ![c].fd = no]
    /\ UNCHANGED <<application, settings, written, commands, connected, overtaken>>

\* ... and writes to it, whatever its name is by now.
WriteSettingsTmp(c) ==
    /\ connect[c].at = "write"
    /\ LET put(f) == IF f.no = connect[c].fd THEN [connect[c].content EXCEPT !.no = f.no] ELSE f
       IN  settingsTmp' = put(settingsTmp) /\ settings' = put(settings)
    /\ ConnectAt(c, "rename")
    /\ UNCHANGED <<application, written, commands, connected, overtaken>>

\* A rename that finds no file reports an error.
RenameSettingsTmp(c) ==
    /\ connect[c].at = "rename"
    /\ IF settingsTmp = NotThere THEN UNCHANGED <<settings, settingsTmp, connected>>
       ELSE /\ settings' = settingsTmp
            /\ settingsTmp' = NotThere
            /\ connected' = [connected EXCEPT ![connect[c].key] = connect[c].entry]
    /\ ConnectEnds(c)
    /\ UNCHANGED <<application, written, commands, overtaken>>

\* Interrupted: a temporary file may stay.
ConnectKilled(c) ==
    /\ connect[c].at # "idle"
    /\ ConnectEnds(c)
    /\ UNCHANGED <<application, settings, settingsTmp, written, commands, connected, overtaken>>

\* The application saves its settings, with the servers it finds.
ApplicationWrites ==
    /\ written < MaxSettings
    /\ written' = written + 1
    /\ settings' = Object(0, written + 1, settings.servers)
    /\ overtaken' = (overtaken \/ \E c \in Connects : connect[c].at # "idle")
    /\ UNCHANGED <<application, settingsTmp, connect, commands, connected>>

ClientNext ==
    \/ \E c \in Connects :
           \/ \E p \in Projects :
                  ConnectClaudeDesktop(c, p) \/ ConnectCursor(c, p) \/ ConnectOther(c, p)
           \/ ConnectClaudeCode(c)
           \/ TruncateSettingsTmp(c) \/ WriteSettingsTmp(c) \/ RenameSettingsTmp(c)
           \/ ConnectKilled(c)
    \/ ApplicationWrites

ClientSpec == ClientInit /\ [][ClientNext]_clientVars

-----------------------------------------------------------------------------
(* Property.                                                               *)

\* Until a connect meets, between its read and its rename, another one or a write
\* of the application's, the application finds its latest settings, whole, and the
\* entry of every connect that succeeded, whichever were killed on the way and
\* whatever temporary file they left (connect.go:123-129, 378-384).
SettingsSurvive ==
    ~overtaken =>
        /\ settings.is # "cut"
        /\ settings.is # "typo" => settings.rest = written /\ settings.servers = connected
=============================================================================
