------------------------------- MODULE Startup -------------------------------
(***************************************************************************)
(* From the command line to a request's handler: parse_args, the discovery *)
(* and loading of the configuration (src/src/config.rs), the bind check    *)
(* (src/src/server.rs) and the layers in front of the API handlers         *)
(* (src/src/api/security.rs).                                              *)
(*                                                                         *)
(* The file system is not ours: is_file answers as it likes, and a file    *)
(* that was there may be gone, or changed, when it is read.  A readable    *)
(* file is abstracted to what it declares about access, or to the fact     *)
(* that it does not parse or validate (the limits it may declare are in    *)
(* Thresholds).  What a handler does is in Engine.                         *)
(***************************************************************************)
EXTENDS Naturals, Sequences

CONSTANTS
    None,
    Paths,         \* paths where a file may be
    NoSuchFile,    \* a path where none is
    Candidates,    \* the paths tried when none is named, in order
    CommandLines,  \* the command lines the program may be started with
    Secrets,       \* passwords, the empty one among them
    Hosts          \* host names

\* An argument: an option, or any other text, which may be a path.
Argument == [option: {"config", "config=", "help", "version", "other"},
             path: Paths \cup {NoSuchFile, None}]

ASSUME StartupAssumption ==
    /\ NoSuchFile \notin Paths
    /\ None \notin Paths \cup {NoSuchFile} \cup Secrets \cup Hosts
    /\ Candidates \in Seq(Paths)
    /\ "" \in Secrets
    /\ CommandLines \subseteq Seq(Argument)
    /\ \A line \in CommandLines : \A i \in DOMAIN line :
          line[i].path # None <=> line[i].option \in {"config=", "other"}

\* A Host header or an entry of trusted_hosts, with or without a port.
Host == [name: Hosts, port: BOOLEAN]

Bind == {"loopback", "open"}

\* What a file declares; password_env names the variable that is modelled.
Declaration == [bind: Bind, password: Secrets \cup {None},
                password_env: BOOLEAN, trusted: SUBSET Host]

\* The built-in configuration; its trusted hosts stand for localhost.
Defaults == [bind |-> "loopback", password |-> None, password_env |-> FALSE,
             trusted |-> {[name |-> h, port |-> FALSE] : h \in Hosts}]

VARIABLES
    phase,     \* how far the program has got
    args,      \* the command line
    variable,  \* GLANCES_RS_CONFIG: a path, or None
    secret,    \* the variable that a password_env names: a secret, or None
    options,   \* what parse_args returned
    present,   \* history: the files is_file found
    found,     \* the path discovered; None for the built-in configuration
    declared,  \* history: what was read
    config,    \* the configuration in force
    last       \* the last request: did a handler run, with which credentials

vars == <<phase, args, variable, secret, options, present, found, declared,
          config, last>>

inputs == <<args, variable, secret>>

NoOptions == [config |-> None, info |-> FALSE, wanted |-> FALSE, bad |-> FALSE]

NoRequest == [handled |-> FALSE, credentials |-> None]

Init ==
    /\ phase = "args"
    /\ args \in CommandLines
    /\ variable \in Paths \cup {None}
    /\ secret \in Secrets \cup {None}
    /\ options = NoOptions
    /\ present = {}
    /\ found = None
    /\ declared = Defaults
    /\ config = Defaults
    /\ last = NoRequest

-----------------------------------------------------------------------------
(* parse_args *)

\* What an argument is when it is taken for a path.
Text(a) == IF a.option = "other" THEN a.path ELSE NoSuchFile

\* --config takes the next argument for its path, whatever it is.
ParseArg(out, a) ==
    IF out.bad THEN out
    ELSE IF out.wanted
    THEN [out EXCEPT !.config = Text(a), !.wanted = FALSE]
    ELSE CASE a.option = "config" -> [out EXCEPT !.wanted = TRUE]
           [] a.option = "config=" -> [out EXCEPT !.config = a.path]
           [] a.option \in {"help", "version"} -> [out EXCEPT !.info = TRUE]
           [] OTHER -> [out EXCEPT !.bad = TRUE]

\* The loop: what the first n arguments give.
Parsed[n \in 0..Len(args)] ==
    IF n = 0 THEN NoOptions ELSE ParseArg(Parsed[n - 1], args[n])

ParseArgs ==
    LET out == Parsed[Len(args)] IN
    /\ phase = "args"
    /\ options' = out
    /\ phase' = IF out.bad \/ out.wanted THEN "failed"
                ELSE IF out.info THEN "ended" ELSE "discover"
    /\ UNCHANGED <<inputs, present, found, declared, config, last>>

-----------------------------------------------------------------------------
(* Config::load *)

\* The first candidate with a file, or None.
FirstOf(files) ==
    IF \E i \in DOMAIN Candidates : Candidates[i] \in files
    THEN Candidates[CHOOSE i \in DOMAIN Candidates :
                       /\ Candidates[i] \in files
                       /\ \A j \in 1..i - 1 : Candidates[j] \notin files]
    ELSE None

\* Mutant of DiscoverPath: a variable that names no file is ignored.
DiscoverPathFallsBack(files) ==
    IF options.config # None
    THEN IF options.config \in files THEN options.config ELSE NoSuchFile
    ELSE IF variable \in files THEN variable ELSE FirstOf(files)

\* A path that was named must be a file (else NoSuchFile, an error).
DiscoverPath(files) ==
    LET explicit(p) == IF p \in files THEN p ELSE NoSuchFile IN
    IF options.config # None THEN explicit(options.config)
    ELSE IF variable # None THEN explicit(variable)
    ELSE FirstOf(files)

Discover ==
    /\ phase = "discover"
    /\ \E files \in SUBSET Paths :
          /\ present' = files
          /\ found' = DiscoverPath(files)
    /\ phase' = IF found' = NoSuchFile THEN "failed"
                ELSE IF found' = None THEN "check" ELSE "read"
    /\ UNCHANGED <<inputs, options, declared, config, last>>

\* Mutant of PasswordRefused: a variable that is not set is no password.
PasswordRefusedIfEmpty(d) ==
    d.password_env /\ (d.password # None \/ secret = "")

\* resolve_password: both kinds of password, or a variable unset or empty.
PasswordRefused(d) ==
    d.password_env /\ (d.password # None \/ secret \in {None, ""})

Resolved(d) == IF d.password_env
               THEN [d EXCEPT !.password = secret, !.password_env = FALSE]
               ELSE d

\* The file is read, parsed, validated and its password resolved; or it is
\* gone, or wrong.
Load ==
    /\ phase = "read"
    /\ \/ \E d \in Declaration :
             /\ declared' = d
             /\ config' = IF PasswordRefused(d) THEN config ELSE Resolved(d)
             /\ phase' = IF PasswordRefused(d) THEN "failed" ELSE "check"
       \/ phase' = "failed" /\ UNCHANGED <<declared, config>>
    /\ UNCHANGED <<inputs, options, present, found, last>>

-----------------------------------------------------------------------------
(* serve *)

\* check_security refuses a non-loopback bind without a password.
Open(c) == c.bind = "open" /\ c.password = None

\* The check, then the bind, which may fail too.
Serve ==
    /\ phase = "check"
    /\ phase' \in IF Open(config) THEN {"failed"} ELSE {"failed", "serving"}
    /\ UNCHANGED <<inputs, options, present, found, declared, config, last>>

\* A missing Host is let through, and so is any if no list is configured.
HostAllowed(host) ==
    \/ host = None
    \/ config.trusted = {}
    \/ host \in config.trusted
    \/ [host EXCEPT !.port = FALSE] \in config.trusted

\* require_auth; credentials that do not decode are None.
Authorized(credentials) ==
    config.password = None \/ credentials = config.password

\* A request; the CORS layer answers a preflight, the probes are outside the
\* layers, and a refused request reaches no handler.
Answer ==
    /\ phase = "serving"
    /\ \E route \in {"probe", "api"}, preflight \in BOOLEAN,
          host \in Host \cup {None}, credentials \in Secrets \cup {None} :
          last' = [handled |-> /\ route = "api"
                               /\ ~preflight
                               /\ HostAllowed(host)
                               /\ Authorized(credentials),
                   credentials |-> credentials]
    /\ UNCHANGED <<phase, inputs, options, present, found, declared, config>>

\* SIGINT or SIGTERM.
Shutdown ==
    /\ phase = "serving"
    /\ phase' = "ended"
    /\ UNCHANGED <<inputs, options, present, found, declared, config, last>>

Next == ParseArgs \/ Discover \/ Load \/ Serve \/ Answer \/ Shutdown

Spec == Init /\ [][Next]_vars

-----------------------------------------------------------------------------
(* Properties *)

(***************************************************************************)
(* Closed by default, end to end (ARCHITECTURE.md 7.1, 7.2): the comments  *)
(* of require_auth and of check_security rely on each other.  A request    *)
(* that reaches a handler has presented the secret its operator declared,  *)
(* in the file or by the variable's name, if there is one; and there is    *)
(* one unless the server is on a loopback address.                         *)
(***************************************************************************)
DeclaredSecret == IF declared.password_env THEN secret ELSE declared.password

HandledIsAuthorized ==
    last.handled =>
        /\ DeclaredSecret # None => last.credentials = DeclaredSecret
        /\ declared.bind = "open" => DeclaredSecret # None
        /\ declared.password_env => DeclaredSecret \notin {None, ""}

(***************************************************************************)
(* The frozen order (docs/api.md section 7): the server runs with the file *)
(* that the last path of the command line names, else with the one that    *)
(* the variable names, else with the first candidate found, else with the  *)
(* built-in configuration; and never with another one than a named one,    *)
(* even if that vanishes while the program starts.                         *)
(***************************************************************************)
PathsGiven == {i \in DOMAIN args : args[i].path # None}

LastGiven == CHOOSE i \in PathsGiven : \A j \in PathsGiven : j <= i

ConfigAsNamed ==
    phase = "serving" =>
        LET named == IF PathsGiven # {} THEN args[LastGiven].path ELSE variable
        IN  /\ found = IF named # None THEN named ELSE FirstOf(present)
            /\ found # None => found \in present
            /\ found = None => config = Defaults
=============================================================================
