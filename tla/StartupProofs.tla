---------------------------- MODULE StartupProofs ----------------------------
(***************************************************************************)
(* Theorems about Startup, for any paths, command lines, secrets, hosts    *)
(* and anything the file system may answer: closed by default, and the     *)
(* configuration in force is the one that was named.                       *)
(***************************************************************************)
EXTENDS Startup, TLAPS, WellFoundedInduction

(***************************************************************************)
(* The inductive invariant.  Each half of "closed by default" is checked   *)
(* at its own time: the bind at startup, the credentials at each request.  *)
(* They meet in the configuration in force, which is what was declared     *)
(* with its password resolved, and in the fact that no request is handled  *)
(* before the check.                                                       *)
(***************************************************************************)
WellDeclared == declared \in Declaration

NothingReadYet ==
    phase \in {"args", "discover", "read"} =>
        declared = Defaults /\ config = Defaults

DeclaredInForce ==
    phase \in {"check", "serving"} =>
        config = Resolved(declared) /\ ~PasswordRefused(declared)

NoneServedEarly == phase \notin {"serving", "ended"} => ~last.handled

IInv ==
    /\ WellDeclared
    /\ NothingReadYet
    /\ DeclaredInForce
    /\ NoneServedEarly
    /\ phase = "serving" => ~Open(config)
    /\ HandledIsAuthorized

\* The built-in configuration is one that a file could declare.
LEMMA DefaultsDeclared == Defaults \in Declaration
<1> DEFINE hosts == {[name |-> h, port |-> FALSE] : h \in Hosts}
<1>1. hosts \subseteq Host
  <2>1. \A h \in Hosts : [name |-> h, port |-> FALSE] \in Host
    BY DEF Host
  <2>2. QED
    BY <2>1
<1> HIDE DEF hosts
<1>2. Defaults = [bind |-> "loopback", password |-> None,
                  password_env |-> FALSE, trusted |-> hosts]
  BY DEF Defaults, hosts
<1>3. QED
  BY <1>1, <1>2 DEF Declaration, Bind

LEMMA InitIInv == Init => IInv
BY DefaultsDeclared DEF Init, WellDeclared, IInv, NothingReadYet,
   DeclaredInForce, NoneServedEarly, HandledIsAuthorized, NoRequest

\* The built-in configuration names no variable.
LEMMA DefaultsResolved ==
    /\ Resolved(Defaults) = Defaults
    /\ ~PasswordRefused(Defaults)
BY DEF Resolved, PasswordRefused, Defaults

\* A request that is handled has shown the secret that was declared.
LEMMA AnswerStep ==
    ASSUME IInv, Answer
    PROVE  HandledIsAuthorized'
<1> SUFFICES ASSUME last'.handled
             PROVE  /\ DeclaredSecret # None => last'.credentials = DeclaredSecret
                    /\ declared.bind = "open" => DeclaredSecret # None
                    /\ declared.password_env => DeclaredSecret \notin {None, ""}
  BY DEF Answer, inputs, HandledIsAuthorized, DeclaredSecret
<1>1. config = Resolved(declared) /\ ~PasswordRefused(declared) /\ ~Open(config)
  BY DEF Answer, IInv, DeclaredInForce
<1>2. Authorized(last'.credentials)
  BY DEF Answer
<1>3. CASE declared.password_env
  <2>1. secret \notin {None, ""}
    BY <1>1, <1>3 DEF PasswordRefused
  <2>2. config = [declared EXCEPT !.password = secret, !.password_env = FALSE]
    BY <1>1, <1>3 DEF Resolved
  <2>3. DeclaredSecret = secret
    BY <1>3 DEF DeclaredSecret
  <2>4. config.password = secret
    BY <2>2 DEF IInv, WellDeclared, Declaration
  <2>5. QED
    BY <1>2, <2>1, <2>3, <2>4 DEF Authorized
<1>4. CASE ~declared.password_env
  <2>1. config = declared
    BY <1>1, <1>4 DEF Resolved
  <2>2. DeclaredSecret = declared.password
    BY <1>4 DEF DeclaredSecret
  <2>3. QED
    BY <1>1, <1>2, <1>4, <2>1, <2>2 DEF Authorized, Open
<1>5. QED
  BY <1>3, <1>4

LEMMA NextIInv == IInv /\ [Next]_vars => IInv'
<1> SUFFICES ASSUME IInv, [Next]_vars PROVE IInv'
  OBVIOUS
<1> USE DEF IInv
<1>1. CASE ParseArgs
  <2>1. UNCHANGED <<declared, config, last, secret>>
    BY <1>1 DEF ParseArgs, inputs
  <2>2. phase = "args" /\ phase' \in {"failed", "ended", "discover"}
    BY <1>1 DEF ParseArgs
  <2>3. QED
    BY <2>1, <2>2 DEF WellDeclared, NothingReadYet, DeclaredInForce,
                      NoneServedEarly, HandledIsAuthorized, DeclaredSecret
<1>2. CASE Discover
  <2>1. UNCHANGED <<declared, config, last, secret>>
    BY <1>2 DEF Discover, inputs
  <2>2. phase = "discover" /\ phase' \in {"failed", "check", "read"}
    BY <1>2 DEF Discover
  <2>3. declared = Defaults /\ config = Defaults /\ ~last.handled
    BY <2>2 DEF NothingReadYet, NoneServedEarly
  <2>4. config' = Resolved(declared') /\ ~PasswordRefused(declared')
    BY <2>1, <2>3, DefaultsResolved
  <2>5. DeclaredInForce'
    BY <2>1, <2>3, DefaultsResolved DEF DeclaredInForce, PasswordRefused, Resolved
  <2>6. QED
    BY <2>1, <2>2, <2>3, <2>5 DEF WellDeclared, NothingReadYet,
                                  NoneServedEarly, HandledIsAuthorized
<1>3. CASE Load
  <2>1. UNCHANGED <<last, secret>> /\ phase = "read"
    BY <1>3 DEF Load, inputs
  <2>2. ~last.handled
    BY <2>1 DEF NoneServedEarly
  <2>3. CASE phase' = "failed" /\ UNCHANGED <<declared, config>>
    BY <2>1, <2>2, <2>3 DEF WellDeclared, NothingReadYet, DeclaredInForce,
                            NoneServedEarly, HandledIsAuthorized
  <2>4. ASSUME NEW d \in Declaration,
               declared' = d,
               config' = IF PasswordRefused(d) THEN config ELSE Resolved(d),
               phase' = IF PasswordRefused(d) THEN "failed" ELSE "check"
        PROVE  IInv'
    <3>1. phase' = "check" => config' = Resolved(d) /\ ~PasswordRefused(d)
      BY <2>4
    <3>2. phase' \in {"failed", "check"}
      BY <2>4
    <3>3. DeclaredInForce'
      BY <2>1, <2>4, <3>1, <3>2 DEF DeclaredInForce, Resolved, PasswordRefused
    <3>4. QED
      BY <2>1, <2>2, <2>4, <3>2, <3>3
      DEF WellDeclared, NothingReadYet, NoneServedEarly, HandledIsAuthorized
  <2>5. QED
    BY <1>3, <2>3, <2>4 DEF Load
<1>4. CASE Serve
  <2>1. UNCHANGED <<declared, config, last, secret>>
    BY <1>4 DEF Serve, inputs
  <2>2. /\ phase = "check"
        /\ phase' \in {"failed", "serving"}
        /\ phase' = "serving" => ~Open(config)
    BY <1>4 DEF Serve
  <2>3. QED
    BY <2>1, <2>2 DEF WellDeclared, NothingReadYet, DeclaredInForce, Open,
                      NoneServedEarly, HandledIsAuthorized, Resolved,
                      PasswordRefused
<1>5. CASE Answer
  <2>1. UNCHANGED <<phase, declared, config, secret>> /\ phase = "serving"
    BY <1>5 DEF Answer, inputs
  <2>2. HandledIsAuthorized'
    BY <1>5, AnswerStep
  <2>3. QED
    BY <2>1, <2>2 DEF WellDeclared, NothingReadYet, DeclaredInForce, Open,
                      NoneServedEarly, Resolved, PasswordRefused
<1>6. CASE Shutdown
  <2>1. UNCHANGED <<declared, config, last, secret>> /\ phase' = "ended"
    BY <1>6 DEF Shutdown, inputs
  <2>2. QED
    BY <2>1 DEF WellDeclared, NothingReadYet, DeclaredInForce,
                NoneServedEarly, HandledIsAuthorized, DeclaredSecret
<1>7. CASE UNCHANGED vars
  BY <1>7 DEF vars, WellDeclared, NothingReadYet, DeclaredInForce, Open,
              NoneServedEarly, HandledIsAuthorized, DeclaredSecret, Resolved,
              PasswordRefused
<1>8. QED
  BY <1>1, <1>2, <1>3, <1>4, <1>5, <1>6, <1>7 DEF Next

(***************************************************************************)
(* Closed by default, as a guarantee: no request is ever handled without   *)
(* the declared secret, nor on an open address where none is declared.     *)
(***************************************************************************)
THEOREM ClosedByDefault == Spec => []HandledIsAuthorized
<1>1. IInv => HandledIsAuthorized
  BY DEF IInv
<1>2. QED
  BY <1>1, InitIInv, NextIInv, PTL DEF Spec
-----------------------------------------------------------------------------
(* The configuration that was named *)

\* A set of naturals that is not empty has a least element: what stands for
\* induction here, on the least number for which a claim fails.
LEMMA LeastElement ==
    ASSUME NEW T, T \subseteq Nat, T # {}
    PROVE  \E x \in T : \A y \in T : x <= y
<1> DEFINE R == {ss \in Nat \X Nat : ss[1] < ss[2]}
<1>1. IsWellFoundedOn(R, Nat)
  BY NatLessThanWellFounded, Zenon DEF OpToRel
<1> HIDE DEF R
<1>2. \E x \in T : \A y \in T : ~ (<<y, x>> \in R)
  BY <1>1, WFMin
<1>3. \A x, y \in Nat : ~ (<<y, x>> \in R) => x <= y
  BY DEF R
<1>4. QED
  BY <1>2, <1>3

\* The loop over the arguments is well defined.
LEMMA ParsedLoop ==
    ASSUME args \in Seq(Argument)
    PROVE  \A n \in 0..Len(args) :
               Parsed[n] = IF n = 0 THEN NoOptions
                           ELSE ParseArg(Parsed[n - 1], args[n])
<1> DEFINE
      Step(f, n) == IF n = 0 THEN NoOptions ELSE ParseArg(f[n - 1], args[n])
      Has(m) == \E f : f = [n \in 0..m |-> Step(f, n)]
      Fails == {m \in 0..Len(args) : ~Has(m)}
<1>1. Fails = {}
  <2> SUFFICES ASSUME Fails # {} PROVE FALSE
    OBVIOUS
  <2>1. PICK m \in Fails : \A k \in Fails : m <= k
    <3> HIDE DEF Has
    <3>1. Fails \subseteq Nat
      OBVIOUS
    <3> HIDE DEF Fails
    <3>2. QED
      BY <3>1, LeastElement
  <2>2. m \in 0..Len(args) /\ ~Has(m)
    OBVIOUS
  <2>3. Len(args) \in Nat
    OBVIOUS
  <2>4. m # 0
    <3> SUFFICES ASSUME m = 0 PROVE FALSE
      OBVIOUS
    <3> DEFINE f == [n \in 0..0 |-> NoOptions]
    <3>1. f = [n \in 0..m |-> Step(f, n)]
      OBVIOUS
    <3> HIDE DEF f
    <3>2. QED
      BY <2>2, <3>1
  <2>5. Has(m - 1)
    <3>1. m - 1 \in 0..Len(args) /\ ~(m <= m - 1)
      BY <2>2, <2>3, <2>4
    <3> HIDE DEF Has
    <3>2. QED
      BY <2>1, <3>1
  <2>6. PICK f : f = [n \in 0..m - 1 |-> Step(f, n)]
    BY <2>5
  <2> DEFINE g == [n \in 0..m |-> IF n = m THEN ParseArg(f[m - 1], args[m])
                                  ELSE f[n]]
  <2>7. ASSUME NEW n \in 0..m PROVE g[n] = Step(g, n)
    <3>1. CASE n = m
      <4>1. g[n - 1] = f[m - 1]
        BY <2>2, <2>3, <2>4, <3>1
      <4>2. QED
        BY <2>4, <3>1, <4>1
    <3>2. CASE n # m
      <4>1. g[n] = f[n] /\ f[n] = Step(f, n)
        BY <2>2, <2>3, <2>6, <3>2
      <4>2. n # 0 => g[n - 1] = f[n - 1]
        BY <2>2, <2>3, <3>2
      <4>3. QED
        BY <4>1, <4>2
    <3>3. QED
      BY <3>1, <3>2
  <2>8. g = [n \in 0..m |-> Step(g, n)]
    <3>1. g = [n \in 0..m |-> g[n]]
      OBVIOUS
    <3> HIDE DEF g, Step
    <3>2. QED
      BY <2>7, <3>1
  <2> HIDE DEF g
  <2>9. QED
    BY <2>2, <2>8
<1>2. Has(Len(args))
  <2>1. Len(args) \in 0..Len(args)
    OBVIOUS
  <2> HIDE DEF Has
  <2>2. QED
    BY <1>1, <2>1
<1>3. Parsed = [n \in 0..Len(args) |-> Step(Parsed, n)]
  BY <1>2 DEF Parsed
<1> HIDE DEF Parsed
<1>4. QED
  BY <1>3

OptionsType == [config: Paths \cup {NoSuchFile, None},
                info: BOOLEAN, wanted: BOOLEAN, bad: BOOLEAN]

\* What one argument does to the path told so far.
LEMMA ParseArgTold ==
    ASSUME NEW out \in OptionsType, NEW a \in Argument,
           a.path # None <=> a.option \in {"config=", "other"}
    PROVE  /\ ParseArg(out, a) \in OptionsType
           /\ ~ParseArg(out, a).bad =>
                 /\ ~out.bad
                 /\ \/ ParseArg(out, a).config \in {NoSuchFile, a.path} \ {None}
                    \/ ParseArg(out, a).config = out.config /\ a.path = None
<1> DEFINE new == ParseArg(out, a)
<1>1. None # NoSuchFile /\ a.path \in Paths \cup {NoSuchFile, None}
  BY StartupAssumption DEF Argument
<1>2. a.option \in {"config", "config=", "help", "version", "other"}
  BY DEF Argument
<1>3. CASE out.bad
  BY <1>3 DEF ParseArg
<1>4. CASE ~out.bad /\ out.wanted
  <2>1. new = [out EXCEPT !.config = Text(a), !.wanted = FALSE]
    BY <1>4 DEF ParseArg
  <2>2. Text(a) \in {NoSuchFile, a.path} \ {None}
    BY <1>1 DEF Text
  <2>3. Text(a) \in Paths \cup {NoSuchFile, None}
    BY <1>1 DEF Text
  <2>4. new \in OptionsType /\ new.config = Text(a)
    BY <2>1, <2>3 DEF OptionsType
  <2>5. QED
    BY <1>4, <2>2, <2>4
<1>5. CASE ~out.bad /\ ~out.wanted /\ a.option = "config"
  <2>1. new = [out EXCEPT !.wanted = TRUE]
    BY <1>5 DEF ParseArg
  <2>2. new \in OptionsType /\ new.config = out.config
    BY <2>1 DEF OptionsType
  <2>3. QED
    BY <1>5, <2>2
<1>6. CASE ~out.bad /\ ~out.wanted /\ a.option = "config="
  <2>1. new = [out EXCEPT !.config = a.path]
    BY <1>6 DEF ParseArg
  <2>2. new \in OptionsType /\ new.config = a.path
    BY <1>1, <2>1 DEF OptionsType
  <2>3. QED
    BY <1>6, <2>2
<1>7. CASE ~out.bad /\ ~out.wanted /\ a.option \in {"help", "version"}
  <2>1. new = [out EXCEPT !.info = TRUE]
    BY <1>7 DEF ParseArg
  <2>2. new \in OptionsType /\ new.config = out.config
    BY <2>1 DEF OptionsType
  <2>3. QED
    BY <1>7, <2>2
<1>8. CASE ~out.bad /\ ~out.wanted /\ a.option = "other"
  <2>1. new = [out EXCEPT !.bad = TRUE]
    BY <1>8 DEF ParseArg
  <2>2. new \in OptionsType /\ new.bad
    BY <2>1 DEF OptionsType
  <2>3. QED
    BY <2>2
<1>9. QED
  BY <1>2, <1>3, <1>4, <1>5, <1>6, <1>7, <1>8

\* The same as Told, of the first n arguments.
GivenBy(n) == {i \in PathsGiven : i <= n}

ToldBy(n, path) ==
    \/ path = NoSuchFile
    \/ GivenBy(n) = {} /\ path = None
    \/ \E i \in GivenBy(n) : path = args[i].path /\ \A j \in GivenBy(n) : j <= i

\* What the loop has gathered, after every number of arguments.
LEMMA ParsedTold ==
    ASSUME args \in CommandLines
    PROVE  \A n \in 0..Len(args) : /\ Parsed[n] \in OptionsType
                                   /\ ~Parsed[n].bad => ToldBy(n, Parsed[n].config)
<1> DEFINE Good(n) == /\ Parsed[n] \in OptionsType
                      /\ ~Parsed[n].bad => ToldBy(n, Parsed[n].config)
           Fails == {n \in 0..Len(args) : ~Good(n)}
<1>1. /\ args \in Seq(Argument)
      /\ Len(args) \in Nat
      /\ DOMAIN args = 1..Len(args)
      /\ \A i \in DOMAIN args :
            args[i].path # None <=> args[i].option \in {"config=", "other"}
  <2>1. args \in Seq(Argument)
    BY StartupAssumption
  <2>2. \A i \in DOMAIN args :
           args[i].path # None <=> args[i].option \in {"config=", "other"}
    BY StartupAssumption, Zenon
  <2>3. Len(args) \in Nat /\ DOMAIN args = 1..Len(args)
    BY <2>1
  <2>4. QED
    BY <2>1, <2>2, <2>3
<1> SUFFICES ASSUME Fails # {} PROVE FALSE
  OBVIOUS
<1>2. PICK n \in Fails : \A k \in Fails : n <= k
  <2> HIDE DEF Good
  <2>1. Fails \subseteq Nat
    OBVIOUS
  <2> HIDE DEF Fails
  <2>2. QED
    BY <2>1, LeastElement
<1>3. n \in 0..Len(args) /\ ~Good(n)
  OBVIOUS
<1>4. Parsed[n] = IF n = 0 THEN NoOptions ELSE ParseArg(Parsed[n - 1], args[n])
  BY <1>1, <1>3, ParsedLoop
<1>5. n # 0
  <2> SUFFICES ASSUME n = 0 PROVE FALSE
    OBVIOUS
  <2>1. Parsed[n] = NoOptions
    BY <1>4
  <2>2. GivenBy(n) = {}
    BY <1>1 DEF GivenBy, PathsGiven
  <2>3. ToldBy(n, None)
    BY <2>2 DEF ToldBy
  <2>4. NoOptions \in OptionsType /\ NoOptions.config = None
    BY DEF NoOptions, OptionsType
  <2>5. QED
    BY <1>3, <2>1, <2>3, <2>4
<1>6. Good(n - 1)
  <2>1. n - 1 \in 0..Len(args) /\ ~(n <= n - 1)
    BY <1>1, <1>3, <1>5
  <2> HIDE DEF Good
  <2>2. QED
    BY <1>2, <2>1
<1> DEFINE out == Parsed[n - 1]
           a == args[n]
<1>7. /\ n \in DOMAIN args
      /\ a \in Argument
      /\ a.path # None <=> a.option \in {"config=", "other"}
  BY <1>1, <1>3, <1>5
<1>8. /\ Parsed[n] \in OptionsType
      /\ ~Parsed[n].bad =>
            /\ ~out.bad
            /\ \/ Parsed[n].config \in {NoSuchFile, a.path} \ {None}
               \/ Parsed[n].config = out.config /\ a.path = None
  <2>1. Parsed[n] = ParseArg(out, a)
    BY <1>4, <1>5
  <2> HIDE DEF out, a
  <2>2. out \in OptionsType
    BY <1>6 DEF out
  <2>3. QED
    BY <1>7, <2>1, <2>2, ParseArgTold
<1>9. ASSUME ~Parsed[n].bad PROVE ToldBy(n, Parsed[n].config)
  <2> DEFINE path == Parsed[n].config
  <2>1. CASE path = NoSuchFile
    BY <2>1 DEF ToldBy
  <2>2. CASE path = a.path /\ a.path # None
    <3>1. n \in GivenBy(n) /\ \A j \in GivenBy(n) : j <= n
      BY <1>1, <1>3, <1>7, <2>2 DEF GivenBy, PathsGiven
    <3>2. QED
      BY <2>2, <3>1 DEF ToldBy
  <2>3. CASE path = out.config /\ a.path = None
    <3>1. ToldBy(n - 1, out.config)
      BY <1>6, <1>8, <1>9
    <3>2. GivenBy(n) = GivenBy(n - 1)
      <4>1. n \notin PathsGiven /\ PathsGiven \subseteq Nat
        BY <1>1, <2>3 DEF PathsGiven
      <4>2. \A i \in Nat : i # n => (i <= n <=> i <= n - 1)
        BY <1>1, <1>3
      <4>3. QED
        BY <4>1, <4>2 DEF GivenBy
    <3>3. QED
      BY <2>3, <3>1, <3>2 DEF ToldBy
  <2>4. QED
    BY <1>8, <1>9, <2>1, <2>2, <2>3
<1>10. QED
  BY <1>3, <1>8, <1>9

\* The path in force is NoSuchFile, or the last one given, or none is given.
Told(path) ==
    \/ path = NoSuchFile
    \/ PathsGiven = {} /\ path = None
    \/ LastGiven \in PathsGiven /\ path = args[LastGiven].path

(***************************************************************************)
(* The inductive invariant: what has been settled when each phase begins.  *)
(* The path of the command line is settled by parse_args and the file to   *)
(* read by the discovery, from the files that were there at the time; what *)
(* happens to them afterwards can stop the program, and nothing else.      *)
(***************************************************************************)
Inputs == args \in CommandLines /\ variable \in Paths \cup {None}

LinePathTold ==
    phase \in {"discover", "read", "check", "serving"} => Told(options.config)

Discovered ==
    phase \in {"read", "check", "serving"} =>
        /\ present \subseteq Paths
        /\ found = DiscoverPath(present)
        /\ found # NoSuchFile

BuiltInOnly ==
    /\ phase \in {"args", "discover"} => config = Defaults
    /\ phase = "read" => found # None
    /\ phase \in {"check", "serving"} /\ found = None => config = Defaults

NamedInv == Inputs /\ LinePathTold /\ Discovered /\ BuiltInOnly

\* What parse_args returns, unless it refuses the command line.
LEMMA LineTold ==
    ASSUME args \in CommandLines, ~Parsed[Len(args)].bad
    PROVE  Told(Parsed[Len(args)].config)
<1> DEFINE n == Len(args)
           path == Parsed[n].config
<1>1. args \in Seq(Argument)
  BY StartupAssumption
<1>2. n \in 0..Len(args) /\ PathsGiven \subseteq 1..n
  BY <1>1 DEF PathsGiven
<1>3. GivenBy(n) = PathsGiven
  <2>1. \A i \in PathsGiven : i <= n
    BY <1>1, <1>2
  <2>2. QED
    BY <2>1, Zenon DEF GivenBy
<1>4. ToldBy(n, path)
  BY <1>2, ParsedTold
<1>5. CASE PathsGiven = {}
  BY <1>3, <1>4, <1>5 DEF ToldBy, Told
<1>6. ASSUME NEW i \in PathsGiven, path = args[i].path,
             \A j \in PathsGiven : j <= i
      PROVE  Told(path)
  <2>1. \A k \in PathsGiven : (\A j \in PathsGiven : j <= k) => k = i
    BY <1>2, <1>6
  <2>2. LastGiven = i
    BY <1>6, <2>1 DEF LastGiven
  <2>3. QED
    BY <1>6, <2>2 DEF Told
<1>7. QED
  BY <1>3, <1>4, <1>5, <1>6 DEF ToldBy, Told

\* The candidate that is chosen is one of the files found.
LEMMA FirstFound ==
    ASSUME NEW files, FirstOf(files) # None
    PROVE  FirstOf(files) \in files
<1> DEFINE S == {i \in DOMAIN Candidates : Candidates[i] \in files}
<1>1. DOMAIN Candidates = 1..Len(Candidates) /\ Len(Candidates) \in Nat
  <2>1. Candidates \in Seq(Paths)
    BY StartupAssumption
  <2>2. QED
    BY <2>1
<1>2. S # {} /\ S \subseteq Nat
  BY <1>1 DEF FirstOf
<1>3. PICK i \in S : \A j \in S : i <= j
  <2> HIDE DEF S
  <2>1. QED
    BY <1>2, LeastElement
<1>4. i \in DOMAIN Candidates /\ Candidates[i] \in files
  OBVIOUS
<1>5. \A j \in 1..i - 1 : Candidates[j] \notin files
  <2> SUFFICES ASSUME NEW j \in 1..i - 1, Candidates[j] \in files PROVE FALSE
    OBVIOUS
  <2>1. j \in DOMAIN Candidates /\ ~(i <= j)
    BY <1>1, <1>4
  <2>2. QED
    BY <1>3, <2>1
<1>6. QED
  BY <1>4, <1>5 DEF FirstOf

LEMMA InitNamedInv == Init => NamedInv
BY DEF Init, NamedInv, Inputs, LinePathTold, Discovered, BuiltInOnly

LEMMA NextNamedInv == NamedInv /\ [Next]_vars => NamedInv'
<1> SUFFICES ASSUME NamedInv, [Next]_vars PROVE NamedInv'
  OBVIOUS
<1>1. UNCHANGED <<args, variable>>
  BY DEF Next, vars, inputs, ParseArgs, Discover, Load, Serve, Answer, Shutdown
<1>2. Inputs'
  BY <1>1 DEF NamedInv, Inputs
<1>3. CASE ParseArgs
  <2>1. /\ options' = Parsed[Len(args)]
        /\ phase' \in {"failed", "ended", "discover"}
        /\ phase' = "discover" => ~Parsed[Len(args)].bad
        /\ phase = "args"
        /\ UNCHANGED config
    BY <1>3 DEF ParseArgs
  <2>2. phase' = "discover" => Told(options'.config)
    BY <2>1, LineTold DEF NamedInv, Inputs
  <2>3. LinePathTold'
    BY <1>1, <2>1, <2>2 DEF LinePathTold, Told, LastGiven, PathsGiven
  <2>4. QED
    BY <1>2, <2>1, <2>3 DEF NamedInv, Discovered, BuiltInOnly
<1>4. CASE Discover
  <2>1. /\ present' \in SUBSET Paths
        /\ found' = DiscoverPath(present')
        /\ phase = "discover"
        /\ phase' = IF found' = NoSuchFile THEN "failed"
                    ELSE IF found' = None THEN "check" ELSE "read"
        /\ UNCHANGED <<options, config>>
    BY <1>4 DEF Discover
  <2>2. LinePathTold'
    BY <1>1, <2>1 DEF NamedInv, LinePathTold, Told, LastGiven, PathsGiven
  <2>3. DiscoverPath(present)' = DiscoverPath(present')
    BY <1>1, <2>1 DEF DiscoverPath
  <2>4. Discovered'
    BY <2>1, <2>3 DEF Discovered
  <2>5. BuiltInOnly'
    BY <2>1 DEF NamedInv, BuiltInOnly
  <2>6. QED
    BY <1>2, <2>2, <2>4, <2>5 DEF NamedInv
<1>5. CASE Load
  <2>1. /\ phase = "read"
        /\ phase' \in {"failed", "check"}
        /\ UNCHANGED <<options, present, found>>
    BY <1>5 DEF Load
  <2>2. LinePathTold'
    BY <1>1, <2>1 DEF NamedInv, LinePathTold, Told, LastGiven, PathsGiven
  <2>3. Discovered'
    BY <1>1, <2>1 DEF NamedInv, Discovered, DiscoverPath
  <2>4. BuiltInOnly'
    BY <2>1 DEF NamedInv, BuiltInOnly
  <2>5. QED
    BY <1>2, <2>2, <2>3, <2>4 DEF NamedInv
<1>6. CASE Serve \/ Answer \/ Shutdown
  <2>1. /\ phase \in {"check", "serving"}
        /\ phase' \in {"failed", "serving", "ended"}
        /\ UNCHANGED <<options, present, found, config>>
    BY <1>6 DEF Serve, Answer, Shutdown
  <2>2. LinePathTold'
    BY <1>1, <2>1 DEF NamedInv, LinePathTold, Told, LastGiven, PathsGiven
  <2>3. Discovered'
    BY <1>1, <2>1 DEF NamedInv, Discovered, DiscoverPath
  <2>4. BuiltInOnly'
    BY <2>1 DEF NamedInv, BuiltInOnly
  <2>5. QED
    BY <1>2, <2>2, <2>3, <2>4 DEF NamedInv
<1>7. CASE UNCHANGED vars
  BY <1>7 DEF vars, NamedInv, Inputs, LinePathTold, Discovered, BuiltInOnly,
              Told, LastGiven, PathsGiven, DiscoverPath
<1>8. QED
  BY <1>3, <1>4, <1>5, <1>6, <1>7 DEF Next

\* The discovery gives back what was named, or fails.
LEMMA NamedIsFound ==
    ASSUME NamedInv, phase = "serving"
    PROVE  ConfigAsNamed
<1> DEFINE named == IF PathsGiven # {} THEN args[LastGiven].path ELSE variable
           path == options.config
<1>1. /\ Told(path)
      /\ present \subseteq Paths
      /\ found = DiscoverPath(present)
      /\ found # NoSuchFile
      /\ found = None => config = Defaults
  BY DEF NamedInv, LinePathTold, Discovered, BuiltInOnly
<1>2. NoSuchFile \notin present /\ None \notin present
  BY <1>1, StartupAssumption
<1>3. path # None => found = path /\ path \in present
  BY <1>1 DEF DiscoverPath
<1>4. CASE PathsGiven # {}
  <2>1. path # NoSuchFile
    BY <1>2, <1>3, StartupAssumption
  <2>2. LastGiven \in PathsGiven /\ path = args[LastGiven].path
    BY <1>1, <1>4, <2>1 DEF Told
  <2>3. path # None
    BY <2>2 DEF PathsGiven
  <2>4. QED
    BY <1>1, <1>3, <1>4, <2>2, <2>3 DEF ConfigAsNamed
<1>5. CASE PathsGiven = {}
  <2>1. path = None
    BY <1>1, <1>2, <1>3, <1>5, StartupAssumption DEF Told
  <2>2. variable # None => found = variable /\ variable \in present
    BY <1>1, <2>1 DEF DiscoverPath
  <2>3. variable = None => found = FirstOf(present)
    BY <1>1, <2>1 DEF DiscoverPath
  <2>4. found # None => found \in present
    BY <2>2, <2>3, FirstFound
  <2>5. QED
    BY <1>1, <1>5, <2>2, <2>3, <2>4 DEF ConfigAsNamed
<1>6. QED
  BY <1>4, <1>5

(***************************************************************************)
(* A configuration that was named is the one in force (docs/api.md 7): the *)
(* last path of the command line wins, then the variable, then the first   *)
(* candidate found, then what is built in; and a server that runs has read *)
(* the file that was named, or there was none to read.                     *)
(***************************************************************************)
THEOREM NamedFileIsUsed == Spec => []ConfigAsNamed
<1>1. NamedInv => ConfigAsNamed
  BY NamedIsFound DEF ConfigAsNamed
<1>2. QED
  BY <1>1, InitNamedInv, NextNamedInv, PTL DEF Spec
=============================================================================
