------------------------------- MODULE Settings -------------------------------
(***************************************************************************)
(* Configuration: what Load makes of the environment (internal/config/     *)
(* config.go) and what the processes that are started with it insist on    *)
(* (runServe, runWorker and attachKeeper in cmd/aiemail/main.go,           *)
(* ParsePasswordHash, NewEnvelope, store.Open, handleMTASTSPolicy).        *)
(*                                                                         *)
(* A variable's value is the class it falls into, "unset" for one that is  *)
(* not set or blank.                                                       *)
(***************************************************************************)
EXTENDS Integers

Values ==
  [env    |-> {"unset", "development", "production", "staging"},
   level  |-> {"unset", "warn", "loud"},
   db     |-> {"unset", "tls", "sslmode=disable", "sslmode=maybe", "mysql"},
   listen |-> {"unset", "10.0.0.5:8080", "0.0.0.0:8080", "portless"},
   send   |-> {"unset", "true", "false", "maybe"},
   engine |-> {"unset", "http", "hostless"},
   max    |-> {"unset", "-1", "0", "500", "many"},
   key    |-> {"unset", "16bytes", "32bytes", "unencoded"},
   hosts  |-> {"unset", "mx"},
   mode   |-> {"unset", "enforce", "strict"},
   age    |-> {"unset", "86399", "86400", "31557600", "31557601", "soon"},
   hash   |-> {"unset", "argon2id", "plain"},
   base   |-> {"unset", "https"}]

Names == DOMAIN Values

Fresh   == [n \in Names |-> "unset"]
Sending == [Fresh EXCEPT !.env = "production", !.db = "tls", !.send = "true",
                         !.engine = "http", !.max = "500", !.key = "32bytes",
                         !.hosts = "mx", !.hash = "argon2id", !.base = "https"]

-----------------------------------------------------------------------------
(* Load.                                                                   *)

EnvOr(raw, fallback) == IF raw = "unset" THEN fallback ELSE raw

(* strconv.Atoi of the values that are numbers. *)
Numbers == [n \in {"-1", "0", "500", "86399", "86400", "31557600", "31557601"} |->
  CASE n = "-1" -> -1 [] n = "0" -> 0 [] n = "500" -> 500
    [] n = "86399" -> 86399 [] n = "86400" -> 86400
    [] n = "31557600" -> 31557600 [] n = "31557601" -> 31557601]

(* envInt: the fallback also stands for a value that is no number. *)
EnvInt(raw, fallback) == IF raw \in DOMAIN Numbers THEN Numbers[raw] ELSE fallback

NoInt(raw)  == raw # "unset" /\ raw \notin DOMAIN Numbers
NoBool(raw) == raw \notin {"unset", "true", "false"}

Read(e) ==
  [env     |-> EnvOr(e.env, "development"),
   level   |-> EnvOr(e.level, "info"),
   db      |-> e.db,
   listen  |-> EnvOr(e.listen, "127.0.0.1:8080"),
   send    |-> e.send = "true",
   engine  |-> e.engine,
   max     |-> EnvInt(e.max, 0),
   key     |-> IF e.key = "32bytes" THEN 32 ELSE 0,
   hosts   |-> e.hosts # "unset",
   mode    |-> EnvOr(e.mode, "testing"),
   age     |-> EnvInt(e.age, 604800),
   hash    |-> e.hash,
   base    |-> e.base,
   secure  |-> EnvOr(e.env, "development") = "production"]

Problem(name, wrong) == IF wrong THEN {name} ELSE {}

(* What Load reports before validate. *)
Unreadable(e) ==
  Problem("max", NoInt(e.max)) \cup Problem("age", NoInt(e.age))
    \cup Problem("send", NoBool(e.send))
    \cup Problem("key", e.key \notin {"unset", "32bytes"})

(* Mutant: a ceiling of zero passes. *)
NeededToSendMutant(c) ==
  Problem("engine", c.engine # "http")
    \cup Problem("max", c.max < 0) \cup Problem("key", c.key = 0)

(* Mutant: a master key is not needed. *)
NeededToSendNoKeyMutant(c) ==
  Problem("engine", c.engine # "http") \cup Problem("max", c.max <= 0)

NeededToSend(c) ==
  Problem("engine", c.engine # "http")
    \cup Problem("max", c.max <= 0) \cup Problem("key", c.key = 0)

(* validate. *)
Validate(c) ==
  Problem("env", c.env \notin {"development", "production"})
    \cup Problem("level", c.level \notin {"debug", "info", "warn", "error"})
    \cup Problem("db", c.db \in {"unset", "mysql"})
    \cup Problem("db", c.env = "production" /\ c.db = "sslmode=disable")
    \cup Problem("listen", c.env = "production" /\ c.listen = "0.0.0.0:8080")
    \cup Problem("max", c.max < 0)
    \cup Problem("mode", c.hosts /\ c.mode \notin {"testing", "enforce", "none"})
    \cup Problem("age", c.hosts /\ (c.age < 86400 \/ c.age > 31557600))
    \cup (IF c.send THEN NeededToSend(c) ELSE {})

(* The variables Load complains about; a configuration only if none. *)
Problems(e) == Unreadable(e) \cup Validate(Read(e))

-----------------------------------------------------------------------------
(* Starting a process with a configuration, the database being reachable.  *)

(* NewEnvelope and NewEnvelopeKeeper. *)
KeeperOpens(c) == c.key = 32

(* pgxpool.ParseConfig: Load has looked at the scheme of the URL and for   *)
(* sslmode=disable, this looks at the rest.                                *)
StoreOpens(c) == c.db # "sslmode=maybe"

(* ListenAndServe: Load has seen no more than that there is an address.    *)
Listens(c) == c.listen # "portless"

ServeStarts(c) ==
  /\ StoreOpens(c)
  /\ c.key = 0 \/ KeeperOpens(c)
  /\ c.hash = "unset" \/ c.hash = "argon2id"
  /\ Listens(c)

WorkerStarts(c) == c.send /\ StoreOpens(c) /\ KeeperOpens(c)
=============================================================================
