------------------------------- MODULE Config -------------------------------
(***************************************************************************)
(* The configuration of a node (config/config.go, config/cli.go): what one *)
(* field is, given what the file, the environment, the inline JSON and the *)
(* flags say of it.  Fields do not influence each other.                   *)
(***************************************************************************)
EXTENDS Integers, Sequences

CONSTANTS
  Absent,   \* the source does not mention the field; a flag or a variable of
            \* the environment that is empty is none
  Broken,   \* the file or the inline JSON cannot be read or parsed
  MaxInt64  \* the largest int64, which an int is too

Strings == {"server.listen_addr", "peer.id", "peer.name", "peer.role", "peer.key",
  "peer.secret", "tenant", "mq.provider", "mqtt.broker_url", "mqtt.client_id",
  "mqtt.username", "mqtt.password", "tls.ca_cert_file", "tls.client_cert_file",
  "tls.client_key_file", "logging.level", "logging.format", "http.target_url",
  "coap.target_url"}
AuthStrings == {"auth.key", "auth.secret", "auth.verify_topic_suffix"}
Ints == {"sync.default_timeout_ms", "discovery.heartbeat_interval_sec",
  "discovery.lease_ttl_sec", "discovery.default_page_size",
  "discovery.max_page_size", "broadcast.interval_sec", "broadcast.ttl_sec"}
Bools == {"tls.enabled", "tls.insecure_skip_verify", "topic_alias.enabled",
  "http.enabled", "coap.enabled"}
Lists == {"bridges.mqtt_mappings", "acl.rules"}
Fields == Strings \cup AuthStrings \cup Ints \cup Bools \cup Lists

EnvFields == (Strings \ {"peer.key", "peer.secret", "http.target_url", "coap.target_url"})
  \cup {"sync.default_timeout_ms", "discovery.lease_ttl_sec"}
  \cup {"tls.enabled", "tls.insecure_skip_verify", "topic_alias.enabled"}
CliFields == {"peer.role", "peer.id", "peer.name", "tenant", "server.listen_addr",
  "mqtt.broker_url", "logging.level", "logging.format"}

Zero(f) == CASE f \in Ints -> 0 [] f \in Bools -> FALSE [] OTHER -> ""

(* defaultConfig; strings and lists that are not empty are "default". *)
defaultConfig(f) ==
  CASE f = "sync.default_timeout_ms" -> 3000
    [] f \in {"discovery.heartbeat_interval_sec", "broadcast.interval_sec"} -> 10
    [] f \in {"discovery.lease_ttl_sec", "broadcast.ttl_sec"} -> 30
    [] f = "discovery.default_page_size" -> 20
    [] f = "discovery.max_page_size" -> 100
    [] f \in {"server.listen_addr", "peer.role", "mq.provider", "mqtt.broker_url",
              "mqtt.client_id", "tenant", "logging.level", "logging.format"} -> "default"
    [] OTHER -> Zero(f)

(* LoadPath and its use: what the file mentions, the zero value too,       *)
(* replaces the default; a file that fails leaves the defaults.            *)
LoadPath(f, file) == IF file \in {Absent, Broken} THEN defaultConfig(f) ELSE file

(* n as int64. *)
Wrapped(n) ==
  IF n \in -(MaxInt64 + 1) .. MaxInt64 THEN n
  ELSE ((n + MaxInt64 + 1) % (2 * (MaxInt64 + 1))) - (MaxInt64 + 1)

(* The number of a text, which is a sequence of characters: a digit is its *)
(* number, and what is above 9 is no digit.                                *)
parseInt64(s) ==
  LET upTo[i \in 0 .. Len(s)] ==
        IF i = 0 THEN 0 ELSE Wrapped(upTo[i - 1] * 10 + s[i])
  IN IF \E i \in DOMAIN s : s[i] > 9 THEN 0 ELSE upTo[Len(s)]

(* What is made of a variable of the environment; a switch is on if the    *)
(* variable is "1" or "true", which is "true" here.                        *)
FromEnv(f, v) ==
  CASE f \in Ints -> parseInt64(v) [] f \in Bools -> v = "true" [] OTHER -> v

(* Whether a value of the inline JSON, the environment or a flag counts. *)
Counts(f, v) == IF f \in Ints THEN v > 0 ELSE v # Zero(f)

(* A bug: a number of the inline JSON replaces the others even if it is 0, *)
(* as one that is absent is.                                               *)
mergeIntoZero(f, base, v) ==
  CASE f \in AuthStrings -> base
    [] f \in Ints -> IF v = Absent THEN 0 ELSE v
    [] OTHER -> IF v # Absent /\ Counts(f, v) THEN v ELSE base

(* applyEnvOverrides, mergeInto and applyCliOverrides, for one field. *)
applyEnvOverrides(f, base, v) ==
  IF f \in EnvFields /\ v # Absent /\ Counts(f, FromEnv(f, v)) THEN FromEnv(f, v) ELSE base
mergeInto(f, base, v) ==
  IF f \notin AuthStrings /\ v # Absent /\ Counts(f, v) THEN v ELSE base
applyCliOverrides(f, base, v) ==
  IF f \in CliFields /\ v # Absent /\ Counts(f, v) THEN v ELSE base

LoadWithArgs(f, in) ==
  IF in.json = Broken THEN Broken
  ELSE LET fromFile == LoadPath(f, in.file)
           fromEnv == applyEnvOverrides(f, fromFile, in.env)
           fromJson == mergeInto(f, fromEnv, in.json)
       IN applyCliOverrides(f, fromJson, in.cli)

(* What main and the services make of numbers that must be positive. *)
Effective(f, v) ==
  CASE f = "broadcast.interval_sec" /\ v <= 0 -> 10
    [] f = "broadcast.ttl_sec" /\ v <= 0 -> 30
    [] f = "discovery.max_page_size" /\ v <= 0 -> 100
    [] OTHER -> v
=============================================================================
