----------------------------- MODULE Resources -----------------------------
(***************************************************************************)
(* From the environment of the process to the resource of exported         *)
(* telemetry: Config::parse names the service (src/src/env.rs), the        *)
(* detectors collect attributes from the environment once more             *)
(* (src/src/detector.rs, src/src/detector/lambda.rs), and every send       *)
(* augments the resources of its request with them.  The settings task     *)
(* asks for the settings of the configured service.                        *)
(***************************************************************************)
EXTENDS SequencesExt

CONSTANTS
    Name,      \* names of services and functions
    Token,     \* API tokens
    Region,    \* AWS regions
    Account,   \* AWS accounts
    Instance,  \* the UUID detect() makes
    Absent,    \* a variable that is not set, a field that is not there
    NoColon    \* a service key that split_once(':') does not split

(***************************************************************************)
(* The variables that are read.  Of a service key it counts what stands    *)
(* before and after its first colon.                                       *)
(***************************************************************************)
Env == [OTEL_SERVICE_NAME : Name \cup {Absent},
        SW_APM_SERVICE_KEY : [first : Name, second : Token] \cup {NoColon, Absent},
        SW_APM_API_TOKEN : Token \cup {Absent},
        AWS_LAMBDA_FUNCTION_NAME : Name \cup {Absent},
        AWS_LAMBDA_FUNCTION_VERSION : {"1", Absent},
        AWS_REGION : Region \cup {Absent},
        AWS_DEFAULT_REGION : Region \cup {Absent}]

VARIABLES
    env,         \* the environment, which nothing changes
    pc,          \* how far main is
    config,      \* Config: the service and the token, or Absent
    attributes,  \* the attributes detected, in their order
    arrived,     \* the resource of telemetry that arrived, or Absent
    exported     \* the resource that telemetry was exported with, or Absent

vars == <<env, pc, config, attributes, arrived, exported>>

KeyValue(key, value) == [key |-> key, value |-> value]

Or(a, b) == IF a = Absent THEN b ELSE a

\* split_once(':') of the service key, one part of it.
KeyPart(part) ==
    IF env.SW_APM_SERVICE_KEY \in {NoColon, Absent} THEN Absent
    ELSE env.SW_APM_SERVICE_KEY[part]

ServiceName == Or(Or(env.OTEL_SERVICE_NAME, KeyPart("first")), env.AWS_LAMBDA_FUNCTION_NAME)

ApiToken == Or(Or(env.SW_APM_API_TOKEN, KeyPart("second")), "missing")

\* Without any service name the process ends with an error.
Parse ==
    /\ pc = "parse"
    /\ IF ServiceName = Absent
       THEN pc' = "failed" /\ UNCHANGED config
       ELSE /\ pc' = "register"
            /\ config' = [service |-> ServiceName, token |-> ApiToken]
    /\ UNCHANGED <<env, attributes, arrived, exported>>

(***************************************************************************)
(* The attributes whose values do not depend on the environment.           *)
(***************************************************************************)
Fixed(keys) == [i \in DOMAIN keys |-> KeyValue(keys[i], "fixed")]

SdkAttributes == Fixed(<<"sw.data.module", "sw.apm.otelcol.version",
    "telemetry.sdk.language", "telemetry.sdk.name", "telemetry.sdk.version">>)
HostAttributes == Fixed(<<"os.type", "host.arch">>)
PlatformAttributes ==
    Fixed(<<"sw.cloud.aws.resource.type", "cloud.provider", "cloud.platform">>)

\* The attributes whose values are there, in the order they are pushed.
LambdaAttributes(account) ==
    LET name    == env.AWS_LAMBDA_FUNCTION_NAME
        region  == Or(env.AWS_REGION, env.AWS_DEFAULT_REGION)
        service == Or(env.OTEL_SERVICE_NAME, name)
        arn     == IF Absent \in {name, account, region} THEN Absent
                   ELSE <<region, account, name>>
    IN  SelectSeq(<<KeyValue("faas.name", name),
                    KeyValue("cloud.account.id", account),
                    KeyValue("cloud.region", region),
                    KeyValue("cloud.resource_id", arn),
                    KeyValue("faas.version", env.AWS_LAMBDA_FUNCTION_VERSION),
                    KeyValue("service.name", service)>>,
                  LAMBDA kv : kv.value # Absent)

\* The extension is registered; its account ID comes with the answer.
Detect ==
    /\ pc = "register"
    /\ \E account \in Account \cup {Absent} :
          attributes' =
              SdkAttributes \o HostAttributes \o PlatformAttributes
                \o LambdaAttributes(account)
    /\ pc' = "running"
    /\ UNCHANGED <<env, config, arrived, exported>>

Keys(resource) == {kv.key : kv \in ToSet(resource)}

(***************************************************************************)
(* detector::augment: the instance is the process's own, the last one of   *)
(* several being replaced; other attributes are added, not changed.        *)
(***************************************************************************)
Augment(resource) ==
    LET i == SelectLastInSeq(resource, LAMBDA kv : kv.key = "service.instance.id")
        own == KeyValue("service.instance.id", Instance)
    IN  (IF i = 0 THEN Append(resource, own) ELSE [resource EXCEPT ![i] = own])
        \o SelectSeq(attributes, LAMBDA kv : kv.key \notin Keys(resource))

(***************************************************************************)
(* Telemetry arrives: a log record of the function, to which the telemetry *)
(* handler gives an empty resource, or a request of an SDK.                *)
(***************************************************************************)
Arrive ==
    /\ pc = "running"
    /\ arrived' \in {<<>>} \cup {<<KeyValue("service.name", n)>> : n \in Name}
                           \cup {<<KeyValue("service.instance.id", Absent)>>}
    /\ exported' = Absent
    /\ UNCHANGED <<env, pc, config, attributes>>

Send ==
    /\ arrived # Absent
    /\ exported = Absent
    /\ exported' = Augment(arrived)
    /\ UNCHANGED <<env, pc, config, attributes, arrived>>

Init ==
    /\ env \in Env
    /\ pc = "parse"
    /\ config = Absent
    /\ attributes = <<>>
    /\ arrived = Absent
    /\ exported = Absent

Next == Parse \/ Detect \/ Arrive \/ Send

Spec == Init /\ [][Next]_vars
-----------------------------------------------------------------------------
(***************************************************************************)
(* README.md:11: the service name is OTEL_SERVICE_NAME, else that of       *)
(* SW_APM_SERVICE_KEY, else the name of the function.  The service whose   *)
(* settings are fetched is so the one the function's logs, and all         *)
(* telemetry that names no service, are exported under.                    *)
(***************************************************************************)
ServiceNameAgrees ==
    exported # Absent /\ "service.name" \notin Keys(arrived) =>
        KeyValue("service.name", config.service) \in ToSet(exported)
=============================================================================
