------------------------------ MODULE MCResolve ------------------------------
(* Instances of Resolve for TLC. *)
EXTENDS Resolve

CONSTANTS p, q, r   \* profile names

Absent == [present |-> FALSE, role |-> FALSE, source |-> NoProfile,
           credSource |-> "", keys |-> "none", process |-> FALSE, mfa |-> FALSE,
           duration |-> ""]
Empty == [Absent EXCEPT !.present = TRUE]
Keys == [Empty EXCEPT !.keys = "full"]
HalfKeys == [Empty EXCEPT !.keys = "half"]
Process == [Empty EXCEPT !.process = TRUE]
Role(src) == [Empty EXCEPT !.role = TRUE, !.source = src]
RoleWith(cs) == [Role(NoProfile) EXCEPT !.credSource = cs]
Mfa(s) == [s EXCEPT !.mfa = TRUE]

CredSources == {"Environment", "Ec2InstanceMetadata", "EcsContainer", "Bogus"}

NoEnv == [keys |-> "none", irsa |-> FALSE, ecs |-> FALSE, imds |-> TRUE]

\* Both files, from what each may hold for each profile.
Shared(cred, conf) ==
  {[cred |-> a, conf |-> b] : a \in {f \in [Profiles -> UNION {cred[x] : x \in Profiles}] :
                                       \A x \in Profiles : f[x] \in cred[x]},
                              b \in {f \in [Profiles -> UNION {conf[x] : x \in Profiles}] :
                                       \A x \in Profiles : f[x] \in conf[x]}}

\* Profiles that stand behind, or compete with, the other sources.
OrderFiles ==
  Shared([x \in Profiles |-> IF x = r THEN {Absent} ELSE {Absent, Keys, HalfKeys}],
         [x \in Profiles |-> IF x = r THEN {Absent}
            ELSE {Absent, Process, Role(q)} \cup {RoleWith(c) : c \in CredSources}])
OrderWorlds == [files : OrderFiles, env : Env]

\* Chains of up to three profiles, with cycles, dead ends, contradictions, and
\* roles of which each file holds a part.
ChainFiles ==
  Shared([x \in Profiles |-> {Absent, Keys, Mfa(Empty)}],
         [x \in Profiles |->
           {Absent, Process, Role(p), Role(q), Role(r), Role(NoProfile),
            [Role(q) EXCEPT !.credSource = "Ec2InstanceMetadata"],
            RoleWith("Ec2InstanceMetadata"), [Role(r) EXCEPT !.duration = "junk"]}])
ChainWorlds == [files : ChainFiles, env : {NoEnv}]

AllWorlds == OrderWorlds \cup ChainWorlds

\* Two roles with a token each, in front of a profile with keys.
MfaWorlds ==
  {[files |-> [cred |-> [x \in Profiles |-> IF x = r THEN Keys ELSE Absent],
               conf |-> [x \in Profiles |-> CASE x = p -> Mfa(Role(q))
                                              [] x = q -> Mfa(Role(r))
                                              [] x = r -> Absent]],
    env |-> NoEnv]}
==============================================================================
