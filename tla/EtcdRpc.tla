------------------------------ MODULE EtcdRpc ------------------------------
(***************************************************************************)
(* The remote procedures the crate calls, grouped by the sub-client that   *)
(* calls them (src/rpc/*.rs), and the two facts about a procedure that the *)
(* rest of the client depends on: whether the interceptor puts the token   *)
(* into its request (src/intercept.rs) and whether it is sent through      *)
(* ClientCaller::do_call, which refreshes an expired token (src/caller.rs).*)
(***************************************************************************)

Service(pkg, service, methods) ==
    [pkg : {pkg}, service : {service}, method : methods]

KvRpcs == Service("etcdserverpb", "KV", {"Put", "Range", "DeleteRange", "Compact", "Txn"})

WatchRpcs == Service("etcdserverpb", "Watch", {"Watch"})

LeaseRpcs == Service("etcdserverpb", "Lease",
    {"LeaseGrant", "LeaseRevoke", "LeaseKeepAlive", "LeaseTimeToLive", "LeaseLeases"})

LockRpcs == Service("v3lockpb", "Lock", {"Lock", "Unlock"})

MaintenanceRpcs == Service("etcdserverpb", "Maintenance",
    {"Alarm", "Status", "Defragment", "Hash", "HashKV", "Snapshot", "MoveLeader"})

ClusterRpcs == Service("etcdserverpb", "Cluster",
    {"MemberAdd", "MemberRemove", "MemberUpdate", "MemberList", "MemberPromote"})

ElectionRpcs == Service("v3electionpb", "Election",
    {"Campaign", "Proclaim", "Leader", "Observe", "Resign"})

(* AuthClient calls its tonic client directly, without a ClientCaller. *)
UserRpcs == Service("etcdserverpb", "Auth",
    {"UserAdd", "UserGet", "UserList", "UserDelete", "UserChangePassword",
     "UserGrantRole", "UserRevokeRole"})

RoleRpcs == Service("etcdserverpb", "Auth",
    {"RoleAdd", "RoleGet", "RoleList", "RoleDelete",
     "RoleGrantPermission", "RoleRevokePermission"})

AuthRpcs ==
    Service("etcdserverpb", "Auth", {"AuthEnable", "AuthDisable", "Authenticate"})
        \cup UserRpcs \cup RoleRpcs

Authenticate ==
    [pkg |-> "etcdserverpb", service |-> "Auth", method |-> "Authenticate"]

MemberList ==
    [pkg |-> "etcdserverpb", service |-> "Cluster", method |-> "MemberList"]

(* The sub-clients build_client hands a ClientCallerBuilder to. *)
CallerRpcs == KvRpcs \cup WatchRpcs \cup LeaseRpcs \cup LockRpcs
                \cup MaintenanceRpcs \cup ClusterRpcs \cup ElectionRpcs

Rpcs == CallerRpcs \cup AuthRpcs

ViaCaller(m) == m \in CallerRpcs

(* Mutant: no exceptions. *)
TokenAttachedAlways(m) == m.pkg \in {"etcdserverpb", "v3electionpb", "v3lockpb"}

(* Interceptor::call: the two exceptions come first, then the packages. *)
TokenAttached(m) ==
    /\ m \notin {Authenticate, MemberList}
    /\ m.pkg \in {"etcdserverpb", "v3electionpb", "v3lockpb"}
============================================================================
