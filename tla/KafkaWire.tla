----------------------------- MODULE KafkaWire -----------------------------
(***************************************************************************)
(* One request of the client to a broker of any release: the version the   *)
(* handshake negotiated, the request its caller shapes after that version, *)
(* the version send() settles on, and the fields that reach the other end. *)
(* A field that a version leaves out is dropped by the codec without a     *)
(* word, so a caller and the codec that disagree are not an error but a    *)
(* request that says something else.                                       *)
(***************************************************************************)
EXTENDS Integers, Sequences, FiniteSets, FiniteSetsExt, TLC

CONSTANT MaxBroker    \* bound: the newest version a broker offers

VARIABLES
    req        \* the request under way

vars == <<req>>

NoRequest == [phase |-> "none"]
-----------------------------------------------------------------------------
(* The message codecs: for each struct of the protocol, which fields its   *)
(* encode and decode put on the wire at which version.  The two functions  *)
(* of a struct guard the same fields by the same versions, so one          *)
(* definition stands for both.  A struct is a sequence of parts:           *)
(*   Since(v, names)          from version v on                            *)
(*   Between(v, w, names)     from version v to version w                  *)
(*   Each(v, name, struct)    an array of structs from version v on        *)
(*   Tagged(t, v, name, s)    an optional field under tag t of a flexible  *)
(*                            version, skipped by a reader of another      *)
(* What the fields hold is left out, but for how many bytes they need.     *)

Part(lo, hi, names, struct, tagged) ==
    [lo |-> lo, hi |-> hi, names |-> names, struct |-> struct, tagged |-> tagged]

Newest == 99    \* no upper version

Since(v, names)               == Part(v, Newest, names, <<>>, FALSE)
Between(v, w, names)          == Part(v, w, names, <<>>, FALSE)
Each(v, name, struct)         == Part(v, Newest, <<name>>, struct, FALSE)
EachBetween(v, w, name, struct) == Part(v, w, <<name>>, struct, FALSE)
Tagged(tag, v, name, struct)  == Part(v, Newest, <<name>>, struct, TRUE)
-----------------------------------------------------------------------------
api_versions_response_api_version == <<Since(0, <<"api_key", "min_version", "max_version">>)>>

api_versions_response_supported_feature_key == <<
    Since(3, <<"name", "min_version", "max_version">>)>>

api_versions_response_finalized_feature_key == <<
    Since(3, <<"name", "max_version_level", "min_version_level">>)>>

consumer_protocol_assignment_topic_partition == <<Since(0, <<"topic", "partitions">>)>>

consumer_protocol_subscription_topic_partition == <<Since(1, <<"topic", "partitions">>)>>

describe_groups_response_described_group_member == <<
    Since(0, <<"member_id">>), Since(4, <<"group_instance_id">>),
    Since(0, <<"client_id", "client_host", "member_metadata", "member_assignment">>)>>

describe_groups_response_described_group == <<
    Since(0, <<"error_code">>), Since(6, <<"error_message">>),
    Since(0, <<"group_id", "group_state", "protocol_type", "protocol_data">>),
    Each(0, "members", describe_groups_response_described_group_member),
    Since(3, <<"authorized_operations">>)>>

fetch_request_replica_state == <<Since(15, <<"replica_id", "replica_epoch">>)>>

fetch_request_fetch_partition == <<
    Since(0, <<"partition">>), Since(9, <<"current_leader_epoch">>),
    Since(0, <<"fetch_offset">>), Since(12, <<"last_fetched_epoch">>),
    Since(5, <<"log_start_offset">>), Since(0, <<"partition_max_bytes">>),
    Tagged(0, 17, "replica_directory_id", <<>>), Tagged(1, 18, "high_watermark", <<>>)>>

fetch_request_fetch_topic == <<
    Between(0, 12, <<"topic">>), Since(13, <<"topic_id">>),
    Each(0, "partitions", fetch_request_fetch_partition)>>

fetch_request_forgotten_topic == <<
    Between(7, 12, <<"topic">>), Since(13, <<"topic_id">>), Since(7, <<"partitions">>)>>

fetch_response_epoch_end_offset == <<Since(12, <<"epoch", "end_offset">>)>>

fetch_response_leader_id_and_epoch == <<Since(12, <<"leader_id", "leader_epoch">>)>>

fetch_response_snapshot_id == <<Since(0, <<"end_offset", "epoch">>)>>

fetch_response_aborted_transaction == <<Since(4, <<"producer_id", "first_offset">>)>>

fetch_response_partition_data == <<
    Since(0, <<"partition_index", "error_code", "high_watermark">>),
    Since(4, <<"last_stable_offset">>), Since(5, <<"log_start_offset">>),
    Each(4, "aborted_transactions", fetch_response_aborted_transaction),
    Since(11, <<"preferred_read_replica">>), Since(0, <<"records">>),
    Tagged(0, 12, "diverging_epoch", fetch_response_epoch_end_offset),
    Tagged(1, 12, "current_leader", fetch_response_leader_id_and_epoch),
    Tagged(2, 12, "snapshot_id", fetch_response_snapshot_id)>>

fetch_response_fetchable_topic_response == <<
    Between(0, 12, <<"topic">>), Since(13, <<"topic_id">>),
    Each(0, "partitions", fetch_response_partition_data)>>

fetch_response_node_endpoint == <<Since(16, <<"node_id", "host", "port", "rack">>)>>

find_coordinator_response_coordinator == <<
    Since(4, <<"key", "node_id", "host", "port", "error_code", "error_message">>)>>

join_group_request_protocol == <<Since(0, <<"name", "metadata">>)>>

join_group_response_member == <<
    Since(0, <<"member_id">>), Since(5, <<"group_instance_id">>), Since(0, <<"metadata">>)>>

leave_group_request_member_identity == <<
    Since(3, <<"member_id", "group_instance_id">>), Since(5, <<"reason">>)>>

leave_group_response_member_response == <<
    Since(3, <<"member_id", "group_instance_id", "error_code">>)>>

list_offsets_request_list_offsets_partition == <<
    Since(0, <<"partition_index">>), Since(4, <<"current_leader_epoch">>),
    Since(0, <<"timestamp">>)>>

list_offsets_request_list_offsets_topic == <<
    Since(0, <<"name">>), Each(0, "partitions", list_offsets_request_list_offsets_partition)>>

list_offsets_response_list_offsets_partition_response == <<
    Since(0, <<"partition_index", "error_code">>), Since(1, <<"timestamp", "offset">>),
    Since(4, <<"leader_epoch">>)>>

list_offsets_response_list_offsets_topic_response == <<
    Since(0, <<"name">>),
    Each(0, "partitions", list_offsets_response_list_offsets_partition_response)>>

metadata_request_topic == <<Since(10, <<"topic_id">>), Since(0, <<"name">>)>>

metadata_response_broker == <<Since(0, <<"node_id", "host", "port">>), Since(1, <<"rack">>)>>

metadata_response_partition == <<
    Since(0, <<"error_code", "partition_index", "leader_id">>), Since(7, <<"leader_epoch">>),
    Since(0, <<"replica_nodes", "isr_nodes">>), Since(5, <<"offline_replicas">>)>>

metadata_response_topic == <<
    Since(0, <<"error_code", "name">>), Since(10, <<"topic_id">>), Since(1, <<"is_internal">>),
    Each(0, "partitions", metadata_response_partition),
    Since(8, <<"topic_authorized_operations">>)>>

offset_commit_request_partition == <<
    Since(0, <<"partition_index", "committed_offset">>),
    Since(6, <<"committed_leader_epoch">>), Since(0, <<"committed_metadata">>)>>

offset_commit_request_topic == <<
    Between(0, 9, <<"name">>), Since(10, <<"topic_id">>),
    Each(0, "partitions", offset_commit_request_partition)>>

offset_commit_response_partition == <<Since(0, <<"partition_index", "error_code">>)>>

offset_commit_response_topic == <<
    Between(0, 9, <<"name">>), Since(10, <<"topic_id">>),
    Each(0, "partitions", offset_commit_response_partition)>>

offset_fetch_request_topic == <<Between(0, 7, <<"name", "partition_indexes">>)>>

offset_fetch_request_topics == <<
    Between(8, 9, <<"name">>), Since(10, <<"topic_id">>), Since(8, <<"partition_indexes">>)>>

offset_fetch_request_group == <<
    Since(8, <<"group_id">>), Since(9, <<"member_id", "member_epoch">>),
    Each(8, "topics", offset_fetch_request_topics)>>

offset_fetch_response_partition == <<
    Between(0, 7, <<"partition_index", "committed_offset">>),
    Between(5, 7, <<"committed_leader_epoch">>), Between(0, 7, <<"metadata", "error_code">>)>>

offset_fetch_response_topic == <<
    Between(0, 7, <<"name">>),
    EachBetween(0, 7, "partitions", offset_fetch_response_partition)>>

offset_fetch_response_partitions == <<
    Since(8, <<"partition_index", "committed_offset", "committed_leader_epoch", "metadata",
      "error_code">>)>>

offset_fetch_response_topics == <<
    Between(8, 9, <<"name">>), Since(10, <<"topic_id">>),
    Each(8, "partitions", offset_fetch_response_partitions)>>

offset_fetch_response_group == <<
    Since(8, <<"group_id">>), Each(8, "topics", offset_fetch_response_topics),
    Since(8, <<"error_code">>)>>

produce_request_partition_produce_data == <<Since(0, <<"index", "records">>)>>

produce_request_topic_produce_data == <<
    Between(0, 12, <<"name">>), Since(13, <<"topic_id">>),
    Each(0, "partition_data", produce_request_partition_produce_data)>>

produce_response_batch_index_and_error_message == <<
    Since(8, <<"batch_index", "batch_index_error_message">>)>>

produce_response_leader_id_and_epoch == <<Since(10, <<"leader_id", "leader_epoch">>)>>

produce_response_partition_produce_response == <<
    Since(0, <<"index", "error_code", "base_offset">>), Since(2, <<"log_append_time_ms">>),
    Since(5, <<"log_start_offset">>),
    Each(8, "record_errors", produce_response_batch_index_and_error_message),
    Since(8, <<"error_message">>),
    Tagged(0, 10, "current_leader", produce_response_leader_id_and_epoch)>>

produce_response_topic_produce_response == <<
    Between(0, 12, <<"name">>), Since(13, <<"topic_id">>),
    Each(0, "partition_responses", produce_response_partition_produce_response)>>

produce_response_node_endpoint == <<Since(10, <<"node_id", "host", "port", "rack">>)>>

sync_group_request_assignment == <<Since(0, <<"member_id", "assignment">>)>>

api_versions_request == <<Since(3, <<"client_software_name", "client_software_version">>)>>

api_versions_response == <<
    Since(0, <<"error_code">>), Each(0, "api_keys", api_versions_response_api_version),
    Since(1, <<"throttle_time_ms">>),
    Tagged(0, 3, "supported_features", api_versions_response_supported_feature_key),
    Tagged(1, 3, "finalized_features_epoch", <<>>),
    Tagged(2, 3, "finalized_features", api_versions_response_finalized_feature_key),
    Tagged(3, 3, "zk_migration_ready", <<>>)>>

consumer_protocol_assignment == <<
    Each(0, "assigned_partitions", consumer_protocol_assignment_topic_partition),
    Since(0, <<"user_data">>)>>

consumer_protocol_subscription == <<
    Since(0, <<"topics", "user_data">>),
    Each(1, "owned_partitions", consumer_protocol_subscription_topic_partition),
    Since(2, <<"generation_id">>), Since(3, <<"rack_id">>)>>

describe_groups_request == <<
    Since(0, <<"groups">>), Since(3, <<"include_authorized_operations">>)>>

describe_groups_response == <<
    Since(1, <<"throttle_time_ms">>),
    Each(0, "groups", describe_groups_response_described_group)>>

fetch_request == <<
    Between(0, 14, <<"replica_id">>), Since(0, <<"max_wait_ms", "min_bytes">>),
    Since(3, <<"max_bytes">>), Since(4, <<"isolation_level">>),
    Since(7, <<"session_id", "session_epoch">>), Each(0, "topics", fetch_request_fetch_topic),
    Each(7, "forgotten_topics_data", fetch_request_forgotten_topic), Since(11, <<"rack_id">>),
    Tagged(0, 12, "cluster_id", <<>>),
    Tagged(1, 15, "replica_state", fetch_request_replica_state)>>

fetch_response == <<
    Since(1, <<"throttle_time_ms">>), Since(7, <<"error_code", "session_id">>),
    Each(0, "responses", fetch_response_fetchable_topic_response),
    Tagged(0, 16, "node_endpoints", fetch_response_node_endpoint)>>

find_coordinator_request == <<
    Between(0, 3, <<"key">>), Since(1, <<"key_type">>), Since(4, <<"coordinator_keys">>)>>

find_coordinator_response == <<
    Since(1, <<"throttle_time_ms">>), Between(0, 3, <<"error_code">>),
    Between(1, 3, <<"error_message">>), Between(0, 3, <<"node_id", "host", "port">>),
    Each(4, "coordinators", find_coordinator_response_coordinator)>>

heartbeat_request == <<
    Since(0, <<"group_id", "generation_id", "member_id">>), Since(3, <<"group_instance_id">>)>>

heartbeat_response == <<Since(1, <<"throttle_time_ms">>), Since(0, <<"error_code">>)>>

join_group_request == <<
    Since(0, <<"group_id", "session_timeout_ms">>), Since(1, <<"rebalance_timeout_ms">>),
    Since(0, <<"member_id">>), Since(5, <<"group_instance_id">>),
    Since(0, <<"protocol_type">>), Each(0, "protocols", join_group_request_protocol),
    Since(8, <<"reason">>)>>

join_group_response == <<
    Since(2, <<"throttle_time_ms">>), Since(0, <<"error_code", "generation_id">>),
    Since(7, <<"protocol_type">>), Since(0, <<"protocol_name", "leader">>),
    Since(9, <<"skip_assignment">>), Since(0, <<"member_id">>),
    Each(0, "members", join_group_response_member)>>

leave_group_request == <<
    Since(0, <<"group_id">>), Between(0, 2, <<"member_id">>),
    Each(3, "members", leave_group_request_member_identity)>>

leave_group_response == <<
    Since(1, <<"throttle_time_ms">>), Since(0, <<"error_code">>),
    Each(3, "members", leave_group_response_member_response)>>

list_offsets_request == <<
    Since(0, <<"replica_id">>), Since(2, <<"isolation_level">>),
    Each(0, "topics", list_offsets_request_list_offsets_topic), Since(10, <<"timeout_ms">>)>>

list_offsets_response == <<
    Since(2, <<"throttle_time_ms">>),
    Each(0, "topics", list_offsets_response_list_offsets_topic_response)>>

metadata_request == <<
    Each(0, "topics", metadata_request_topic), Since(4, <<"allow_auto_topic_creation">>),
    Between(8, 10, <<"include_cluster_authorized_operations">>),
    Since(8, <<"include_topic_authorized_operations">>)>>

metadata_response == <<
    Since(3, <<"throttle_time_ms">>), Each(0, "brokers", metadata_response_broker),
    Since(2, <<"cluster_id">>), Since(1, <<"controller_id">>),
    Each(0, "topics", metadata_response_topic),
    Between(8, 10, <<"cluster_authorized_operations">>), Since(13, <<"error_code">>)>>

offset_commit_request == <<
    Since(0, <<"group_id">>), Since(1, <<"generation_id_or_member_epoch", "member_id">>),
    Since(7, <<"group_instance_id">>), Between(2, 4, <<"retention_time_ms">>),
    Each(0, "topics", offset_commit_request_topic)>>

offset_commit_response == <<
    Since(3, <<"throttle_time_ms">>), Each(0, "topics", offset_commit_response_topic)>>

offset_fetch_request == <<
    Between(0, 7, <<"group_id">>), EachBetween(0, 7, "topics", offset_fetch_request_topic),
    Each(8, "groups", offset_fetch_request_group), Since(7, <<"require_stable">>)>>

offset_fetch_response == <<
    Since(3, <<"throttle_time_ms">>), EachBetween(0, 7, "topics", offset_fetch_response_topic),
    Between(2, 7, <<"error_code">>), Each(8, "groups", offset_fetch_response_group)>>

produce_request == <<
    Since(3, <<"transactional_id">>), Since(0, <<"acks", "timeout_ms">>),
    Each(0, "topic_data", produce_request_topic_produce_data)>>

produce_response == <<
    Each(0, "responses", produce_response_topic_produce_response),
    Since(1, <<"throttle_time_ms">>),
    Tagged(0, 10, "node_endpoints", produce_response_node_endpoint)>>

sasl_authenticate_request == <<Since(0, <<"auth_bytes">>)>>

sasl_authenticate_response == <<
    Since(0, <<"error_code", "error_message", "auth_bytes">>),
    Since(1, <<"session_lifetime_ms">>)>>

sasl_handshake_request == <<Since(0, <<"mechanism">>)>>

sasl_handshake_response == <<Since(0, <<"error_code", "mechanisms">>)>>

sync_group_request == <<
    Since(0, <<"group_id", "generation_id", "member_id">>), Since(3, <<"group_instance_id">>),
    Since(5, <<"protocol_type", "protocol_name">>),
    Each(0, "assignments", sync_group_request_assignment)>>

sync_group_response == <<
    Since(1, <<"throttle_time_ms">>), Since(0, <<"error_code">>),
    Since(5, <<"protocol_type", "protocol_name">>), Since(0, <<"assignment">>)>>
-----------------------------------------------------------------------------
(* The messages the client speaks *)

Api(lo, hi, flex, request, response) ==
    [min |-> lo, max |-> hi, flexible |-> flex, request |-> request, response |-> response]

\* min_version, max_version and flexible_from of each pair of messages, in the
\* order the generated header declares them.
ApisToFetch == [
    api_versions      |-> Api(0, 4, 3,   api_versions_request, api_versions_response),
    describe_groups   |-> Api(0, 6, 5,   describe_groups_request, describe_groups_response),
    fetch             |-> Api(4, 18, 12, fetch_request, fetch_response)]

ApisToLeave == [
    find_coordinator  |-> Api(0, 6, 3,   find_coordinator_request, find_coordinator_response),
    heartbeat         |-> Api(0, 4, 4,   heartbeat_request, heartbeat_response),
    join_group        |-> Api(0, 9, 6,   join_group_request, join_group_response),
    leave_group       |-> Api(0, 5, 4,   leave_group_request, leave_group_response)]

ApisToOffsets == [
    list_offsets      |-> Api(1, 11, 6,  list_offsets_request, list_offsets_response),
    metadata          |-> Api(0, 13, 9,  metadata_request, metadata_response),
    offset_commit     |-> Api(2, 10, 8,  offset_commit_request, offset_commit_response),
    offset_fetch      |-> Api(1, 10, 6,  offset_fetch_request, offset_fetch_response)]

ApisToSync == [
    produce           |-> Api(3, 13, 9,  produce_request, produce_response),
    sasl_authenticate |-> Api(0, 2, 2,  sasl_authenticate_request, sasl_authenticate_response),
    sasl_handshake    |-> Api(0, 1, Newest, sasl_handshake_request, sasl_handshake_response),
    sync_group        |-> Api(0, 5, 4,   sync_group_request, sync_group_response)]

Apis == ApisToFetch @@ ApisToLeave @@ ApisToOffsets @@ ApisToSync

Keys == DOMAIN Apis

Flexible(key, v) == v >= Apis[key].flexible

\* Part p of a struct is written and read at version v.
Present(p, v) == p.lo <= v /\ v <= p.hi

\* Messages nest at most so deep.
Depth == 5

\* A struct and those inside it at version v, each with the path to it: the parts
\* that hold a struct, level by level, the tagged ones only where tags says so.
Nested(struct, v, tags) ==
    LET level[d \in 0 .. Depth] ==
            IF d = 0 THEN {<<<<>>, struct>>}
            ELSE UNION {{<<s[1] \o p.names, p.struct>> :
                            p \in {q \in Range(s[2]) : Present(q, v) /\ (tags \/ ~q.tagged) /\ q.struct # <<>>}} :
                          s \in level[d - 1]}
    IN  UNION {level[d] : d \in 0 .. Depth}

\* The paths of the fields a struct has on the wire at version v; a tagged
\* field is there when it was set, which the client never does.
OnWire(struct, v) ==
    UNION {UNION {{s[1] \o <<name>> : name \in Range(p.names)} :
                    p \in {q \in Range(s[2]) : Present(q, v) /\ ~q.tagged}} :
             s \in Nested(struct, v, FALSE)}

\* The fewest bytes a struct takes: a length or a number is one byte or more,
\* and a flexible struct ends in the count of its tags.
MinBytes(struct, v, flex) ==
    FoldSet(LAMBDA i, n : n + IF Present(struct[i], v) /\ ~struct[i].tagged
                              THEN Len(struct[i].names) ELSE 0,
            IF flex THEN 1 ELSE 0, DOMAIN struct)

\* The structs that are elements of an array at version v, at any depth.
Elements(struct, v) == {s[2] : s \in {n \in Nested(struct, v, TRUE) : n[1] # <<>>}}
-----------------------------------------------------------------------------
(* What the callers put into a request, and what they read of its answer. *)
(* An item is a set of fields any one of which carries it.                 *)

Fields(path, names) == {{path \o <<n>>} : n \in names}
Topic(path, name)   == {{path \o <<name>>, path \o <<"topic_id">>}}

ProduceAsks ==
    Fields(<<>>, {"acks", "timeout_ms"}) \cup Topic(<<"topic_data">>, "name")
    \cup Fields(<<"topic_data", "partition_data">>, {"index", "records"})

ProduceReads == Fields(<<"responses", "partition_responses">>, {"index", "error_code"})

FetchAsks ==
    Fields(<<>>, {"max_wait_ms", "min_bytes", "max_bytes"}) \cup Topic(<<"topics">>, "topic")
    \cup Fields(<<"topics", "partitions">>, {"partition", "fetch_offset", "partition_max_bytes"})

FetchReads ==
    Topic(<<"responses">>, "topic")
    \cup Fields(<<"responses", "partitions">>, {"partition_index", "error_code", "records"})

ListOffsetsAsks ==
    Fields(<<"topics">>, {"name"})
    \cup Fields(<<"topics", "partitions">>, {"partition_index", "timestamp"})

ListOffsetsReads ==
    Fields(<<"topics">>, {"name"})
    \cup Fields(<<"topics", "partitions">>, {"partition_index", "error_code", "offset"})

MetadataAsks == Fields(<<"topics">>, {"name"})

MetadataReads ==
    Fields(<<"brokers">>, {"node_id", "host", "port"}) \cup Fields(<<"topics">>, {"name", "error_code"})
    \cup Fields(<<"topics", "partitions">>, {"partition_index", "leader_id", "replica_nodes"})

\* From version 4 on a list of keys, before that one key.
FindCoordinatorAsks(v) == Fields(<<>>, {IF v >= 4 THEN "coordinator_keys" ELSE "key"})

FindCoordinatorReads(v) ==
    Fields(IF v >= 4 THEN <<"coordinators">> ELSE <<>>, {"error_code", "node_id"})

JoinAsks ==
    Fields(<<>>, {"group_id", "session_timeout_ms", "member_id", "protocol_type"})
    \cup Fields(<<"protocols">>, {"name", "metadata"})

JoinReads ==
    Fields(<<>>, {"error_code", "generation_id", "leader", "member_id", "protocol_name"})
    \cup Fields(<<"members">>, {"member_id", "metadata"})

SyncAsks ==
    Fields(<<>>, {"group_id", "generation_id", "member_id"})
    \cup Fields(<<"assignments">>, {"member_id", "assignment"})

SyncReads == Fields(<<>>, {"error_code", "assignment"})

HeartbeatAsks == Fields(<<>>, {"group_id", "generation_id", "member_id"})

HeartbeatReads == Fields(<<>>, {"error_code"})

\* From version 8 on several groups, before that one.
OffsetFetchAsks(v) ==
    IF v >= 8
    THEN Fields(<<"groups">>, {"group_id"}) \cup Topic(<<"groups", "topics">>, "name")
         \cup Fields(<<"groups", "topics">>, {"partition_indexes"})
    ELSE Fields(<<>>, {"group_id"}) \cup Fields(<<"topics">>, {"name", "partition_indexes"})

OffsetFetchReads(v) ==
    LET g == IF v >= 8 THEN <<"groups">> ELSE <<>> IN
    (IF v >= 8 THEN Topic(<<"groups", "topics">>, "name") \cup Fields(g, {"error_code"})
     ELSE Fields(<<"topics">>, {"name"}))
    \cup Fields(g \o <<"topics", "partitions">>,
                {"partition_index", "committed_offset", "error_code"})

OffsetCommitAsks ==
    Fields(<<>>, {"group_id", "generation_id_or_member_epoch", "member_id"})
    \cup Topic(<<"topics">>, "name")
    \cup Fields(<<"topics", "partitions">>, {"partition_index", "committed_offset"})

OffsetCommitReads == Fields(<<"topics", "partitions">>, {"partition_index", "error_code"})

\* From version 3 on a list of members, before that one.
LeaveAsks(v) ==
    Fields(<<>>, {"group_id"}) \cup Fields(IF v >= 3 THEN <<"members">> ELSE <<>>, {"member_id"})

HandshakeReads ==
    Fields(<<>>, {"error_code"}) \cup Fields(<<"api_keys">>, {"api_key", "min_version", "max_version"})

\* What the callers of each message ask and read, by the version they expect.
Asks(key, v) ==
    CASE key = "produce"          -> ProduceAsks
      [] key = "fetch"            -> FetchAsks
      [] key = "list_offsets"     -> ListOffsetsAsks
      [] key = "metadata"         -> MetadataAsks
      [] key = "find_coordinator" -> FindCoordinatorAsks(v)
      [] key = "join_group"       -> JoinAsks
      [] key = "sync_group"       -> SyncAsks
      [] key = "heartbeat"        -> HeartbeatAsks
      [] key = "offset_fetch"     -> OffsetFetchAsks(v)
      [] key = "offset_commit"    -> OffsetCommitAsks
      [] key = "leave_group"      -> LeaveAsks(v)
      [] OTHER                    -> {}

Reads(key, v) ==
    CASE key = "produce"          -> ProduceReads
      [] key = "fetch"            -> FetchReads
      [] key = "list_offsets"     -> ListOffsetsReads
      [] key = "metadata"         -> MetadataReads
      [] key = "find_coordinator" -> FindCoordinatorReads(v)
      [] key = "join_group"       -> JoinReads
      [] key = "sync_group"       -> SyncReads
      [] key = "heartbeat"        -> HeartbeatReads
      [] key = "offset_fetch"     -> OffsetFetchReads(v)
      [] key = "offset_commit"    -> OffsetCommitReads
      [] key = "api_versions"     -> HandshakeReads
      [] OTHER                    -> {}
-----------------------------------------------------------------------------
(* The connection *)

\* negotiated(): the broker's newest version, as it advertised it.
negotiated(hi) == hi

\* A slip: the broker's newest version is sent, whatever the codecs know.
PickBrokerMax(key, requested, lo, hi) == IF hi < lo THEN -1 ELSE requested

\* pick_version: the version to send, or -1 for an error that names both ranges.
\* Before the handshake nothing is known of the broker and version 0 is asked for.
pick_version(key, requested, lo, hi) ==
    LET a == Apis[key]
        v == Min({requested, hi, a.max})
    IN IF key = "api_versions" THEN Min({requested, a.max})
       ELSE IF hi < lo \/ v < a.min \/ v < lo THEN -1 ELSE v

Init == req = NoRequest

\* A caller asks the connection for the version and shapes the request by it;
\* a broker that does not speak the message at all has an empty range.
Call(key, lo, hi) ==
    LET v == IF key = "api_versions" THEN 0 ELSE negotiated(hi) IN
    /\ req.phase = "none"
    /\ req' = [phase |-> "called", key |-> key, lo |-> lo, hi |-> hi, shape |-> v, version |-> -1]

\* send(): the request is encoded at the version both ends know, or refused.
Send ==
    LET v == pick_version(req.key, req.shape, req.lo, req.hi) IN
    /\ req.phase = "called"
    /\ req' = [req EXCEPT !.version = v, !.phase = IF v < 0 THEN "refused" ELSE "sent"]

\* External: the broker answers in the version of the request.
Answer ==
    /\ req.phase = "sent" /\ req' = [req EXCEPT !.phase = "answered"]

\* Versions a broker may advertise: a range, or none.
Ranges == {r \in (0 .. MaxBroker) \X (-1 .. MaxBroker) : r[1] <= r[2] \/ r = <<0, -1>>}

Next ==
    \/ \E key \in Keys, r \in Ranges : Call(key, r[1], r[2])
    \/ Send \/ Answer

Spec == Init /\ [][Next]_vars
-----------------------------------------------------------------------------
Speaks == req.phase \in {"sent", "answered"}

Carried(items, wire) == \A item \in items : item \cap wire # {}

\* Whatever release the broker is, a request that is sent is in a version both
\* ends implement and carries everything its caller put into it, and the answer
\* carries everything the caller will read, in the shape it will look for:
\* negotiated() and pick_version() may settle on different versions, and a field
\* the version lacks is dropped without an error.  An array of n structs takes at
\* least n bytes, so array_len refuses no honest length.
MeaningTravels ==
    Speaks =>
        LET a == Apis[req.key]
            v == req.version
        IN  /\ v \in a.min .. a.max /\ (req.key # "api_versions" => v \in req.lo .. req.hi)
            /\ Carried(Asks(req.key, req.shape), OnWire(a.request, v))
            /\ Carried(Reads(req.key, req.shape), OnWire(a.response, v))
            /\ \A s \in {a.request, a.response} : \A e \in Elements(s, v) :
                  MinBytes(e, v, Flexible(req.key, v)) >= 1
=============================================================================
