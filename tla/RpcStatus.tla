------------------------------ MODULE RpcStatus ------------------------------
(***************************************************************************)
(* How a Status crosses the wire.  PutChunk, HeadChunk and DeleteChunk     *)
(* answer with an rpc::Status inside an OK gRPC reply; GetChunk, a stream, *)
(* answers with the gRPC status itself.  A call that the transport ends    *)
(* (deadline, cancellation, lost connection) has a gRPC status only.       *)
(***************************************************************************)
EXTENDS DataPlaneTypes

ToRpcStatusCode ==
    [Ok                |-> "STATUS_CODE_OK",
     InvalidArgument   |-> "STATUS_CODE_INVALID_ARGUMENT",
     NotFound          |-> "STATUS_CODE_NOT_FOUND",
     AlreadyExists     |-> "STATUS_CODE_ALREADY_EXISTS",
     Unavailable       |-> "STATUS_CODE_UNAVAILABLE",
     Timeout           |-> "STATUS_CODE_TIMEOUT",
     IoError           |-> "STATUS_CODE_IO_ERROR",
     Corruption        |-> "STATUS_CODE_CORRUPTION",
     ResourceExhausted |-> "STATUS_CODE_RESOURCE_EXHAUSTED",
     Internal          |-> "STATUS_CODE_INTERNAL"]

FromRpcTable ==
    [STATUS_CODE_OK                 |-> "Ok",
     STATUS_CODE_INVALID_ARGUMENT   |-> "InvalidArgument",
     STATUS_CODE_NOT_FOUND          |-> "NotFound",
     STATUS_CODE_ALREADY_EXISTS     |-> "AlreadyExists",
     STATUS_CODE_UNAVAILABLE        |-> "Unavailable",
     STATUS_CODE_TIMEOUT            |-> "Timeout",
     STATUS_CODE_IO_ERROR           |-> "IoError",
     STATUS_CODE_CORRUPTION         |-> "Corruption",
     STATUS_CODE_RESOURCE_EXHAUSTED |-> "ResourceExhausted"]

FromRpcCodeMutant(code) ==          \* a case is missing
    IF code \in DOMAIN FromRpcTable \ {"STATUS_CODE_ALREADY_EXISTS"}
    THEN FromRpcTable[code] ELSE "Internal"

FromRpcCode(code) ==
    IF code \in DOMAIN FromRpcTable THEN FromRpcTable[code] ELSE "Internal"

-----------------------------------------------------------------------------
ToGrpcStatus ==
    [Ok                |-> "OK",
     InvalidArgument   |-> "INVALID_ARGUMENT",
     NotFound          |-> "NOT_FOUND",
     AlreadyExists     |-> "ALREADY_EXISTS",
     Unavailable       |-> "UNAVAILABLE",
     Timeout           |-> "DEADLINE_EXCEEDED",
     ResourceExhausted |-> "RESOURCE_EXHAUSTED",
     Corruption        |-> "DATA_LOSS",
     IoError           |-> "UNKNOWN",
     Internal          |-> "INTERNAL"]

FromGrpcTable ==
    [OK                 |-> "Ok",
     INVALID_ARGUMENT   |-> "InvalidArgument",
     NOT_FOUND          |-> "NotFound",
     ALREADY_EXISTS     |-> "AlreadyExists",
     DEADLINE_EXCEEDED  |-> "Timeout",
     RESOURCE_EXHAUSTED |-> "ResourceExhausted",
     DATA_LOSS          |-> "Corruption",
     UNKNOWN            |-> "IoError",
     INTERNAL           |-> "Internal"]

FromGrpcStatusMutant(code) ==       \* a case is missing
    IF code \in DOMAIN FromGrpcTable \ {"UNKNOWN"} THEN FromGrpcTable[code] ELSE "Unavailable"

FromGrpcStatus(code) ==
    IF code \in DOMAIN FromGrpcTable THEN FromGrpcTable[code] ELSE "Unavailable"

GrpcCodes == DOMAIN FromGrpcTable \cup {"UNAVAILABLE", "CANCELLED", "FAILED_PRECONDITION"}

(***************************************************************************)
(* How the transport ends a call before the handler has answered.          *)
(***************************************************************************)
BreakCodes == {"DEADLINE_EXCEEDED", "UNAVAILABLE", "CANCELLED"}

=============================================================================
