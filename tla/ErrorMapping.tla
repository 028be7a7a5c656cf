---------------------------- MODULE ErrorMapping ----------------------------
(***************************************************************************)
(* How an error of a manager becomes the status of the RPC                 *)
(* (internal/errors, the errors.go files of compute and image, and the     *)
(* interceptor of the gRPC server).  An error is the set of kinds in its   *)
(* Unwrap chain; wrapping with %w adds none.  A converter is the sequence  *)
(* of the kinds it looks for, in the order it looks, with their codes.     *)
(***************************************************************************)
EXTENDS Naturals, Sequences

CommonErrorConverter ==
    << <<"ErrNotFound", "NotFound">>,
       <<"ErrInvalidArgument", "InvalidArgument">>,
       <<"ErrAlreadyExists", "AlreadyExists">>,
       <<"ErrPermissionDenied", "PermissionDenied">>,
       <<"ErrNotImplemented", "Unimplemented">>,
       <<"ErrUnsupported", "Unimplemented">>,
       <<"ErrInternal", "Internal">> >>

K8sErrorConverter ==
    << <<"ErrK8sObjectNotInstantiated", "InvalidArgument">>,
       <<"ErrK8sObjectNotManagedByKubeNfv", "PermissionDenied">>,
       <<"k8sNotFound", "NotFound">>,
       <<"k8sAlreadyExists", "AlreadyExists">>,
       <<"k8sInvalid", "InvalidArgument">>,
       <<"k8sBadRequest", "InvalidArgument">>,
       <<"k8sForbidden", "PermissionDenied">>,
       <<"k8sUnauthorized", "Unauthenticated">> >>

ImageErrorConverter ==
    << <<"ErrDataVolumeAlreadyExists", "AlreadyExists">>,
       <<"ErrDataVolumeNotFound", "NotFound">>,
       <<"ErrApplyOption", "InvalidArgument">> >>

ComputeErrorConverter ==
    << <<"ErrIPAMConfigurationMissing", "InvalidArgument">> >>

\* In the order of registration: package errors, then the packages that use it.
Converters == CommonErrorConverter \o K8sErrorConverter
                \o ImageErrorConverter \o ComputeErrorConverter

(* The first converter that knows a kind decides; an unknown error is      *)
(* Internal.  An error that is a gRPC status already passes unchanged; the *)
(* managers return none.                                                   *)
ToGRPCError(err) ==
    LET known == {i \in DOMAIN Converters : Converters[i][1] \in err}
    IN  IF known = {} THEN "Internal"
        ELSE Converters[CHOOSE i \in known : \A j \in known : i <= j][2]

Codes == {"Internal"} \union {Converters[i][2] : i \in DOMAIN Converters}

=============================================================================
