------------------------------ MODULE ServerRun ------------------------------
(***************************************************************************)
(* The life of the server program: core_run_server of                      *)
(* src/core/app_server.c with the set-up of endpoints and resources in     *)
(* src/coap/server/srv_utils.c.  Everything hangs on the CoAP context:     *)
(* freeing it takes the endpoints, the resources and the OSCORE contexts   *)
(* with it.  One return leaves the context as it is.                       *)
(***************************************************************************)
CONSTANT LocalAddresses     \* address and protocol pairs "::" resolves to

VARIABLES
    server,         \* the part of core_run_server the program is in
    coap_context    \* the endpoints and resources, if there is a context

serverVars == <<server, coap_context>>

NoCoapContext == [live |-> FALSE, endpoints |-> {}, resources |-> {}]

Resource(path, method, oscore_only) ==
    [path |-> path, method |-> method, oscore_only |-> oscore_only]
EdhocResource == Resource("/.well-known/edhoc", "POST", FALSE)

\* Mutant of TemperatureResource: COAP_RESOURCE_FLAGS_OSCORE_ONLY is forgotten.
OpenTemperatureResource == Resource("/sensors/temperature", "GET", FALSE)

TemperatureResource == Resource("/sensors/temperature", "GET", TRUE)

-----------------------------------------------------------------------------

ServerInit ==
    /\ server = "create_context"
    /\ coap_context = NoCoapContext

\* com_cleanup_resources, then the return: the end of everything after
\* CreateContext.
CleanUpAndReturn ==
    /\ server' = "returned"
    /\ coap_context' = NoCoapContext

\* The context is created and given the parameters.  A failure to create it
\* returns with none; one to attach the parameters, which "SHOULD NEVER HAPPEN",
\* returns without com_cleanup_resources and leaks the context.
CreateContext ==
    /\ server = "create_context"
    /\ \/ /\ coap_context' = [coap_context EXCEPT !.live = TRUE]
          /\ server' \in {"set_up_endpoints", "returned"}
       \/ UNCHANGED coap_context /\ server' = "returned"

\* Mutant of SetUpEndpoints: has_endpoint is not looked at.
SetUpEndpointsRegardless ==
    /\ server = "set_up_endpoints"
    /\ \E endpoints \in SUBSET LocalAddresses :
         coap_context' = [coap_context EXCEPT !.endpoints = endpoints]
    /\ server' = "add_post_resource"

\* srv_coap_setup_endpoints: no endpoint, for whatever reason, is a failure;
\* the address may not be resolved to anything.
SetUpEndpoints ==
    /\ server = "set_up_endpoints"
    /\ \/ \E endpoints \in (SUBSET LocalAddresses) \ {{}} :
            /\ coap_context' = [coap_context EXCEPT !.endpoints = endpoints]
            /\ server' = "add_post_resource"
       \/ CleanUpAndReturn

\* add_resource_with_extra_flags
AddResource(resource) ==
    coap_context' = [coap_context EXCEPT !.resources = @ \cup {resource}]

AddPostResource ==
    /\ server = "add_post_resource"
    /\ \/ AddResource(EdhocResource) /\ server' = "add_get_resource"
       \/ CleanUpAndReturn

AddGetResource ==
    /\ server = "add_get_resource"
    /\ \/ AddResource(TemperatureResource) /\ server' = "serving"
       \/ CleanUpAndReturn

\* srv_coap_run_input_output_loop ends only when coap_io_process fails.
LoopFails ==
    /\ server = "serving"
    /\ CleanUpAndReturn

ServerNext ==
    \/ CreateContext
    \/ SetUpEndpoints
    \/ AddPostResource
    \/ AddGetResource
    \/ LoopFails

-----------------------------------------------------------------------------

ServerTypeOK ==
    /\ server \in {"create_context", "set_up_endpoints", "add_post_resource",
                   "add_get_resource", "serving", "returned"}
    /\ coap_context \in
         [live : BOOLEAN, endpoints : SUBSET LocalAddresses,
          resources : SUBSET {EdhocResource, TemperatureResource}]
=============================================================================
