------------------------------ MODULE MCNgxModule ------------------------------
(***************************************************************************)
(* Model-checking instance of NgxModule: two static modules, a core one    *)
(* and an http one, and three dynamic modules, one more than               *)
(* NGX_MAX_DYNAMIC_MODULES allows.  The filter module must come before     *)
(* ngx_http_core_module, the geoip module before the filter module.        *)
(***************************************************************************)
EXTENDS NgxModule

MCStatic == <<"core", "http_core">>
MCDynamic == {"geoip", "filter", "stream"}
MCType == [m \in {"core", "http_core", "geoip", "filter", "stream"} |->
             IF m \in {"core", "stream"} THEN "core" ELSE "http"]
MCOrder == [m \in MCDynamic |->
              IF m = "filter" THEN <<"filter", "http_core">>
              ELSE IF m = "geoip" THEN <<"geoip", "filter">> ELSE <<>>]
==============================================================================
