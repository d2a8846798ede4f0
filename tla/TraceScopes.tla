------------------------------ MODULE TraceScopes ------------------------------
(***************************************************************************)
(* TRACE_EVENT0 at the top of a function (rtc_base/trace_event.h): it adds *)
(* a begin event, and an end event when the scope closes.  Meanwhile a     *)
(* capture may start or stop, the embedder may turn the category on or off,*)
(* and the tracer may be set up or shut down (event_tracer.cc).            *)
(*                                                                         *)
(* Two tracers: the internal one, whose categories are on for good and     *)
(* which drops what is added while no capture is active, and one of an     *)
(* embedder that turns categories on and off.                              *)
(***************************************************************************)
EXTENDS Naturals, Sequences, SequencesExt

CONSTANTS Sites,        \* the places in the code that trace
          Quiet,        \* those of them whose category is disabled by default
          MaxNested, MaxEntered, MaxTurns   \* bounds

VARIABLES tracer,       \* "internal" or "embedder"
          isSet,        \* are g_get_category_enabled_ptr and g_add_trace_event_ptr set?
          active,       \* a capture is active, or the embedder's categories are on
          catstatic,    \* of each site: what its static pointer leads to
          nested,       \* the open scopes, innermost last: their number, site and p_data_
          began, ended, \* history: the scopes whose begin and end were recorded
          owes,         \* history: those entered while their site was traced
          unheard,      \* history: those entered while nobody recorded, and
          unended,      \* those closed while nobody did
          entered, turns

histories == <<began, ended, owes, unheard, unended>>
vars == <<tracer, isSet, active, catstatic, nested, histories, entered, turns>>

Init ==
  /\ tracer \in {"internal", "embedder"}
  /\ isSet = FALSE /\ active = FALSE
  /\ catstatic = [s \in Sites |-> "uninitialized"]
  /\ nested = << >>
  /\ began = {} /\ ended = {} /\ owes = {} /\ unheard = {} /\ unended = {}
  /\ entered = 0 /\ turns = 0

-----------------------------------------------------------------------------
(* SetupEventTracer, with the functions of a tracer or with none (before   *)
(* which the internal one stops its capture); and starting and stopping a  *)
(* capture, or turning the categories on and off.                          *)
Setup ==
  /\ turns < MaxTurns /\ turns' = turns + 1
  /\ isSet' = ~isSet
  /\ active' = (active /\ (tracer = "internal" => isSet'))
  /\ UNCHANGED <<tracer, catstatic, nested, histories, entered>>

Turn ==
  /\ tracer = "internal" => isSet
  /\ turns < MaxTurns /\ turns' = turns + 1
  /\ active' = ~active
  /\ UNCHANGED <<tracer, isSet, catstatic, nested, histories, entered>>

(* The pointer is fetched the first time a site is reached, and kept: one  *)
(* fetched before the tracer was set up leads to a zero for good.          *)
GetCategoryEnabled(site) ==
  IF isSet /\ (tracer = "internal" => site \notin Quiet) THEN "category" ELSE "zero"
CategoryEnabled(site) ==
  IF catstatic[site] = "uninitialized" THEN GetCategoryEnabled(site) ELSE catstatic[site]

IsEnabled(category) == category = "category" /\ (tracer = "embedder" => active)
(* AddTraceEvent, and InternalAddTraceEvent up to the logger.              *)
IsHeard == isSet /\ (tracer = "internal" => active)

IsTraced(site) ==
  active /\ isSet /\ catstatic[site] # "zero" /\ (tracer = "internal" => site \notin Quiet)

AddScoped(site) ==
  /\ Len(nested) < MaxNested /\ entered < MaxEntered
  /\ entered' = entered + 1
  /\ LET category == CategoryEnabled(site)
     IN  /\ catstatic' = [catstatic EXCEPT ![site] = category]
         /\ nested' = Append(nested, [number |-> entered', site |-> site, p_data_ |-> IsEnabled(category)])
         /\ began' = IF IsEnabled(category) /\ IsHeard THEN began \cup {entered'} ELSE began
  /\ owes' = IF IsTraced(site) THEN owes \cup {entered'} ELSE owes
  /\ unheard' = IF IsHeard THEN unheard ELSE unheard \cup {entered'}
  /\ UNCHANGED <<tracer, isSet, active, ended, unended, turns>>

AddsEnd(scope) == scope.p_data_ /\ IsEnabled(catstatic[scope.site]) /\ IsHeard

Close ==
  /\ nested # << >>
  /\ nested' = Front(nested)
  /\ ended' = IF AddsEnd(Last(nested)) THEN ended \cup {Last(nested).number} ELSE ended
  /\ unended' = IF active /\ isSet THEN unended ELSE unended \cup {Last(nested).number}
  /\ UNCHANGED <<tracer, isSet, active, catstatic, began, owes, unheard, entered, turns>>

Next == Setup \/ Turn \/ Close \/ \E site \in Sites : AddScoped(site)

Spec == Init /\ [][Next]_vars

-----------------------------------------------------------------------------
(* Every scope entered during a capture is recorded, unless its site was   *)
(* reached before the tracer was set up; there is no end event without its *)
(* begin event, but for scopes already open when the recording started; and*)
(* what stays open in a trace is still running or closed unrecorded.       *)
EndsHaveBegins ==
  /\ began = owes
  /\ ended \subseteq began \cup unheard
  /\ began \ ended \subseteq unended \cup {nested[k].number : k \in DOMAIN nested}
===============================================================================
