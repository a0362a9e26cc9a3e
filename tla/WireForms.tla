------------------------------ MODULE WireForms ------------------------------
(***************************************************************************)
(* How a payload that was applied reads back: the parsing that             *)
(* app/services/ps_parsers.py and app/utils/ip_utils.py do of what         *)
(* PowerShell serialises.  A duration comes as text ("8.00:00:00", or      *)
(* "1:30:00" below a day) or as the object ConvertTo-Json makes of a       *)
(* TimeSpan; of a failover relationship the fields its mode does not use   *)
(* come as anything at all.                                                *)
(***************************************************************************)
EXTENDS PayloadRules

-----------------------------------------------------------------------------
(* Durations *)

\* The ways the server can write a duration of so many minutes.
Durations(minutes) ==
    [form : {"text", "object"},
     days : {minutes \div 1440},
     hours : {(minutes % 1440) \div 60},
     minutes : {minutes % 60}]

parse_timespan_minutes(d) == d.days * 1440 + d.hours * 60 + d.minutes

\* A text without a days part is no day at all.
parse_timespan_days(d) == d.days

_parse_timespan_as_minutes(d) ==
    IF d.form = "text" THEN parse_timespan_minutes(d)
    ELSE (d.days * 24 + d.hours) * 60 + d.minutes

\* An object with no days is taken for one that lacks them: the default.
_parse_timespan_as_days(d) ==
    IF d.form = "text" THEN parse_timespan_days(d)
    ELSE IF d.days = 0 THEN 8 ELSE d.days

-----------------------------------------------------------------------------
(* Failover relationships *)

\* What Get-DhcpServerv4Failover may say of a relationship set up as `f`.
Reported(f) ==
    IF f.mode = "HotStandby"
    THEN {[f EXCEPT !.loadBalancePercent = x] : x \in {Null, 0, 50}}
    ELSE {[f EXCEPT !.serverRole = x, !.reservePercent = y] :
            x \in {Null, "Active", "Standby"}, y \in {Null, 0, 5}}

parse_failover(raw, lead) ==
    enforce_mode_fields(
        [raw EXCEPT !.reservePercent = IF @ = Null THEN 0 ELSE @,
                    !.loadBalancePercent = IF @ = Null THEN 0 ELSE @,
                    !.maxClientLeadTimeMinutes = lead])

-----------------------------------------------------------------------------
(* Whole payloads *)

\* Everything a GET may make of a scope to which `p` was applied.
Readings(p) ==
    LET leases == {_parse_timespan_as_days(d) :
                     d \in Durations(p.leaseDurationDays * 1440)}
        failovers ==
          IF p.failover = Null THEN {Null}
          ELSE {parse_failover(raw, _parse_timespan_as_minutes(d)) :
                  raw \in Reported(p.failover),
                  d \in Durations(p.failover.maxClientLeadTimeMinutes)}
    IN  {[p EXCEPT !.leaseDurationDays = l, !.failover = f] :
           l \in leases, f \in failovers}
=============================================================================
