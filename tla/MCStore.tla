------------------------------ MODULE MCStore ------------------------------
EXTENDS Store

Msg(kind, base, status) == [kind |-> kind, base |-> base, status |-> status,
                            transport |-> "HEP3"]

\* The messages of a call: set up, rejected, answered, ended.
Dialog == {Msg("request", "INVITE", 0), Msg("response", "INVITE", 486),
           Msg("response", "INVITE", 200), Msg("request", "BYE", 0)}

AnyMessage == {Msg("request", "OPTIONS", 0), Msg("request", "OPTIONS|X", 0),
               Msg("response", "", 200)}

DialogOrAny == Dialog \cup AnyMessage

OneMessage == {Msg("request", "INVITE", 0)}

EarlyOrLate == {-1, 1}
OnTime == {0}
LateOrOnTime == {-2, 0}
AnySkew == EarlyOrLate \cup LateOrOnTime
West == -1
East == 1
=============================================================================
