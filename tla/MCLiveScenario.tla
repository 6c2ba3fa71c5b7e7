--------------------------- MODULE MCLiveScenario ----------------------------
(***************************************************************************)
(* Every configuration of up to four lines from a few, and scenarios of    *)
(* two files.                                                              *)
(***************************************************************************)
EXTENDS LiveScenario

CONSTANTS Zero, Sender, Other, Target

MCTexts == {Blank, Yes, FIX44, Zero, Sender, Other, Target}
MCAtoi == [t \in MCTexts |-> 0]

Lines ==
  { SectionLine("A"), SectionLine(""), KeyLine("sender_comp_id", Sender),
    KeyLine("sender_comp_id", Other), KeyLine("target_comp_id", Target),
    KeyLine("reset_on_logon", Yes), KeyLine("timezone", Other) }

\* Every file of up to four lines, and some longer ones.
MCConfigFiles ==
  UNION {[1..n -> Lines] : n \in 0..4} \cup
  { <<KeyLine("target_comp_id", Target), SectionLine("A"), KeyLine("sender_comp_id", Sender),
      SectionLine("B"), KeyLine("heartbeat_interval", Zero), SectionLine("A"), KeyLine("timezone", Other)>>,
    <<SectionLine("A"), KeyLine("sender_comp_id", Sender), SectionLine("DEFAULT"),
      KeyLine("target_comp_id", Target), SectionLine("A"), KeyLine("begin_string", Blank)>>,
    <<SectionLine("A"), KeyLine("sender_comp_id", Sender), KeyLine("target_comp_id", Target),
      KeyLine("heartbeat_interval", Zero)>> }

\* A new order, with header values of its own; an order and an amendment that refer to
\* the original, once with a ClOrdID generated before it; lines
\* of two and of three orders.
Order   == <<Field(49, Other), Field(34, Empty), Field(11, Empty), Field(49, Other)>>
Origin  == <<Field(8, FIX44), Field(56, Empty), Field(11, OrgClrId), Field(60, Empty)>>
Amend   == <<Field(11, Other), Field(41, OrgClrId), Field(52, Empty)>>
Cross   == <<Field(548, Empty), Field(11, Other), Field(11, Empty), Field(10, Other)>>
Orders  == <<Field(11, Empty), Field(11, Empty), Field(11, Other)>>

MCScenarios ==
  { << <<Order, Amend>>, <<Origin, Amend>> >>,
    << <<Origin, <<>>, Amend>>, <<Amend, Origin>> >>,
    << <<Cross, Order>>, <<Orders>> >> }
=============================================================================
