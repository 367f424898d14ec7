----------------------------- MODULE MCServices -----------------------------
EXTENDS Services
\* One guest uses storage and attestation, the other storage and keys.
OneEach == [g \in {"g1", "g2"} |->
  IF g = "g1" THEN {<<"st", "get">>, <<"st", "remove">>, 
                      <<"at", "token">>}
  ELSE {<<"st", "set">>, <<"cr", "generate">>, <<"cr", "sign">>, <<"cr", "destroy">>}]
=============================================================================
