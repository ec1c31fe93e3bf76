--------------------------- MODULE MCLoginRecovery --------------------------
(***************************************************************************)
(* Small installations, each with one interesting neighbourhood of sites.  *)
(***************************************************************************)
EXTENDS LoginRecovery

Plain == [piggo |-> FALSE, protected |-> FALSE, oauth |-> "none", waf |-> FALSE,
          bound |-> FALSE, factor |-> "none", ruled |-> FALSE, forceLogout |-> FALSE,
          linuxdo |-> FALSE, api |-> FALSE]
Piggo == [Plain EXCEPT !.piggo = TRUE, !.waf = TRUE, !.factor = "password"]
Hhclub == [Plain EXCEPT !.factor = "hhclub"]
Uhd == [Plain EXCEPT !.factor = "uhd"]
Hddolby == [Plain EXCEPT !.factor = "hddolby"]
LinuxDo == [Plain EXCEPT !.oauth = "native_oauth", !.bound = TRUE, !.ruled = TRUE,
                         !.linuxdo = TRUE]
Relay == [Plain EXCEPT !.oauth = "oauth", !.protected = TRUE, !.waf = TRUE]
NewApi == [Plain EXCEPT !.protected = TRUE, !.api = TRUE]
Detected == [Plain EXCEPT !.oauth = "oauth_autodetect"]
Forced == [Plain EXCEPT !.oauth = "oauth", !.bound = TRUE, !.ruled = TRUE,
                        !.forceLogout = TRUE]

MCConfigurations ==
    {<<Piggo>>, <<Hhclub>>, <<Uhd>>, <<Hddolby, Detected>>, <<NewApi>>, <<LinuxDo, Relay>>, <<Forced>>}

=============================================================================
