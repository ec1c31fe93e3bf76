---------------------------- MODULE MCSiteVisit -----------------------------
EXTENDS SubmissionQuarantine

Pt(c) == [guarded |-> TRUE, quarantined |-> FALSE, candidates |-> c]
OpenCd(c) == [guarded |-> TRUE, quarantined |-> TRUE, candidates |-> c]
Other(c) == [guarded |-> FALSE, quarantined |-> FALSE, candidates |-> c]

MCTargets ==
    {Pt(<< <<"passive">>, <<"attend", "page", "nexus", "control", "wait">> >>),
     Pt(<< <<"open", "page", "control", "wait">>, <<"attend", "page", "qa">> >>),
     Pt(<< <<"open", "page", "opener", "control">>, <<"passive">>, <<"open", "u2">> >>),
     OpenCd(<< <<"open", "page", "opener", "openCd">>, <<"passive">> >>),
     Other(<< <<"open", "newApi", "page", "control", "wait">>, <<"open", "newApi", "page">> >>),
     Other(<< <<"open", "signIn">>, <<"open", "oauthApi", "page", "control", "quota", "wait">> >>),
     Other(<< <<"anyRouter">>, <<"anyRouter">> >>),
     Other(<< <<"open", "apiCaptcha">>, <<"open", "relogin">>, <<"open", "signIn">> >>)}
=============================================================================
