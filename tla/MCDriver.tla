------------------------------ MODULE MCDriver ------------------------------
EXTENDS Driver

CONSTANTS okta, entra, acme

TwoStems == {okta, entra}
ThreeStems == {okta, entra, acme}

\* No log_level, DEBUG and ERROR.
LogLevels == {0, 10, 40}
=============================================================================
