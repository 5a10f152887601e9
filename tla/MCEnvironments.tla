--------------------------- MODULE MCEnvironments ---------------------------
EXTENDS Environments

RequiredSecrets == {"GITOPS_PR_TOKEN", "TELEGRAM_TO", "TELEGRAM_TOKEN"}
LocalSecrets    == {"TELEGRAM_TO", "TELEGRAM_TOKEN"}
=============================================================================
