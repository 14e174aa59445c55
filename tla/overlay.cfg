SPECIFICATION Spec
CONSTANTS
    Names <- Spellings
    Denotes <- OnMachine
    Package = {index}
    Sensitive = {npmrc, pgpass, dockerenv, dotenv, tmpenv}
    Bait <- Serves
    EnvBait = {"walletKey"}
    Brief <- Short
    Staging = {tmp, tmpenv}
    Artifact = {dockerenv}
    Baited = {dotenv, tmpenv}
    MaxFds = 1
    MaxLen = 2
    Uses <- Together
    index = index
    indexRel = indexRel
    npmrc = npmrc
    pgpass = pgpass
    secring = secring
    environ = environ
    tmp = tmp
    dockerenv = dockerenv
    dotenv = dotenv
    tmpenv = tmpenv
    File1 = File1
    File2 = File2
    File3 = File3
    File4 = File4
    File5 = File5
    File6 = File6
    File7 = File7
    File8 = File8
    File9 = File9
INVARIANTS LooksAgree SecretsFollowCopies
PROPERTIES  ProbesTruthfully
CHECK_DEADLOCK FALSE
