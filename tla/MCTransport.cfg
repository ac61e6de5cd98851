CONSTANTS
    Variants = {"plaintext", "mbedtls", "pkcs11"}
    MaxSockets = 4
    RetryMaxAttempts = 2
    ShutdownLoops = 3
SPECIFICATION FairSpec
INVARIANTS CurrentSocketOnly SecuredBeforeUse MutexesHeld SessionsBalanced
 
