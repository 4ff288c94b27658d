CONSTANTS
    Server <- MCServer
    Setups <- MCSetups
    Eye = "left"
    MaxAttempts = 2
SPECIFICATION Spec
INVARIANTS AcksAreTrue
 
CHECK_DEADLOCK FALSE
