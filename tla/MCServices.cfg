SPECIFICATION Spec
INVARIANTS
    SessionsOK
    
    

    
    
    
CHECK_DEADLOCK FALSE
