CONSTANT CfgScenes <- MCCfgScenes
CONSTANT SaslScenes <- MCSaslScenes
SPECIFICATION MCSpec
 
 
 
PROPERTY AdmissionsObeyed
PROPERTY SessionsEnd
CHECK_DEADLOCK FALSE
